----------------------------- MODULE FileSystem -----------------------------
(***************************************************************************)
(* The file system process (PID 5): it takes one request at a time from    *)
(* its mailbox, works on fd_array and sends the message back.              *)
(*                                                                         *)
(* A file is its size; a directory is a sequence of entries, each "name",  *)
(* "gap" (an entry whose name is NULL) or "end" (END_DIR_INODE).  What is  *)
(* read is given by its positions: bytes of a file, entries of a           *)
(* directory.  FindName is modelled by its result for a full name.         *)
(*                                                                         *)
(* bin_dir has no "end" entry, so ReadObj goes on into what the build put  *)
(* behind it; "after" is chosen at boot among the layouts of Layouts.      *)
(***************************************************************************)
EXTENDS Integers, Sequences, FiniteSets, FiniteSetsExt

CONSTANTS
  Shells,   \* processes that use the file system
  MAX_FD,   \* size of fd_array
  Files,    \* size of each file
  Dirs,     \* entries of each directory
  Missing,  \* names of nothing
  CHUNK,    \* bytes per read of a file (100)
  Layouts   \* what may follow a directory without end marker in memory

FD == 0 .. MAX_FD-1
Objects == DOMAIN Files \cup DOMAIN Dirs
Names == Objects \cup Missing

ASSUME FileAssumption ==
  /\ MAX_FD \in Nat \ {0} /\ CHUNK \in Nat \ {0}
  /\ \A f \in DOMAIN Files : Files[f] \in Nat
  /\ DOMAIN Files \cap DOMAIN Dirs = {} /\ Objects \cap Missing = {}

Entry == {"name", "gap", "end"}

\* What is read is a sequence of entries, and the marker of some other
\* directory lies behind bin_dir.
ASSUME DirectoryAssumption ==
  /\ \A d \in DOMAIN Dirs : Dirs[d] \in Seq(Entry)
  /\ \A l \in Layouts : l \in Seq(Entry) /\ \E i \in DOMAIN l : l[i] = "end"

UNUSED == "UNUSED"
NULL == "NULL"

\* UNUSED (-100) is no PID.
ASSUME ShellAssumption == UNUSED \notin Shells

NoReply == [code |-> "none"]

VARIABLES
  requests,  \* the mailbox of FileSystem
  reply,     \* the message each shell got back
  owner,     \* fd_array[].owner
  offset,    \* fd_array[].offset
  item,      \* fd_array[].item
  after      \* memory behind a directory without end marker

fdVars == <<owner, offset, item>>

FileInit ==
  /\ requests = <<>>
  /\ reply = [c \in Shells |-> NoReply]
  /\ owner = [fd \in FD |-> UNUSED]
  /\ offset = [fd \in FD |-> 0]
  /\ item = [fd \in FD |-> NULL]
  /\ after \in Layouts
----------------------------------------------------------------------------
Entries(d) ==
  IF \E i \in DOMAIN Dirs[d] : Dirs[d][i] = "end" THEN Dirs[d] ELSE Dirs[d] \o after

\* The message goes back with a result code; number[0] and data may change.
Answer(m, code, fd, data) ==
  /\ requests' = Tail(requests)
  /\ reply' = [reply EXCEPT ![m.sender] =
                 [code |-> code, fd |-> fd, name |-> m.name, data |-> data]]
  /\ UNCHANGED after

\* A ChkObj that approves of every name.
ChkObjTrusts(m) ==
  /\ Answer(m, "GOOD", m.fd, <<>>)
  /\ UNCHANGED fdVars

ChkObj(m) ==
  /\ Answer(m, IF m.name \in Objects THEN "GOOD" ELSE "UNFOUND", m.fd, <<>>)
  /\ UNCHANGED fdVars

FreeFDs == {fd \in FD : owner[fd] = UNUSED}

\* An AllocFD that does not reset the offset.
AllocFDKeepsOffset(fd, c) ==
  /\ owner' = [owner EXCEPT ![fd] = c]
  /\ UNCHANGED offset

AllocFD(fd, c) ==
  /\ owner' = [owner EXCEPT ![fd] = c]
  /\ offset' = [offset EXCEPT ![fd] = 0]

\* The descriptor is taken before the name is looked up; a name that is not
\* found leaves it taken, and its number is not returned.
OpenObj(m) ==
  LET fd == Min(FreeFDs) IN
  \/ /\ FreeFDs = {}
     /\ Answer(m, "NO_FD", m.fd, <<>>)
     /\ UNCHANGED fdVars
  \/ /\ FreeFDs # {} /\ m.name \in Objects
     /\ AllocFD(fd, m.sender)
     /\ item' = [item EXCEPT ![fd] = m.name]
     /\ Answer(m, "GOOD", fd, <<>>)
  \/ /\ FreeFDs # {} /\ m.name \notin Objects
     /\ AllocFD(fd, m.sender)
     /\ item' = [item EXCEPT ![fd] = NULL]
     /\ Answer(m, "UNFOUND", m.fd, <<>>)

CanAccessFD(fd, c) == fd \in FD /\ owner[fd] = c

\* A FreeFD that follows the comment of fd_t ("-1 means not used").
FreeFDWithMinusOne(fd) == owner' = [owner EXCEPT ![fd] = "-1"]

FreeFD(fd) == owner' = [owner EXCEPT ![fd] = UNUSED]

CloseObj(m) ==
  \/ /\ CanAccessFD(m.fd, m.sender)
     /\ FreeFD(m.fd)
     /\ Answer(m, "GOOD", m.fd, <<>>)
     /\ UNCHANGED <<offset, item>>
  \/ /\ ~ CanAccessFD(m.fd, m.sender)
     /\ Answer(m, "ILL_PARAM", m.fd, <<>>)
     /\ UNCHANGED fdVars

\* The next entry that is no gap; the end marker is not passed.
ReadDir(m) ==
  LET entries == Entries(item[m.fd])
      next == Min({i \in DOMAIN entries : i > offset[m.fd] /\ entries[i] # "gap"})
  IN
  /\ item[m.fd] \in DOMAIN Dirs
  /\ \/ /\ entries[next] = "end"
        /\ offset' = [offset EXCEPT ![m.fd] = next - 1]
        /\ Answer(m, "FM_EOF", m.fd, <<>>)
     \/ /\ entries[next] = "name"
        /\ offset' = [offset EXCEPT ![m.fd] = next]
        /\ Answer(m, "GOOD", m.fd, <<next>>)
  /\ UNCHANGED <<owner, item>>

\* A read of a file that does not look for its end.
ReadFileWithoutEOF(m) ==
  LET at == offset[m.fd]
      result == Min({Files[item[m.fd]] - at, CHUNK})
  IN
  /\ item[m.fd] \in DOMAIN Files
  /\ Answer(m, "GOOD", m.fd, [i \in 1 .. result |-> at + i])
  /\ offset' = [offset EXCEPT ![m.fd] = at + result]
  /\ UNCHANGED <<owner, item>>

ReadFile(m) ==
  LET at == offset[m.fd]
      remaining == Files[item[m.fd]] - at
      result == Min({remaining, CHUNK})
  IN
  /\ item[m.fd] \in DOMAIN Files
  /\ \/ /\ remaining = 0
        /\ Answer(m, "FM_EOF", m.fd, <<>>)
        /\ UNCHANGED offset
     \/ /\ remaining # 0
        /\ Answer(m, "GOOD", m.fd, [i \in 1 .. result |-> at + i])
        /\ offset' = [offset EXCEPT ![m.fd] = at + result]
  /\ UNCHANGED <<owner, item>>

ReadObj(m) ==
  \/ CanAccessFD(m.fd, m.sender) /\ (ReadDir(m) \/ ReadFile(m))
  \/ /\ ~ CanAccessFD(m.fd, m.sender)
     /\ Answer(m, "ILL_PARAM", m.fd, <<>>)
     /\ UNCHANGED fdVars

\* One turn of the loop of FileSystem().
Serve ==
  /\ requests # <<>>
  /\ LET m == Head(requests) IN
     \/ m.code = "CHK_OBJ" /\ ChkObj(m)
     \/ m.code = "OPEN_OBJ" /\ OpenObj(m)
     \/ m.code = "READ_OBJ" /\ ReadObj(m)
     \/ m.code = "CLOSE_OBJ" /\ CloseObj(m)
----------------------------------------------------------------------------
FileTypeOK ==
  /\ owner \in [FD -> Shells \cup {UNUSED}]
  /\ offset \in [FD -> Nat]
  /\ item \in [FD -> Objects \cup {NULL}]
=============================================================================
