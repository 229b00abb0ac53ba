---------------------------- MODULE CommandLine ----------------------------
(***************************************************************************)
(* What the shell makes of a line: the dispatch in UserShell, the target   *)
(* that Dir and Cat take from it, and its lookup.  The line grows as it is *)
(* typed; each state is a line that a carriage return could end.           *)
(***************************************************************************)
EXTENDS FindName

CONSTANTS
  Keys,       \* what may be typed
  MAX_LINE,   \* bound on the line; msg.data holds 101 characters
  WORD,       \* length of a command word (3)
  OutWords, DirWords, CatWords  \* {out, 000}, {dir, 111}, {cat, 222}

\* No program in the root has the name of a command, and no key is the 0 that
\* ends a line.
ASSUME CommandAssumption ==
  /\ WORD \in Nat \ {0} /\ MAX_LINE \in Nat
  /\ Keys \subseteq STRING \ {END}
  /\ \A w \in OutWords \cup DirWords \cup CatWords :
       w \in Seq(STRING \ {SLASH, END}) /\ Len(w) = WORD
  /\ \A i \in DOMAIN Dir[ROOT] : Dir[ROOT][i].name \notin OutWords \cup DirWords

VARIABLE line

Init == line = <<>>

\* *p++ = ch of TerminalIn.
TypeKey(c) == Len(line) < MAX_LINE /\ line' = Append(line, c)

Next == \E c \in Keys : TypeKey(c)

Spec == Init /\ [][Next]_line
----------------------------------------------------------------------------
\* A word compared without its final 0.
IsPrefixWord(s, words) == \E w \in words : MyStrcmp(s, w, Len(w))

\* sizeof("out") counts the final 0.
IsWord(s, words) == \E w \in words : MyStrcmp(s, w, Len(w) + 1)

BeginsWith(s, words) == \E w \in words : MyStrcmp(s, w, Len(w))

\* cmd += 4.  Behind a bare word lies what an earlier text left in msg.data.
LEFTOVER == <<"?">>
Argument(cmd) ==
  IF Len(cmd) > WORD THEN SubSeq(cmd, WORD + 2, Len(cmd)) ELSE LEFTOVER

\* The command, and the name it looks up.
Dispatch(s) ==
  IF s = <<>> THEN <<"prompt", <<>>>>
  ELSE IF IsWord(s, OutWords) THEN <<"out", <<>>>>
  ELSE IF IsWord(s, DirWords)
  THEN <<"dir", IF Chars(s, WORD + 1)[WORD + 1] = " " THEN Argument(s) ELSE <<SLASH>>>>
  ELSE IF BeginsWith(s, CatWords) THEN <<"cat", Argument(s)>>
  ELSE <<"run", s>>
----------------------------------------------------------------------------
\* FindName walks along the components of a path, each standing for the first
\* entry it is a prefix of, wherever and however many slashes there are; so it
\* does for every path along which the search stays inside the directories.
FindsByComponents ==
  IF line = <<>> THEN FindName(line) = NULL
  ELSE LeavesDirectories(line) \/ FindName(line) = Walk(line, FALSE)

\* FileSystem.c:358 promises the "ptr to dir entry if found, else 0", and the
\* comment at 371 to "make sure this is a dir" before it goes on: for every
\* path, also one missed in bin_dir or going on behind the name of a file.
FoundElseNull == line # <<>> => FindName(line) = Walk(line, FALSE)

\* The full name of an entry finds that entry: prefixes never get in the way.
FullNamesFound ==
  line # <<>> /\ Walk(line, TRUE) # NULL => FindName(line) = Walk(line, TRUE)

\* Only the word alone logs out, and the name of an entry is run as a program
\* even if it begins with "out" or "dir".  Names that begin with "cat" are not:
\* the shell takes them for cat, and the file system has none.
NamesAreNotCommands ==
  /\ Dispatch(line)[1] = "out" <=> line \in OutWords
  /\ line # <<>> /\ Walk(line, TRUE) # NULL /\ ~ BeginsWith(line, CatWords)
       => Dispatch(line) = <<"run", line>>
=============================================================================
