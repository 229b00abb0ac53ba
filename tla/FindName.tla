------------------------------ MODULE FindName ------------------------------
(***************************************************************************)
(* The lookup of a path in the directories of the file system (FindName,   *)
(* FindNameSub), character by character as MyStrcmp and strchr do it, and  *)
(* what it is meant to be: a walk along the components of the path.        *)
(*                                                                         *)
(* A directory is a sequence of entries; the one entered after the last is *)
(* either the entry without a name that ends the search, or, for a         *)
(* directory in NoEnd, whatever the build put behind it: BEHIND.  JUNK is  *)
(* what is found in the data of a file taken for a directory.              *)
(***************************************************************************)
EXTENDS Integers, Sequences, SequencesExt

CONSTANTS
  Dir,    \* the entries of each directory: [name, data]
  NoEnd,  \* directories without an entry that ends the search (bin_dir)
  ROOT    \* root_dir

\* Every directory begins with its own entry "."; names are not empty, and
\* none is the beginning of a name entered before it.
ASSUME FindNameAssumption ==
  /\ ROOT \in DOMAIN Dir /\ NoEnd \subseteq DOMAIN Dir
  /\ "NULL" \notin DOMAIN Dir
  /\ \A d \in DOMAIN Dir :
       /\ Dir[d] \in Seq([name : Seq(STRING), data : STRING]) /\ Dir[d] # <<>>
       /\ Dir[d][1] = [name |-> <<".">>, data |-> d]
       /\ \A i \in DOMAIN Dir[d] :
            /\ Dir[d][i].name # <<>>
            /\ \A j \in 1 .. i-1 : ~ IsPrefix(Dir[d][i].name, Dir[d][j].name)

NULL == [name |-> <<>>, data |-> "NULL"]
JUNK == [name |-> <<>>, data |-> "junk"]
BEHIND == [name |-> <<>>, data |-> "behind"]
SLASH == "/"
END == "\\0"
----------------------------------------------------------------------------
\* MyStrcmp: do the first size characters agree, the final 0 included?
Chars(s, size) == [i \in 1 .. size |-> IF i <= Len(s) THEN s[i] ELSE END]
MyStrcmp(s, t, size) == Chars(s, size) = Chars(t, size)

\* The characters of name up to the first slash, and those after it.
HasSlash(name) == Contains(name, SLASH)
Slash(name) == CHOOSE i \in DOMAIN name :
                 name[i] = SLASH /\ \A j \in 1 .. i-1 : name[j] # SLASH

\* A lookup that compares what is behind the slash too.
WholeLen(name) == Len(name)

ComponentLen(name) == IF HasSlash(name) THEN Slash(name) - 1 ELSE Len(name)

Behind(name) == SubSeq(name, Slash(name) + 1, Len(name))

\* while( *p == '/' ) p++;
SkipSlashes(name) ==
  IF \A i \in DOMAIN name : name[i] = SLASH THEN <<>>
  ELSE SubSeq(name,
              CHOOSE i \in DOMAIN name :
                name[i] # SLASH /\ \A j \in 1 .. i-1 : name[j] = SLASH,
              Len(name))

Matches(name, d) ==
  {i \in DOMAIN Dir[d] : MyStrcmp(name, Dir[d][i].name, ComponentLen(name))}

\* A search from the end of the directory.
LastMatch(S) == CHOOSE i \in S : \A j \in S : j <= i

FirstMatch(S) == CHOOSE i \in S : \A j \in S : i <= j

\* What it returns, for what is left of the path and the directory it is in.
FindNameSub(path) ==
  LET find[name \in Suffixes(path)] ==
        [d \in DOMAIN Dir |->
          LET found == Dir[d][FirstMatch(Matches(name, d))]
              rest == SkipSlashes(Behind(name))
          IN
          IF Matches(name, d) = {} THEN IF d \in NoEnd THEN BEHIND ELSE NULL
          ELSE IF ~ HasSlash(name) THEN found
          ELSE IF rest = <<>> THEN found
          ELSE IF found.data \in DOMAIN Dir THEN find[rest][found.data]
          ELSE JUNK]
  IN find

FindName(name) ==
  IF name = <<>> THEN NULL
  ELSE IF SkipSlashes(name) = <<>> THEN Dir[ROOT][1]
  ELSE FindNameSub(name)[SkipSlashes(name)][ROOT]
----------------------------------------------------------------------------
\* The reference: a walk along the components of a path, from the root.  The
\* component that ends at j, and the first entry it stands for: one with that
\* name if full, one whose name it begins if not.
Ends(path, j) == path[j] # SLASH /\ (j = Len(path) \/ path[j+1] = SLASH)

Component(path, j) ==
  LET first == CHOOSE i \in 1 .. j :
                 /\ \A k \in i .. j : path[k] # SLASH
                 /\ i = 1 \/ path[i-1] = SLASH
  IN SubSeq(path, first, j)

StandsFor(c, name, full) == IF full THEN c = name ELSE IsPrefix(c, name)

Enter(at, c, full) ==
  LET S == {i \in DOMAIN Dir[at.data] : StandsFor(c, Dir[at.data][i].name, full)}
  IN IF at.data \notin DOMAIN Dir THEN NULL
     ELSE IF S = {} THEN NULL
     ELSE Dir[at.data][FirstMatch(S)]

\* Where the walk is after the first j characters of the path.
WalkAt(path, full) ==
  LET at[j \in 0 .. Len(path)] ==
        IF j = 0 THEN Dir[ROOT][1]
        ELSE IF Ends(path, j) THEN Enter(at[j-1], Component(path, j), full)
        ELSE at[j-1]
  IN at

Walk(path, full) == WalkAt(path, full)[Len(path)]

\* Some component is looked up in a file, or missed in a directory without an
\* end: what the search reads there is no directory any more.
LeavesDirectories(path) ==
  LET at == WalkAt(path, FALSE) IN
  \E j \in 1 .. Len(path) :
    /\ at[j-1] # NULL /\ at[j] = NULL
    /\ at[j-1].data \notin DOMAIN Dir \ NoEnd
=============================================================================
