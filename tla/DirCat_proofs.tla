--------------------------- MODULE DirCat_proofs ---------------------------
(***************************************************************************)
(* For any number of shells and descriptors, any files, directories and    *)
(* names, and whatever lies behind bin_dir: dir and cat show the object    *)
(* they were given or nothing of it, and an idle shell holds no descriptor.*)
(*                                                                         *)
(* Each shell has one request under way or one answer (OneMessage); Asked  *)
(* and Answered say what is so of the shell's descriptors and of what it   *)
(* has shown at each of these points.  A step of FileSystem or of another  *)
(* shell does not disturb that (MessagesKeep).  What a command has shown   *)
(* is compared with the offset of its descriptor, not with its end.        *)
(***************************************************************************)
EXTENDS DirCat, TLAPS, FiniteSetTheorems, SequenceTheorems, WellFoundedInduction

Codes == {"CHK_OBJ", "OPEN_OBJ", "READ_OBJ", "CLOSE_OBJ"}

Request == [sender : Shells, code : Codes, name : Names, fd : Int]

Reply ==
  [code : {"GOOD", "UNFOUND", "NO_FD", "ILL_PARAM", "FM_EOF"},
   fd : Int, name : Names, data : Seq(Nat)]

TypeOK ==
  /\ FileTypeOK
  /\ requests \in Seq(Request)
  /\ reply \in [Shells -> Reply \cup {NoReply}]
  /\ after \in Layouts
  /\ pc \in [Shells -> Codes \cup {"idle"}]
  /\ cmd \in [Shells -> {"dir", "cat"}]
  /\ target \in [Shells -> Names \cup {NULL}]
  /\ shown \in [Shells -> Seq(Nat)]

\* A shell has one request in the mailbox or one answer, or is idle.
OneMessage ==
  /\ \A i \in 1 .. Len(requests) :
       LET m == requests[i] IN
       m.code = pc[m.sender] /\ m.name = target[m.sender] /\ reply[m.sender] = NoReply
  /\ \A i, j \in 1 .. Len(requests) :
       requests[i].sender = requests[j].sender => i = j
  /\ \A c \in Shells : pc[c] = "idle" => reply[c] = NoReply

Owned(c) == {fd \in FD : owner[fd] = c}

\* An offset that reading n can reach.
Inside(n, k) ==
  /\ n \in DOMAIN Files => k <= Files[n]
  /\ n \in DOMAIN Dirs =>
       \A j \in 1 .. k : j \in DOMAIN Entries(n) /\ Entries(n)[j] # "end"

\* s is what n shows up to position k.
UpTo(s, n, k) == InOrder(s) /\ Range(s) = {x \in Content(n) : x <= k}

\* Shell c, that has shown s, reads its target through fd, or has no
\* descriptor at all.
Reads(c, fd, s) ==
  \/ Owned(c) = {} /\ s = <<>>
  \/ /\ fd \in FD /\ Owned(c) = {fd}
     /\ item[fd] = target[c]
     /\ Inside(target[c], offset[fd])
     /\ UpTo(s, target[c], offset[fd])

\* It has shown everything or nothing, and holds at most fd.
HasRead(c, fd) ==
  /\ Owned(c) \subseteq {fd}
  /\ InOrder(shown[c]) /\ Range(shown[c]) \in {{}, Content(target[c])}

\* What is so while the request m waits.
Asked(m) ==
  LET c == m.sender IN
  /\ m.code \in {"CHK_OBJ", "OPEN_OBJ"} => Owned(c) = {} /\ shown[c] = <<>>
  /\ m.code \in {"OPEN_OBJ", "READ_OBJ"} => target[c] \in Objects
  /\ m.code = "READ_OBJ" => Reads(c, m.fd, shown[c])
  /\ m.code = "CLOSE_OBJ" => HasRead(c, m.fd)

\* And when c has been answered r.
Answered(c, r) ==
  /\ pc[c] \in {"CHK_OBJ", "CLOSE_OBJ"} => Owned(c) = {}
  /\ pc[c] \in {"CHK_OBJ", "OPEN_OBJ"} => shown[c] = <<>>
  /\ pc[c] = "CHK_OBJ" /\ r.code = "GOOD" => target[c] \in Objects
  /\ pc[c] \in {"OPEN_OBJ", "READ_OBJ"} => target[c] \in Objects
  /\ pc[c] = "OPEN_OBJ" => Reads(c, r.fd, <<>>)
  /\ pc[c] = "READ_OBJ" /\ r.code = "GOOD" => Reads(c, r.fd, shown[c] \o r.data)
  /\ pc[c] = "READ_OBJ" /\ r.code # "GOOD" => HasRead(c, r.fd)

IInv ==
  /\ TypeOK
  /\ OneMessage
  /\ \A i \in 1 .. Len(requests) : Asked(requests[i])
  /\ \A c \in Shells : reply[c] # NoReply => Answered(c, reply[c])
  /\ NoDescriptorLeft
  /\ ShowsTheObject
----------------------------------------------------------------------------
LEMMA MinFacts ==
  ASSUME NEW S \in SUBSET Nat, S # {}
  PROVE  Min(S) \in S /\ \A y \in S : Min(S) <= y
<1> DEFINE R == {ss \in Nat \X Nat : ss[1] < ss[2]}
<1>1. IsWellFoundedOn(R, Nat)
  BY NatLessThanWellFounded DEF OpToRel
<1> HIDE DEF R
<1>2. S \subseteq Nat
  OBVIOUS
<1>3. \E x \in S : \A y \in S : ~ (<<y, x>> \in R)
  BY <1>1, <1>2, WFMin, ZenonT(30)
<1>4. PICK x \in S : \A y \in S : ~ (<<y, x>> \in R)
  BY <1>3
<1>5. \A y \in S : x <= y
  <2> SUFFICES ASSUME NEW y \in S PROVE x <= y
    OBVIOUS
  <2>1. <<y, x>> \notin R
    BY <1>4
  <2>2. x \in Nat /\ y \in Nat /\ ~ (y < x)
    BY <1>2, <2>1 DEF R
  <2> QED
    BY <2>2
<1> QED
  BY <1>5 DEF Min

LEMMA HeadFacts ==
  ASSUME NEW S, NEW s \in Seq(S), s # <<>>
  PROVE  /\ Len(s) \in Nat \ {0}
         /\ Head(s) = s[1] /\ Head(s) \in S
         /\ Tail(s) \in Seq(S) /\ Len(Tail(s)) = Len(s) - 1
         /\ \A i \in 1 .. Len(s) - 1 : Tail(s)[i] = s[i+1]
BY EmptySeq, HeadTailProperties

LEMMA EmptyShown == InOrder(<<>>) /\ Range(<<>>) = {}
<1>1. DOMAIN <<>> = {}
  OBVIOUS
<1> QED
  BY <1>1 DEF InOrder, Range

LEMMA EntriesFacts ==
  ASSUME TypeOK, NEW n \in DOMAIN Dirs
  PROVE  /\ Entries(n) \in Seq(Entry)
         /\ DOMAIN Entries(n) = 1 .. Len(Entries(n)) /\ Len(Entries(n)) \in Nat
         /\ \E i \in DOMAIN Entries(n) : Entries(n)[i] = "end"
<1>1. Dirs[n] \in Seq(Entry) /\ after \in Seq(Entry)
  BY DirectoryAssumption DEF TypeOK
<1>2. CASE \E i \in DOMAIN Dirs[n] : Dirs[n][i] = "end"
  <2>1. Entries(n) = Dirs[n]
    BY <1>2 DEF Entries
  <2> QED
    BY <1>1, <1>2, <2>1, LenProperties
<1>3. CASE ~ \E i \in DOMAIN Dirs[n] : Dirs[n][i] = "end"
  <2>1. Entries(n) = Dirs[n] \o after
    BY <1>3 DEF Entries
  <2>2. PICK i \in DOMAIN after : after[i] = "end"
    BY DirectoryAssumption DEF TypeOK
  <2> DEFINE a == Len(Dirs[n])  b == Len(after)
  <2>3. /\ a \in Nat /\ b \in Nat /\ i \in 1 .. b
        /\ DOMAIN Dirs[n] = 1 .. a
    BY <1>1, <2>2, LenProperties
  <2>4. /\ Entries(n) \in Seq(Entry) /\ Len(Entries(n)) = a + b
        /\ \A j \in 1 .. a + b : Entries(n)[j] = IF j <= a THEN Dirs[n][j] ELSE after[j - a]
    BY <1>1, <2>1, ConcatProperties
  <2> HIDE DEF a, b
  <2>5. a + i \in 1 .. a + b /\ ~ (a + i <= a) /\ (a + i) - a = i
    BY <2>3
  <2>6. Entries(n)[a + i] = "end"
    BY <2>2, <2>4, <2>5
  <2>7. DOMAIN Entries(n) = 1 .. Len(Entries(n)) /\ Len(Entries(n)) \in Nat
    BY <2>4, LenProperties
  <2> QED
    BY <2>4, <2>5, <2>6, <2>7
<1> QED
  BY <1>2, <1>3

LEMMA ContentType ==
  ASSUME TypeOK
  PROVE  \A n : Content(n) \subseteq Nat \ {0}
<1> SUFFICES ASSUME NEW n PROVE Content(n) \subseteq Nat \ {0}
  OBVIOUS
<1>1. CASE n \in DOMAIN Files
  BY <1>1, FileAssumption DEF Content
<1>2. CASE n \notin DOMAIN Files /\ n \in DOMAIN Dirs
  <2>1. DOMAIN Entries(n) \subseteq Nat \ {0}
    BY <1>2, EntriesFacts
  <2> QED
    BY <1>2, <2>1 DEF Content
<1>3. CASE n \notin DOMAIN Files /\ n \notin DOMAIN Dirs
  BY <1>3 DEF Content
<1> QED
  BY <1>1, <1>2, <1>3

\* What is shown after more of the same object was read.
LEMMA ShowOn ==
  ASSUME NEW s \in Seq(Nat), NEW t \in Seq(Nat), InOrder(s), InOrder(t),
         \A x \in Range(s), y \in Range(t) : x < y
  PROVE  /\ s \o t \in Seq(Nat) /\ InOrder(s \o t)
         /\ Range(s \o t) = Range(s) \cup Range(t)
<1> DEFINE a == Len(s)  b == Len(t)  u == s \o t
<1>1. /\ a \in Nat /\ b \in Nat /\ DOMAIN s = 1 .. a /\ DOMAIN t = 1 .. b
      /\ u \in Seq(Nat) /\ DOMAIN u = 1 .. a + b
      /\ \A i \in 1 .. a + b : u[i] = IF i <= a THEN s[i] ELSE t[i - a]
  BY LenProperties, ConcatProperties
<1>2. /\ \A i \in 1 .. a : s[i] \in Nat /\ s[i] \in Range(s)
      /\ \A i \in 1 .. b : t[i] \in Nat /\ t[i] \in Range(t)
  <2>1. /\ \A i \in 1 .. a : s[i] \in Nat
        /\ \A i \in 1 .. b : t[i] \in Nat
    BY LenProperties
  <2>2. /\ \A i \in 1 .. a : s[i] \in Range(s)
        /\ \A i \in 1 .. b : t[i] \in Range(t)
    BY <1>1, Zenon DEF Range
  <2> QED
    BY <2>1, <2>2
<1> HIDE DEF a, b, u
<1>3. ASSUME NEW i \in 1 .. a + b
      PROVE  \/ i \in 1 .. a /\ i <= a /\ u[i] = s[i]
             \/ i - a \in 1 .. b /\ ~ (i <= a) /\ u[i] = t[i - a]
  BY <1>1
<1>4. InOrder(u)
  <2> SUFFICES ASSUME NEW i \in 1 .. a + b, NEW j \in 1 .. a + b, i < j PROVE u[i] < u[j]
    BY <1>1 DEF InOrder
  <2>1. CASE i <= a /\ j <= a
    BY <1>1, <1>3, <2>1 DEF InOrder
  <2>2. CASE i <= a /\ ~ (j <= a)
    <3>1. i \in 1 .. a /\ u[i] = s[i] /\ j - a \in 1 .. b /\ u[j] = t[j - a]
      BY <1>3, <2>2
    <3> QED
      BY <1>2, <3>1
  <2>3. CASE ~ (i <= a)
    <3>1. ~ (j <= a) /\ i - a < j - a
      BY <1>1, <2>3
    <3>2. /\ i - a \in 1 .. b /\ u[i] = t[i - a]
          /\ j - a \in 1 .. b /\ u[j] = t[j - a]
      BY <1>3, <2>3, <3>1
    <3> QED
      BY <1>1, <3>1, <3>2 DEF InOrder
  <2> QED
    BY <2>1, <2>2, <2>3
<1>5. Range(u) = Range(s) \cup Range(t)
  <2>1. ASSUME NEW x \in Range(u) PROVE x \in Range(s) \cup Range(t)
    <3>1. PICK i \in 1 .. a + b : x = u[i]
      BY <1>1 DEF Range
    <3> QED
      BY <1>2, <1>3, <3>1
  <2>2. ASSUME NEW x \in Range(s) PROVE x \in Range(u)
    <3>1. PICK i \in 1 .. a : x = s[i]
      BY <1>1 DEF Range
    <3>2. i \in 1 .. a + b /\ u[i] = s[i]
      BY <1>1, <3>1
    <3> QED
      BY <1>1, <3>1, <3>2 DEF Range
  <2>3. ASSUME NEW x \in Range(t) PROVE x \in Range(u)
    <3>1. PICK i \in 1 .. b : x = t[i]
      BY <1>1 DEF Range
    <3>2. a + i \in 1 .. a + b /\ ~ (a + i <= a) /\ (a + i) - a = i
      BY <1>1, <3>1
    <3>3. u[a + i] = t[i]
      BY <1>1, <3>2
    <3> QED
      BY <1>1, <3>1, <3>2, <3>3 DEF Range
  <2> QED
    BY <2>1, <2>2, <2>3
<1> QED
  BY <1>1, <1>4, <1>5 DEF u

\* What ShowsTheObject says of a shell that has shown s of the object n.
Shows(s, n) ==
  /\ InOrder(s)
  /\ Range(s) \subseteq Content(n)
  /\ \A x \in Content(n), y \in Range(s) : x < y => x \in Range(s)

LEMMA ReadsShows ==
  ASSUME TypeOK, NEW c \in Shells, NEW fd, NEW s, Reads(c, fd, s)
  PROVE  Shows(s, target[c])
<1>1. CASE s = <<>>
  BY <1>1, EmptyShown DEF Shows
<1>2. CASE fd \in FD /\ UpTo(s, target[c], offset[fd])
  <2>1. offset[fd] \in Nat /\ Content(target[c]) \subseteq Nat
    BY <1>2, ContentType DEF TypeOK, FileTypeOK
  <2>2. Range(s) = {x \in Content(target[c]) : x <= offset[fd]} /\ InOrder(s)
    BY <1>2 DEF UpTo
  <2>3. ASSUME NEW x \in Content(target[c]), NEW y \in Range(s), x < y
        PROVE  x \in Range(s)
    <3>1. x \in Nat /\ y \in Nat /\ y <= offset[fd]
      BY <2>1, <2>2
    <3>2. x <= offset[fd]
      BY <2>1, <2>3, <3>1
    <3> QED
      BY <2>2, <3>2
  <2> QED
    BY <2>2, <2>3 DEF Shows
<1> QED
  BY <1>1, <1>2 DEF Reads

\* A shell's own descriptors, and what there is to show, do not change with
\* the descriptors of others.
LEMMA ShellFrame ==
  ASSUME NEW d, target'[d] = target[d], shown'[d] = shown[d], after' = after,
         Owned(d)' = Owned(d),
         \A f \in Owned(d) : item'[f] = item[f] /\ offset'[f] = offset[f]
  PROVE  /\ \A n : Content(n)' = Content(n)
         /\ \A fd, s : Reads(d, fd, s) => Reads(d, fd, s)'
         /\ \A fd : HasRead(d, fd) => HasRead(d, fd)'
<1>1. \A n : Entries(n)' = Entries(n)
  BY DEF Entries
<1>2. \A n : Content(n)' = Content(n)
  BY <1>1 DEF Content
<1>3. ASSUME NEW fd, NEW s, Reads(d, fd, s) PROVE Reads(d, fd, s)'
  <2>1. CASE Owned(d) = {} /\ s = <<>>
    BY <2>1 DEF Reads
  <2>2. CASE /\ fd \in FD /\ Owned(d) = {fd}
             /\ item[fd] = target[d]
             /\ Inside(target[d], offset[fd])
             /\ UpTo(s, target[d], offset[fd])
    <3>1. item'[fd] = item[fd] /\ offset'[fd] = offset[fd] /\ Owned(d)' = {fd}
      BY <2>2
    <3>2. Inside(target[d], offset[fd])' /\ UpTo(s, target[d], offset[fd])'
      BY <1>1, <1>2, <2>2, <3>1 DEF Inside, UpTo
    <3> QED
      BY <2>2, <3>1, <3>2 DEF Reads
  <2> QED
    BY <1>3, <2>1, <2>2 DEF Reads
<1>4. ASSUME NEW fd, HasRead(d, fd) PROVE HasRead(d, fd)'
  BY <1>2, <1>4 DEF HasRead
<1> QED
  BY <1>2, <1>3, <1>4
LEMMA MessagesKeep ==
  ASSUME NEW d, target'[d] = target[d], shown'[d] = shown[d], after' = after,
         Owned(d)' = Owned(d),
         \A f \in Owned(d) : item'[f] = item[f] /\ offset'[f] = offset[f]
  PROVE  /\ \A m : m.sender = d /\ Asked(m) => Asked(m)'
         /\ \A r : pc'[d] = pc[d] /\ Answered(d, r) => Answered(d, r)'
<1>1. /\ \A fd, s : Reads(d, fd, s) => Reads(d, fd, s)'
      /\ \A fd : HasRead(d, fd) => HasRead(d, fd)'
  BY ShellFrame
<1>2. ASSUME NEW m, m.sender = d, Asked(m) PROVE Asked(m)'
  BY <1>1, <1>2 DEF Asked
<1>3. ASSUME NEW r, pc'[d] = pc[d], Answered(d, r) PROVE Answered(d, r)'
  BY <1>1, <1>3 DEF Answered
<1> QED
  BY <1>2, <1>3

\* The safety of a command in progress, in terms of Shows.
LEMMA ShowsIsSafety ==
  ShowsTheObject <=>
    \A c \in Shells :
      /\ Shows(shown[c], target[c])
      /\ pc[c] = "CLOSE_OBJ" => Range(shown[c]) \in {{}, Content(target[c])}
BY DEF ShowsTheObject, Shows

\* The step leaves alone the descriptors of everybody but c.
OthersKeep(c) ==
  \A f \in FD :
    IF owner[f] \in {UNUSED, c} THEN owner'[f] \in {UNUSED, c}
    ELSE owner'[f] = owner[f] /\ item'[f] = item[f] /\ offset'[f] = offset[f]

\* FileSystem answers the request at the head of its mailbox.
LEMMA AnswerInv ==
  ASSUME IInv, requests # <<>>, UNCHANGED shellVars, FileTypeOK',
         NEW code \in {"GOOD", "UNFOUND", "NO_FD", "ILL_PARAM", "FM_EOF"},
         NEW fd \in Int, NEW data \in Seq(Nat), NEW m, m = Head(requests),
         Answer(m, code, fd, data), OthersKeep(m.sender),
         Answered(m.sender, [code |-> code, fd |-> fd, name |-> m.name, data |-> data])'
  PROVE  IInv'
<1> DEFINE c == m.sender
           r == [code |-> code, fd |-> fd, name |-> m.name, data |-> data]
<1>1. /\ TypeOK /\ requests \in Seq(Request)
      /\ Len(requests) \in Nat \ {0} /\ m = requests[1] /\ m \in Request
      /\ Tail(requests) \in Seq(Request) /\ Len(Tail(requests)) = Len(requests) - 1
      /\ \A i \in 1 .. Len(requests) - 1 : Tail(requests)[i] = requests[i+1]
  BY HeadFacts DEF IInv, TypeOK
<1>2. c \in Shells /\ m.name \in Names /\ r \in Reply /\ r # NoReply
  BY <1>1 DEF Request, Reply, NoReply
<1>3. /\ requests' = Tail(requests) /\ reply' = [reply EXCEPT ![c] = r] /\ after' = after
      /\ pc' = pc /\ cmd' = cmd /\ target' = target /\ shown' = shown
  BY DEF Answer, shellVars
<1>4. /\ \A f \in FD :
           IF owner[f] \in {UNUSED, c} THEN owner'[f] \in {UNUSED, c}
           ELSE owner'[f] = owner[f] /\ item'[f] = item[f] /\ offset'[f] = offset[f]
      /\ Answered(c, r)'
  BY DEF OthersKeep
<1> HIDE DEF c, r
<1>5. TypeOK'
  BY <1>1, <1>2, <1>3 DEF TypeOK
<1>6. \A i \in 1 .. Len(requests') : requests'[i] = requests[i+1] /\ i+1 \in 1 .. Len(requests)
  BY <1>1, <1>3
<1>7. \A i \in 1 .. Len(requests') : requests'[i].sender # c /\ requests'[i].sender \in Shells
  <2> SUFFICES ASSUME NEW i \in 1 .. Len(requests')
               PROVE  requests'[i].sender # c /\ requests'[i].sender \in Shells
    OBVIOUS
  <2>1. requests'[i] = requests[i+1] /\ i+1 \in 1 .. Len(requests) /\ i+1 # 1
        /\ 1 \in 1 .. Len(requests)
    BY <1>1, <1>6
  <2>2. requests[i+1].sender # requests[1].sender
    BY <2>1 DEF IInv, OneMessage
  <2>3. requests[i+1] \in Request
    BY <1>1, <2>1
  <2> QED
    BY <1>1, <2>1, <2>2, <2>3 DEF c, Request
<1>8. pc[c] \in Codes /\ pc[c] # "idle"
  <2>1. 1 \in 1 .. Len(requests) /\ m.code \in Codes
    BY <1>1 DEF Request
  <2>2. pc[c] = m.code
    BY <1>1, <2>1 DEF IInv, OneMessage, c
  <2> QED
    BY <2>1, <2>2 DEF Codes
<1>9. OneMessage'
  BY <1>1, <1>2, <1>3, <1>6, <1>7, <1>8 DEF IInv, OneMessage, TypeOK
<1>10. ASSUME NEW d \in Shells, d # c
       PROVE  /\ Owned(d)' = Owned(d)
              /\ \A f \in Owned(d) : item'[f] = item[f] /\ offset'[f] = offset[f]
  <2>1. d # UNUSED
    BY ShellAssumption
  <2> QED
    BY <1>4, <1>10, <2>1 DEF Owned
<1>11. ASSUME NEW i \in 1 .. Len(requests') PROVE Asked(requests[i])'
  <2>1. PICK q : q = requests[i+1]
    OBVIOUS
  <2>2. requests'[i] = q /\ Asked(q) /\ q.sender # c /\ q.sender \in Shells
    BY <1>6, <1>7, <2>1 DEF IInv
  <2>3. PICK d \in Shells : d = q.sender
    BY <2>2
  <2>4. Asked(q) => Asked(q)'
    BY <1>3, <1>10, <2>2, <2>3, MessagesKeep
  <2> QED
    BY <2>2, <2>4
<1>12. ASSUME NEW d \in Shells, reply'[d] # NoReply PROVE Answered(d, reply[d])'
  <2>1. CASE d = c
    <3>1. reply'[d] = r
      BY <1>1, <1>2, <1>3, <2>1 DEF TypeOK
    <3> QED
      BY <1>4, <2>1, <3>1
  <2>2. CASE d # c
    <3>1. PICK a : a = reply[d]
      OBVIOUS
    <3>2. reply'[d] = a /\ Answered(d, a)
      BY <1>1, <1>2, <1>3, <1>12, <2>2, <3>1 DEF IInv, TypeOK
    <3>3. Answered(d, a)'
      BY <1>3, <1>10, <2>2, <3>2, MessagesKeep
    <3> QED
      BY <3>2, <3>3
  <2> QED
    BY <2>1, <2>2
<1>13. NoDescriptorLeft'
  <2> SUFFICES ASSUME NEW d \in Shells, pc'[d] = "idle" PROVE \A f \in FD : owner'[f] # d
    BY DEF NoDescriptorLeft
  <2>1. d # c
    BY <1>3, <1>8
  <2>2. Owned(d) = {}
    BY <1>3 DEF IInv, NoDescriptorLeft, Owned
  <2> QED
    BY <1>10, <2>1, <2>2 DEF Owned
<1>14. ShowsTheObject'
  <2>1. \A n : Content(n)' = Content(n)
    BY <1>3 DEF Content, Entries
  <2> QED
    BY <1>3, <2>1 DEF IInv, ShowsTheObject
<1> QED
  <2>1. NoReply' = NoReply
    BY DEF NoReply
  <2> QED
    BY <1>5, <1>9, <1>11, <1>12, <1>13, <1>14, <2>1 DEF IInv
----------------------------------------------------------------------------
LEMMA HeadAsked ==
  ASSUME IInv, requests # <<>>, NEW m, m = Head(requests)
  PROVE  /\ m.sender \in Shells /\ m.code \in Codes /\ m.name \in Names /\ m.fd \in Int
         /\ Asked(m) /\ pc[m.sender] = m.code /\ target[m.sender] = m.name
<1>1. m \in Request /\ m = requests[1] /\ 1 \in 1 .. Len(requests)
  BY HeadFacts DEF IInv, TypeOK
<1> QED
  BY <1>1 DEF IInv, OneMessage, Request

LEMMA ChkObjInv ==
  ASSUME IInv, requests # <<>>, NEW m, m = Head(requests), m.code = "CHK_OBJ",
         ChkObj(m), UNCHANGED shellVars
  PROVE  IInv'
<1> DEFINE code == IF m.name \in Objects THEN "GOOD" ELSE "UNFOUND"
<1>1. /\ Answer(m, code, m.fd, <<>>)
      /\ owner' = owner /\ offset' = offset /\ item' = item
      /\ pc' = pc /\ target' = target /\ shown' = shown
  BY DEF ChkObj, fdVars, shellVars
<1>2. /\ m.sender \in Shells /\ m.fd \in Int /\ pc[m.sender] = "CHK_OBJ"
      /\ target[m.sender] = m.name /\ Asked(m)
  BY HeadAsked
<1>3. OthersKeep(m.sender)
  BY <1>1 DEF OthersKeep
<1>4. FileTypeOK'
  BY <1>1 DEF IInv, TypeOK, FileTypeOK
<1>5. Answered(m.sender, [code |-> code, fd |-> m.fd, name |-> m.name, data |-> <<>>])'
  BY <1>1, <1>2 DEF Answered, Asked, Owned
<1>6. <<>> \in Seq(Nat) /\ code \in {"GOOD", "UNFOUND"}
  OBVIOUS
<1> HIDE DEF code
<1> QED
  BY <1>1, <1>2, <1>3, <1>4, <1>5, <1>6, AnswerInv

LEMMA FreeFDFacts == FreeFDs # {} => Min(FreeFDs) \in FreeFDs /\ FreeFDs \subseteq FD
<1>1. FreeFDs \subseteq FD /\ FD \subseteq Nat
  BY FileAssumption DEF FreeFDs, FD
<1> QED
  BY <1>1, MinFacts

LEMMA OpenObjInv ==
  ASSUME IInv, requests # <<>>, NEW m, m = Head(requests), m.code = "OPEN_OBJ",
         OpenObj(m), UNCHANGED shellVars
  PROVE  IInv'
<1>1. pc' = pc /\ target' = target /\ shown' = shown
  BY DEF shellVars
<1>2. /\ m.sender \in Shells /\ m.fd \in Int /\ pc[m.sender] = "OPEN_OBJ"
      /\ target[m.sender] = m.name /\ m.name \in Objects
      /\ Owned(m.sender) = {} /\ shown[m.sender] = <<>>
  BY HeadAsked DEF Asked
<1>3. FileTypeOK /\ TypeOK /\ <<>> \in Seq(Nat)
  BY DEF IInv, TypeOK
<1>4. CASE FreeFDs = {}
  <2>1. /\ Answer(m, "NO_FD", m.fd, <<>>)
        /\ owner' = owner /\ offset' = offset /\ item' = item
    BY <1>4 DEF OpenObj, fdVars
  <2>2. FileTypeOK' /\ OthersKeep(m.sender)
    BY <1>3, <2>1 DEF FileTypeOK, OthersKeep
  <2>3. Answered(m.sender, [code |-> "NO_FD", fd |-> m.fd, name |-> m.name, data |-> <<>>])'
    BY <1>1, <1>2, <2>1 DEF Answered, Owned, Reads
  <2> QED
    BY <1>2, <1>3, <2>1, <2>2, <2>3, AnswerInv
<1>5. CASE FreeFDs # {}
  <2>1. PICK fd \in FD : fd = Min(FreeFDs) /\ owner[fd] = UNUSED
    BY <1>5, FreeFDFacts DEF FreeFDs
  <2>2. /\ Answer(m, "GOOD", fd, <<>>)
        /\ owner' = [owner EXCEPT ![fd] = m.sender]
        /\ offset' = [offset EXCEPT ![fd] = 0]
        /\ item' = [item EXCEPT ![fd] = m.name]
    BY <1>2, <1>5, <2>1 DEF OpenObj, AllocFD
  <2>3. FileTypeOK' /\ OthersKeep(m.sender)
    BY <1>2, <1>3, <2>1, <2>2 DEF FileTypeOK, OthersKeep
  <2>4. /\ Owned(m.sender)' = {fd} /\ item'[fd] = target'[m.sender] /\ offset'[fd] = 0
        /\ after' = after
    BY <1>1, <1>2, <1>3, <2>1, <2>2 DEF Owned, FileTypeOK, Answer
  <2>5. Inside(m.name, 0)'
    BY FileAssumption DEF Inside
  <2>6. UpTo(<<>>, m.name, 0)'
    <3>1. Content(m.name)' = Content(m.name)
      BY <2>4 DEF Content, Entries
    <3>2. {x \in Content(m.name) : x <= 0} = {}
      BY <1>3, ContentType
    <3> QED
      BY <3>1, <3>2, EmptyShown DEF UpTo
  <2>7. Reads(m.sender, fd, <<>>)'
    BY <1>1, <1>2, <2>1, <2>4, <2>5, <2>6 DEF Reads
  <2>8. Answered(m.sender, [code |-> "GOOD", fd |-> fd, name |-> m.name, data |-> <<>>])'
    BY <1>1, <1>2, <2>7 DEF Answered
  <2>9. fd \in Int
    BY <2>1 DEF FD
  <2> QED
    BY <1>2, <1>3, <2>2, <2>3, <2>8, <2>9, AnswerInv
<1> QED
  BY <1>4, <1>5

LEMMA CloseObjInv ==
  ASSUME IInv, requests # <<>>, NEW m, m = Head(requests), m.code = "CLOSE_OBJ",
         CloseObj(m), UNCHANGED shellVars
  PROVE  IInv'
<1>1. pc' = pc /\ target' = target /\ shown' = shown
  BY DEF shellVars
<1>2. /\ m.sender \in Shells /\ m.fd \in Int /\ pc[m.sender] = "CLOSE_OBJ"
      /\ Owned(m.sender) \subseteq {m.fd}
  BY HeadAsked DEF Asked, HasRead
<1>3. FileTypeOK /\ <<>> \in Seq(Nat) /\ UNUSED # m.sender
  BY <1>2, ShellAssumption DEF IInv, TypeOK
<1>4. CASE CanAccessFD(m.fd, m.sender)
  <2>1. /\ Answer(m, "GOOD", m.fd, <<>>) /\ m.fd \in FD
        /\ owner[m.fd] = m.sender /\ owner' = [owner EXCEPT ![m.fd] = UNUSED]
        /\ offset' = offset /\ item' = item
    BY <1>4 DEF CloseObj, FreeFD, CanAccessFD
  <2>2. FileTypeOK' /\ OthersKeep(m.sender)
    BY <1>2, <1>3, <2>1 DEF FileTypeOK, OthersKeep
  <2>3. Owned(m.sender)' = {}
    BY <1>2, <1>3, <2>1 DEF Owned, FileTypeOK
  <2>4. Answered(m.sender, [code |-> "GOOD", fd |-> m.fd, name |-> m.name, data |-> <<>>])'
    BY <1>1, <1>2, <2>3 DEF Answered
  <2> QED
    BY <1>2, <1>3, <2>1, <2>2, <2>4, AnswerInv
<1>5. CASE ~ CanAccessFD(m.fd, m.sender)
  <2>1. /\ Answer(m, "ILL_PARAM", m.fd, <<>>)
        /\ owner' = owner /\ offset' = offset /\ item' = item
    BY <1>5 DEF CloseObj, fdVars
  <2>2. FileTypeOK' /\ OthersKeep(m.sender)
    BY <1>3, <2>1 DEF FileTypeOK, OthersKeep
  <2>3. Owned(m.sender)' = {}
    BY <1>2, <1>5, <2>1 DEF Owned, CanAccessFD
  <2>4. Answered(m.sender, [code |-> "ILL_PARAM", fd |-> m.fd, name |-> m.name, data |-> <<>>])'
    BY <1>1, <1>2, <2>3 DEF Answered
  <2> QED
    BY <1>2, <1>3, <2>1, <2>2, <2>4, AnswerInv
<1> QED
  BY <1>4, <1>5

\* READ_OBJ of one's own descriptor finds data, the descriptor moves to k.
LEMMA ReadMoves ==
  ASSUME IInv, requests # <<>>, NEW m, m = Head(requests), m.code = "READ_OBJ",
         UNCHANGED shellVars, CanAccessFD(m.fd, m.sender),
         Owned(m.sender) = {m.fd}, item[m.fd] = target[m.sender],
         NEW k \in Nat, Inside(target[m.sender], k),
         NEW data \in Seq(Nat), UpTo(shown[m.sender] \o data, target[m.sender], k),
         Answer(m, "GOOD", m.fd, data),
         owner' = owner, item' = item, offset' = [offset EXCEPT ![m.fd] = k]
  PROVE  IInv'
<1>1. pc' = pc /\ target' = target /\ shown' = shown /\ after' = after
  BY DEF shellVars, Answer
<1>2. /\ m.sender \in Shells /\ m.fd \in Int /\ pc[m.sender] = "READ_OBJ"
      /\ target[m.sender] \in Objects
  BY HeadAsked DEF Asked
<1>3. FileTypeOK /\ m.fd \in FD /\ owner[m.fd] = m.sender
  BY DEF IInv, TypeOK, CanAccessFD
<1>4. FileTypeOK' /\ OthersKeep(m.sender)
  BY <1>3 DEF FileTypeOK, OthersKeep
<1>5. Owned(m.sender)' = {m.fd} /\ offset'[m.fd] = k
  BY <1>3 DEF Owned, FileTypeOK
<1>6. PICK n : n = target[m.sender]
  OBVIOUS
<1>7. PICK s : s = shown[m.sender] \o data
  OBVIOUS
<1>8. \A x : Entries(x)' = Entries(x)
  BY <1>1 DEF Entries
<1>9. \A x : Content(x)' = Content(x)
  BY <1>8 DEF Content
<1>10. Inside(n, k)' /\ UpTo(s, n, k)'
  BY <1>6, <1>7, <1>8, <1>9 DEF Inside, UpTo
<1>11. Reads(m.sender, m.fd, s)'
  BY <1>1, <1>3, <1>5, <1>6, <1>10 DEF Reads
<1>12. Answered(m.sender, [code |-> "GOOD", fd |-> m.fd, name |-> m.name, data |-> data])'
  BY <1>1, <1>2, <1>7, <1>11 DEF Answered
<1> QED
  BY <1>2, <1>4, <1>12, AnswerInv

\* READ_OBJ finds no more, or is refused.
LEMMA ReadStops ==
  ASSUME IInv, requests # <<>>, NEW m, m = Head(requests), m.code = "READ_OBJ",
         UNCHANGED shellVars, Owned(m.sender) \subseteq {m.fd},
         Range(shown[m.sender]) \in {{}, Content(target[m.sender])},
         NEW code \in {"ILL_PARAM", "FM_EOF"},
         Answer(m, code, m.fd, <<>>),
         owner' = owner, item' = item,
         \/ offset' = offset
         \/ /\ CanAccessFD(m.fd, m.sender)
            /\ \E k \in Nat : offset' = [offset EXCEPT ![m.fd] = k]
  PROVE  IInv'
<1>1. pc' = pc /\ target' = target /\ shown' = shown /\ after' = after
  BY DEF shellVars, Answer
<1>2. /\ m.sender \in Shells /\ m.fd \in Int /\ pc[m.sender] = "READ_OBJ"
      /\ target[m.sender] \in Objects
  BY HeadAsked DEF Asked
<1>3. FileTypeOK /\ <<>> \in Seq(Nat)
  BY DEF IInv, TypeOK
<1>4. FileTypeOK' /\ OthersKeep(m.sender)
  BY <1>3 DEF FileTypeOK, OthersKeep, CanAccessFD
<1>5. Owned(m.sender)' = Owned(m.sender)
  BY DEF Owned
<1>6. \A x : Content(x)' = Content(x)
  BY <1>1 DEF Content, Entries
<1>7. InOrder(shown[m.sender])
  BY <1>2 DEF IInv, ShowsTheObject
<1>8. HasRead(m.sender, m.fd)'
  BY <1>1, <1>5, <1>6, <1>7 DEF HasRead
<1>9. Answered(m.sender, [code |-> code, fd |-> m.fd, name |-> m.name, data |-> <<>>])'
  BY <1>1, <1>2, <1>8 DEF Answered
<1>10. code \in {"GOOD", "UNFOUND", "NO_FD", "ILL_PARAM", "FM_EOF"}
  OBVIOUS
<1> QED
  BY <1>2, <1>3, <1>4, <1>9, <1>10, AnswerInv

LEMMA ReadFileInv ==
  ASSUME IInv, requests # <<>>, NEW m, m = Head(requests), m.code = "READ_OBJ",
         CanAccessFD(m.fd, m.sender), ReadFile(m), UNCHANGED shellVars
  PROVE  IInv'
<1> DEFINE n == target[m.sender]
           at == offset[m.fd]
           rest == Files[n] - at
           result == Min({rest, CHUNK})
           s == shown[m.sender]
           data == [i \in 1 .. result |-> at + i]
<1>1. /\ m.sender \in Shells /\ TypeOK /\ m.fd \in FD /\ owner[m.fd] = m.sender
      /\ at \in Nat /\ s \in Seq(Nat)
  BY HeadAsked DEF IInv, TypeOK, FileTypeOK, CanAccessFD
<1>2. Reads(m.sender, m.fd, s)
  BY HeadAsked DEF Asked
<1>3. m.fd \in Owned(m.sender)
  BY <1>1 DEF Owned
<1>4. /\ Owned(m.sender) = {m.fd} /\ item[m.fd] = n
      /\ Inside(n, at) /\ UpTo(s, n, at)
  BY <1>2, <1>3 DEF Reads
<1>5. /\ n \in DOMAIN Files /\ Content(n) = 1 .. Files[n]
      /\ Files[n] \in Nat /\ at <= Files[n] /\ n \notin DOMAIN Dirs
      /\ CHUNK \in Nat \ {0}
  BY <1>4, FileAssumption DEF ReadFile, Content, Inside
<1>6. /\ \/ /\ rest = 0
            /\ Answer(m, "FM_EOF", m.fd, <<>>)
            /\ offset' = offset
         \/ /\ rest # 0
            /\ Answer(m, "GOOD", m.fd, data)
            /\ offset' = [offset EXCEPT ![m.fd] = at + result]
      /\ owner' = owner /\ item' = item
  BY <1>4 DEF ReadFile
<1>7. CASE rest = 0
  <2>1. at = Files[n]
    BY <1>1, <1>5, <1>7
  <2>2. Range(s) = Content(n)
    BY <1>4, <1>5, <2>1 DEF UpTo
  <2> QED
    BY <1>4, <1>6, <1>7, <2>2, ReadStops
<1>8. CASE rest # 0
  <2>1. rest \in Nat \ {0}
    BY <1>1, <1>5, <1>8
  <2>2. result \in 1 .. rest
    <3> HIDE DEF rest
    <3>1. {rest, CHUNK} \in SUBSET Nat
      BY <1>5, <2>1
    <3>2. result \in {rest, CHUNK} /\ result <= rest
      BY <3>1, MinFacts
    <3> QED
      BY <1>5, <2>1, <3>2
  <2> HIDE DEF result
  <2>3. /\ data \in Seq(Nat) /\ DOMAIN data = 1 .. result
        /\ \A i \in 1 .. result : data[i] = at + i
    BY <1>1, <2>1, <2>2
  <2> HIDE DEF data
  <2>4. InOrder(data)
    BY <1>1, <2>1, <2>2, <2>3 DEF InOrder
  <2>5. Range(data) = at + 1 .. at + result
    <3>1. ASSUME NEW x \in at + 1 .. at + result PROVE x \in Range(data)
      <4>1. x - at \in 1 .. result /\ at + (x - at) = x
        BY <1>1, <2>1, <2>2
      <4> QED
        BY <2>3, <4>1 DEF Range
    <3>2. ASSUME NEW x \in Range(data) PROVE x \in at + 1 .. at + result
      <4>1. PICK i \in 1 .. result : x = at + i
        BY <2>3 DEF Range
      <4> QED
        BY <1>1, <2>1, <2>2, <4>1
    <3> QED
      BY <3>1, <3>2
  <2>6. Range(s) = 1 .. at /\ InOrder(s)
    <3>1. Range(s) = {x \in 1 .. Files[n] : x <= at}
      BY <1>4, <1>5 DEF UpTo
    <3> QED
      BY <1>1, <1>4, <1>5, <3>1 DEF UpTo
  <2>7. \A x \in Range(s), y \in Range(data) : x < y
    BY <1>1, <2>2, <2>5, <2>6
  <2>8. InOrder(s \o data) /\ Range(s \o data) = (1 .. at) \cup (at + 1 .. at + result)
    BY <1>1, <2>3, <2>4, <2>5, <2>6, <2>7, ShowOn
  <2>9. at + result \in Nat /\ at + result <= Files[n]
    BY <1>1, <1>5, <2>1, <2>2
  <2>10. UpTo(s \o data, n, at + result)
    <3>1. (1 .. at) \cup (at + 1 .. at + result) = {x \in 1 .. Files[n] : x <= at + result}
      BY <1>1, <1>5, <2>1, <2>2, <2>9
    <3> QED
      BY <1>5, <2>8, <3>1 DEF UpTo
  <2>11. Inside(n, at + result)
    BY <1>5, <2>9 DEF Inside
  <2> QED
    BY <1>4, <1>6, <1>8, <2>3, <2>9, <2>10, <2>11, ReadMoves
<1> QED
  BY <1>7, <1>8

LEMMA ReadDirInv ==
  ASSUME IInv, requests # <<>>, NEW m, m = Head(requests), m.code = "READ_OBJ",
         CanAccessFD(m.fd, m.sender), ReadDir(m), UNCHANGED shellVars
  PROVE  IInv'
<1> DEFINE n == target[m.sender]
           at == offset[m.fd]
           e == Entries(n)
           ahead == {i \in DOMAIN e : i > at /\ e[i] # "gap"}
           next == Min(ahead)
           s == shown[m.sender]
<1>1. /\ m.sender \in Shells /\ TypeOK /\ m.fd \in FD /\ owner[m.fd] = m.sender
      /\ at \in Nat /\ s \in Seq(Nat)
  BY HeadAsked DEF IInv, TypeOK, FileTypeOK, CanAccessFD
<1>2. Reads(m.sender, m.fd, s)
  BY HeadAsked DEF Asked
<1>3. m.fd \in Owned(m.sender)
  BY <1>1 DEF Owned
<1>4. /\ Owned(m.sender) = {m.fd} /\ item[m.fd] = n
      /\ Inside(n, at) /\ UpTo(s, n, at)
  BY <1>2, <1>3 DEF Reads
<1>5. /\ n \in DOMAIN Dirs /\ n \notin DOMAIN Files
      /\ Content(n) = {i \in DOMAIN e : e[i] = "name" /\ \A j \in 1 .. i : e[j] # "end"}
      /\ \A j \in 1 .. at : j \in DOMAIN e /\ e[j] # "end"
  BY <1>4, FileAssumption DEF ReadDir, Content, Inside
<1>6. /\ \/ /\ e[next] = "end"
            /\ offset' = [offset EXCEPT ![m.fd] = next - 1]
            /\ Answer(m, "FM_EOF", m.fd, <<>>)
         \/ /\ e[next] = "name"
            /\ offset' = [offset EXCEPT ![m.fd] = next]
            /\ Answer(m, "GOOD", m.fd, <<next>>)
      /\ owner' = owner /\ item' = item
  BY <1>4 DEF ReadDir
<1>7. /\ e \in Seq(Entry) /\ DOMAIN e = 1 .. Len(e) /\ Len(e) \in Nat
      /\ \E i \in DOMAIN e : e[i] = "end"
  BY <1>1, <1>5, EntriesFacts
<1> HIDE DEF e
<1>8. ahead \in SUBSET Nat /\ ahead # {}
  <2>1. PICK i \in DOMAIN e : e[i] = "end"
    BY <1>7
  <2>2. ~ (i <= at)
    BY <1>1, <1>5, <1>7, <2>1
  <2> QED
    BY <1>1, <1>7, <2>1, <2>2
<1>9. next \in ahead /\ \A i \in ahead : next <= i
  BY <1>8, MinFacts
<1> HIDE DEF next
<1>10. next \in 1 .. Len(e) /\ next > at /\ next \in Nat \ {0} /\ next - 1 \in Nat
  BY <1>7, <1>9
<1>11. \A j \in 1 .. next : j \in DOMAIN e /\ (j > at /\ j # next => e[j] = "gap")
  <2> SUFFICES ASSUME NEW j \in 1 .. next
               PROVE  j \in DOMAIN e /\ (j > at /\ j # next => e[j] = "gap")
    OBVIOUS
  <2>1. j \in DOMAIN e /\ (j # next => ~ (next <= j))
    BY <1>7, <1>10
  <2> QED
    BY <1>9, <2>1
<1>12. /\ Range(s) = {x \in Content(n) : x <= at} /\ InOrder(s)
  BY <1>4 DEF UpTo
<1>13. CASE e[next] = "end"
  <2>1. ASSUME NEW x \in Content(n) PROVE x <= at
    <3>1. x \in DOMAIN e /\ e[x] = "name" /\ \A j \in 1 .. x : e[j] # "end"
      BY <1>5
    <3>2. ~ (next <= x)
      BY <1>7, <1>10, <1>13, <3>1
    <3>3. x \in 1 .. next /\ x # next
      BY <1>7, <1>10, <3>1, <3>2
    <3>4. ~ (x > at)
      BY <1>11, <3>1, <3>3
    <3> QED
      BY <1>1, <3>3, <3>4
  <2>2. Range(s) = Content(n)
    BY <1>12, <2>1
  <2>3. /\ Answer(m, "FM_EOF", m.fd, <<>>)
        /\ offset' = [offset EXCEPT ![m.fd] = next - 1]
    BY <1>6, <1>13
  <2> QED
    BY <1>4, <1>6, <1>10, <2>2, <2>3, ReadStops
<1>14. CASE e[next] = "name"
  <2> DEFINE data == <<next>>
  <2>1. /\ data \in Seq(Nat) /\ DOMAIN data = {1} /\ data[1] = next
        /\ InOrder(data) /\ Range(data) = {next}
    BY <1>10 DEF InOrder, Range
  <2> HIDE DEF data
  <2>2. \A x \in Range(s), y \in Range(data) : x < y
    <3>1. \A x \in Range(s) : x \in Nat /\ x <= at
      BY <1>1, <1>12, ContentType
    <3> QED
      BY <1>1, <1>10, <2>1, <3>1
  <2>3. InOrder(s \o data) /\ Range(s \o data) = Range(s) \cup {next}
    BY <1>1, <1>12, <2>1, <2>2, ShowOn
  <2>4. \A j \in 1 .. next : j \in DOMAIN e /\ e[j] # "end"
    <3> SUFFICES ASSUME NEW j \in 1 .. next PROVE j \in DOMAIN e /\ e[j] # "end"
      OBVIOUS
    <3>1. j \in 1 .. at \/ j > at
      BY <1>1
    <3> QED
      BY <1>5, <1>11, <1>14, <3>1
  <2>5. UpTo(s \o data, n, next)
    <3>1. next \in Content(n)
      BY <1>5, <1>7, <1>10, <1>14, <2>4
    <3>2. ASSUME NEW x \in Content(n) PROVE x <= next <=> x <= at \/ x = next
      <4>1. x \in Nat \ {0} /\ e[x] = "name"
        BY <1>1, <1>5, ContentType
      <4>2. x > at /\ x <= next => x = next
        BY <1>10, <1>11, <4>1
      <4> QED
        BY <1>1, <1>10, <4>1, <4>2
    <3>3. Range(s) \cup {next} = {x \in Content(n) : x <= next}
      BY <1>10, <1>12, <3>1, <3>2
    <3> QED
      BY <2>3, <3>3 DEF UpTo
  <2>6. Inside(n, next)
    BY <1>5, <2>4 DEF Inside, e
  <2>7. /\ Answer(m, "GOOD", m.fd, data)
        /\ offset' = [offset EXCEPT ![m.fd] = next]
    BY <1>6, <1>14 DEF data
  <2> QED
    BY <1>4, <1>6, <1>10, <2>1, <2>5, <2>6, <2>7, ReadMoves
<1> QED
  BY <1>6, <1>13, <1>14

LEMMA ServeInv == ASSUME IInv, ServeRequest PROVE IInv'
<1>1. requests # <<>> /\ UNCHANGED shellVars
  BY DEF ServeRequest, Serve
<1>2. PICK m : m = Head(requests)
  OBVIOUS
<1>3. \/ m.code = "CHK_OBJ" /\ ChkObj(m)
      \/ m.code = "OPEN_OBJ" /\ OpenObj(m)
      \/ m.code = "READ_OBJ" /\ ReadObj(m)
      \/ m.code = "CLOSE_OBJ" /\ CloseObj(m)
  BY <1>2 DEF ServeRequest, Serve
<1>4. CASE m.code = "READ_OBJ" /\ ReadObj(m)
  <2>1. CASE CanAccessFD(m.fd, m.sender)
    BY <1>1, <1>2, <1>4, <2>1, ReadDirInv, ReadFileInv DEF ReadObj
  <2>2. CASE ~ CanAccessFD(m.fd, m.sender)
    <3>1. /\ Answer(m, "ILL_PARAM", m.fd, <<>>)
          /\ owner' = owner /\ offset' = offset /\ item' = item
      BY <1>4, <2>2 DEF ReadObj, fdVars
    <3>2. Reads(m.sender, m.fd, shown[m.sender])
      BY <1>1, <1>2, <1>4, HeadAsked DEF Asked
    <3>3. Owned(m.sender) = {} /\ shown[m.sender] = <<>>
      BY <2>2, <3>2 DEF Reads, Owned, CanAccessFD
    <3> QED
      BY <1>1, <1>2, <1>4, <3>1, <3>3, EmptyShown, ReadStops
  <2> QED
    BY <2>1, <2>2
<1> QED
  BY <1>1, <1>2, <1>3, <1>4, ChkObjInv, OpenObjInv, CloseObjInv
----------------------------------------------------------------------------
\* The step changes the command of c alone.
OwnCommand(c) ==
  /\ cmd' \in [Shells -> {"dir", "cat"}]
  /\ target' \in [Shells -> Names \cup {NULL}]
  /\ shown' \in [Shells -> Seq(Nat)]
  /\ \A d \in Shells : d # c => target'[d] = target[d] /\ shown'[d] = shown[d]

\* A shell whose last request was answered, or that is idle, sends one.
LEMMA SendInv ==
  ASSUME IInv, UNCHANGED <<fdVars, after>>,
         NEW c \in Shells, NEW code \in Codes, NEW name \in Names, NEW fd \in Int,
         Send(c, code, name, fd),
         \A i \in 1 .. Len(requests) : requests[i].sender # c,
         OwnCommand(c), target'[c] = name,
         Asked([sender |-> c, code |-> code, name |-> name, fd |-> fd])',
         Shows(shown'[c], name),
         code = "CLOSE_OBJ" => Range(shown'[c]) \in {{}, Content(name)}
  PROVE  IInv'
<1> DEFINE m == [sender |-> c, code |-> code, name |-> name, fd |-> fd]
<1>1. m \in Request /\ Asked(m)' /\ m.sender = c /\ m.code = code /\ m.name = name
  BY DEF Request
<1>2. /\ requests' = Append(requests, m)
      /\ reply' = [reply EXCEPT ![c] = NoReply] /\ pc' = [pc EXCEPT ![c] = code]
      /\ owner' = owner /\ offset' = offset /\ item' = item /\ after' = after
  BY DEF Send, fdVars
<1> HIDE DEF m
<1>3. /\ TypeOK /\ requests \in Seq(Request) /\ Len(requests) \in Nat
      /\ pc \in [Shells -> Codes \cup {"idle"}]
      /\ reply \in [Shells -> Reply \cup {NoReply}]
  BY LenProperties DEF IInv, TypeOK
<1>4. /\ requests' \in Seq(Request) /\ Len(requests') = Len(requests) + 1
      /\ \A i \in 1 .. Len(requests) : requests'[i] = requests[i]
      /\ requests'[Len(requests) + 1] = m
  BY <1>1, <1>2, <1>3, AppendProperties
<1>5. \A n : Content(n)' = Content(n)
  BY <1>2 DEF Content, Entries
<1>6. /\ pc'[c] = code /\ reply'[c] = NoReply /\ code # "idle"
      /\ \A d \in Shells : d # c => pc'[d] = pc[d] /\ reply'[d] = reply[d]
  BY <1>2, <1>3 DEF Codes
<1>7. TypeOK'
  <2>1. FileTypeOK'
    BY <1>2, <1>3 DEF TypeOK, FileTypeOK
  <2>2. pc' \in [Shells -> Codes \cup {"idle"}] /\ reply' \in [Shells -> Reply \cup {NoReply}]
    BY <1>2, <1>3
  <2> QED
    BY <1>2, <1>3, <1>4, <2>1, <2>2 DEF TypeOK, OwnCommand, NoReply
<1>8. \A i \in 1 .. Len(requests) :
        requests[i] \in Request /\ requests[i].sender \in Shells /\ requests[i].sender # c
  <2>1. \A i \in 1 .. Len(requests) : requests[i] \in Request
    BY <1>3
  <2> QED
    BY <2>1 DEF Request
<1>9. \A i \in 1 .. Len(requests') :
        \/ i \in 1 .. Len(requests) /\ requests'[i] = requests[i]
        \/ i = Len(requests) + 1 /\ requests'[i] = m
  BY <1>3, <1>4
<1>10. OneMessage'
  <2>1. ASSUME NEW i \in 1 .. Len(requests')
        PROVE  /\ requests'[i].code = pc'[requests'[i].sender]
               /\ requests'[i].name = target'[requests'[i].sender]
               /\ reply'[requests'[i].sender] = NoReply
    <3>1. CASE i \in 1 .. Len(requests) /\ requests'[i] = requests[i]
      <4>1. PICK q : q = requests[i]
        OBVIOUS
      <4>2. /\ q.code = pc[q.sender] /\ q.name = target[q.sender]
            /\ reply[q.sender] = NoReply
        BY <3>1, <4>1 DEF IInv, OneMessage
      <4>3. q.sender \in Shells /\ q.sender # c
        BY <1>8, <3>1, <4>1
      <4>4. /\ q.code = pc'[q.sender] /\ q.name = target'[q.sender]
            /\ reply'[q.sender] = NoReply
        BY <1>6, <4>2, <4>3 DEF OwnCommand
      <4> QED
        BY <3>1, <4>1, <4>4
    <3>2. CASE requests'[i] = m
      BY <1>1, <1>6, <3>2
    <3> QED
      BY <1>9, <3>1, <3>2
  <2>2. ASSUME NEW i \in 1 .. Len(requests'), NEW j \in 1 .. Len(requests'),
               requests'[i].sender = requests'[j].sender
        PROVE  i = j
    <3>1. CASE i \in 1 .. Len(requests) /\ j \in 1 .. Len(requests)
      BY <1>4, <2>2, <3>1 DEF IInv, OneMessage
    <3>2. CASE i = Len(requests) + 1 \/ j = Len(requests) + 1
      BY <1>1, <1>4, <1>8, <1>9, <2>2, <3>2
    <3> QED
      BY <1>9, <3>1, <3>2
  <2>3. \A d \in Shells : pc'[d] = "idle" => reply'[d] = NoReply
    BY <1>6 DEF IInv, OneMessage
  <2>4. NoReply' = NoReply
    BY DEF NoReply
  <2> QED
    BY <2>1, <2>2, <2>3, <2>4 DEF OneMessage
<1>11. ASSUME NEW d \in Shells, d # c
       PROVE  /\ \A q : q.sender = d /\ Asked(q) => Asked(q)'
              /\ \A r : Answered(d, r) => Answered(d, r)'
  <2>1. /\ target'[d] = target[d] /\ shown'[d] = shown[d] /\ Owned(d)' = Owned(d)
        /\ pc'[d] = pc[d]
    BY <1>2, <1>6, <1>11 DEF OwnCommand, Owned
  <2> QED
    BY <1>2, <2>1, MessagesKeep
<1>12. ASSUME NEW i \in 1 .. Len(requests') PROVE Asked(requests[i])'
  <2>1. CASE i \in 1 .. Len(requests) /\ requests'[i] = requests[i]
    <3>1. PICK q : q = requests[i]
      OBVIOUS
    <3>2. Asked(q) /\ q.sender \in Shells /\ q.sender # c
      BY <1>8, <2>1, <3>1 DEF IInv
    <3>3. Asked(q)'
      BY <1>11, <3>2
    <3> QED
      BY <2>1, <3>1, <3>3
  <2>2. CASE requests'[i] = m
    BY <1>1, <2>2
  <2> QED
    BY <1>9, <2>1, <2>2
<1>13. ASSUME NEW d \in Shells, reply'[d] # NoReply PROVE Answered(d, reply[d])'
  <2>1. PICK a : a = reply[d]
    OBVIOUS
  <2>2. d # c /\ reply'[d] = a /\ Answered(d, a)
    BY <1>6, <1>13, <2>1 DEF IInv
  <2>3. Answered(d, a)'
    BY <1>11, <2>2
  <2> QED
    BY <2>2, <2>3
<1>14. NoDescriptorLeft'
  BY <1>2, <1>6 DEF IInv, NoDescriptorLeft
<1>15. ShowsTheObject'
  <2> SUFFICES ASSUME NEW d \in Shells
               PROVE  /\ InOrder(shown'[d])
                      /\ Range(shown'[d]) \subseteq Content(target'[d])
                      /\ \A x \in Content(target'[d]), y \in Range(shown'[d]) :
                           x < y => x \in Range(shown'[d])
                      /\ pc'[d] = "CLOSE_OBJ" =>
                           Range(shown'[d]) \in {{}, Content(target'[d])}
    BY <1>5 DEF ShowsTheObject
  <2>1. CASE d = c
    BY <1>6, <2>1 DEF Shows
  <2>2. CASE d # c
    BY <1>6, <2>2 DEF IInv, ShowsTheObject, OwnCommand
  <2> QED
    BY <2>1, <2>2
<1> QED
  <2>1. NoReply' = NoReply
    BY DEF NoReply
  <2> QED
    BY <1>7, <1>10, <1>12, <1>13, <1>14, <1>15, <2>1 DEF IInv

LEMMA NoRequest ==
  ASSUME IInv, NEW c \in Shells, pc[c] = "idle" \/ reply[c] # NoReply
  PROVE  \A i \in 1 .. Len(requests) : requests[i].sender # c
<1> SUFFICES ASSUME NEW i \in 1 .. Len(requests), requests[i].sender = c PROVE FALSE
  OBVIOUS
<1>1. requests[i] \in Request
  BY DEF IInv, TypeOK
<1>2. requests[i].code = pc[c] /\ reply[c] = NoReply /\ requests[i].code \in Codes
  BY <1>1 DEF IInv, OneMessage, Request
<1> QED
  BY <1>2 DEF Codes

LEMMA SameCommand ==
  ASSUME IInv, NEW c, UNCHANGED <<cmd, target, shown>>
  PROVE  OwnCommand(c)
BY DEF IInv, TypeOK, OwnCommand

LEMMA CommandInv ==
  ASSUME IInv, NEW c \in Shells, Command(c), UNCHANGED <<fdVars, after>>
  PROVE  IInv'
<1>1. PICK k \in {"dir", "cat"}, n \in Names, junk \in -1 .. MAX_FD :
        /\ pc[c] = "idle"
        /\ cmd' = [cmd EXCEPT ![c] = k]
        /\ target' = [target EXCEPT ![c] = n]
        /\ shown' = [shown EXCEPT ![c] = <<>>]
        /\ Send(c, "CHK_OBJ", n, junk)
  BY DEF Command
<1>2. /\ cmd \in [Shells -> {"dir", "cat"}]
      /\ target \in [Shells -> Names \cup {NULL}]
      /\ shown \in [Shells -> Seq(Nat)]
      /\ <<>> \in Seq(Nat)
  BY DEF IInv, TypeOK
<1>3. target' \in [Shells -> Names \cup {NULL}]
  BY <1>1, <1>2, Zenon
<1>4. OwnCommand(c) /\ target'[c] = n /\ shown'[c] = <<>>
  BY <1>1, <1>2, <1>3 DEF OwnCommand
<1>5. Owned(c)' = {}
  BY <1>1 DEF IInv, NoDescriptorLeft, Owned, fdVars
<1>6. Asked([sender |-> c, code |-> "CHK_OBJ", name |-> n, fd |-> junk])'
  BY <1>4, <1>5 DEF Asked
<1>7. Shows(shown'[c], n)
  BY <1>4, EmptyShown DEF Shows
<1>8. junk \in Int /\ "CHK_OBJ" \in Codes
  BY FileAssumption DEF Codes
<1> QED
  BY <1>1, <1>4, <1>6, <1>7, <1>8, NoRequest, SendInv

LEMMA FinishInv ==
  ASSUME IInv, NEW c \in Shells, reply[c] # NoReply, Finish(c), Owned(c) = {},
         UNCHANGED <<fdVars, after, cmd, target, shown>>
  PROVE  IInv'
<1>1. /\ requests' = requests /\ after' = after
      /\ reply' = [reply EXCEPT ![c] = NoReply] /\ pc' = [pc EXCEPT ![c] = "idle"]
      /\ owner' = owner /\ offset' = offset /\ item' = item
      /\ cmd' = cmd /\ target' = target /\ shown' = shown
  BY DEF Finish, fdVars
<1>2. /\ TypeOK /\ pc \in [Shells -> Codes \cup {"idle"}]
      /\ reply \in [Shells -> Reply \cup {NoReply}]
  BY DEF IInv, TypeOK
<1>3. /\ pc'[c] = "idle" /\ reply'[c] = NoReply
      /\ \A d \in Shells : d # c => pc'[d] = pc[d] /\ reply'[d] = reply[d]
  BY <1>1, <1>2
<1>4. TypeOK'
  <2>1. FileTypeOK'
    BY <1>1, <1>2 DEF TypeOK, FileTypeOK
  <2>2. pc' \in [Shells -> Codes \cup {"idle"}] /\ reply' \in [Shells -> Reply \cup {NoReply}]
    BY <1>1, <1>2
  <2> QED
    BY <1>1, <1>2, <2>1, <2>2 DEF TypeOK, NoReply
<1>5. \A i \in 1 .. Len(requests) :
        requests[i].sender \in Shells /\ requests[i].sender # c
  <2>1. \A i \in 1 .. Len(requests) : requests[i] \in Request
    BY <1>2 DEF TypeOK
  <2>2. \A i \in 1 .. Len(requests) : requests[i].sender # c
    BY NoRequest
  <2> QED
    BY <2>1, <2>2 DEF Request
<1>6. NoReply' = NoReply
  BY DEF NoReply
<1>7. OneMessage'
  BY <1>1, <1>3, <1>5, <1>6 DEF IInv, OneMessage
<1>8. ASSUME NEW d \in Shells, d # c
      PROVE  /\ \A q : q.sender = d /\ Asked(q) => Asked(q)'
             /\ \A r : Answered(d, r) => Answered(d, r)'
  <2>1. Owned(d)' = Owned(d) /\ pc'[d] = pc[d]
    BY <1>1, <1>3, <1>8 DEF Owned
  <2> QED
    BY <1>1, <2>1, MessagesKeep
<1>9. ASSUME NEW i \in 1 .. Len(requests') PROVE Asked(requests[i])'
  <2>1. PICK q : q = requests[i]
    OBVIOUS
  <2>2. requests'[i] = q /\ Asked(q) /\ q.sender \in Shells /\ q.sender # c
    BY <1>1, <1>5, <2>1 DEF IInv
  <2>3. Asked(q)'
    BY <1>8, <2>2
  <2> QED
    BY <2>2, <2>3
<1>10. ASSUME NEW d \in Shells, reply'[d] # NoReply PROVE Answered(d, reply[d])'
  <2>1. PICK a : a = reply[d]
    OBVIOUS
  <2>2. d # c /\ reply'[d] = a /\ Answered(d, a)
    BY <1>3, <1>10, <2>1 DEF IInv
  <2>3. Answered(d, a)'
    BY <1>8, <2>2
  <2> QED
    BY <2>2, <2>3
<1>11. NoDescriptorLeft'
  BY <1>1, <1>3 DEF IInv, NoDescriptorLeft, Owned
<1>12. ShowsTheObject'
  <2>1. \A n : Content(n)' = Content(n)
    BY <1>1 DEF Content, Entries
  <2> QED
    BY <1>1, <1>3, <2>1 DEF IInv, ShowsTheObject
<1> QED
  BY <1>4, <1>6, <1>7, <1>9, <1>10, <1>11, <1>12 DEF IInv

LEMMA ReadsKeep ==
  ASSUME NEW c, UNCHANGED <<fdVars, after>>, target'[c] = target[c],
         NEW fd, NEW s, Reads(c, fd, s)
  PROVE  Reads(c, fd, s)'
<1>1. owner' = owner /\ offset' = offset /\ item' = item /\ after' = after
  BY DEF fdVars
<1>2. \A n : Entries(n)' = Entries(n)
  BY <1>1 DEF Entries
<1>3. \A n : Content(n)' = Content(n)
  BY <1>2 DEF Content
<1>4. Owned(c)' = Owned(c)
  BY <1>1 DEF Owned
<1>5. Inside(target[c], offset[fd])' <=> Inside(target[c], offset[fd])
  BY <1>1, <1>2 DEF Inside
<1>6. UpTo(s, target[c], offset[fd])' <=> UpTo(s, target[c], offset[fd])
  BY <1>1, <1>3 DEF UpTo
<1> QED
  BY <1>1, <1>4, <1>5, <1>6 DEF Reads

LEMMA ReceiveInv == ASSUME IInv, NEW c \in Shells, Receive(c) PROVE IInv'
<1>1. PICK r : r = reply[c]
  OBVIOUS
<1>2. PICK n : n = target[c]
  OBVIOUS
<1>3. /\ r # NoReply /\ UNCHANGED <<fdVars, after>>
      /\ Checked(c) \/ Opened(c) \/ ShowMore(c) \/ ReadEnds(c) \/ Closed(c)
  BY <1>1 DEF Receive
<1>4. /\ TypeOK /\ r \in Reply /\ r.fd \in Int /\ r.data \in Seq(Nat)
      /\ shown[c] \in Seq(Nat)
      /\ shown \in [Shells -> Seq(Nat)]
  BY <1>1, <1>3 DEF IInv, TypeOK, Reply
<1>5. Answered(c, r)
  BY <1>1, <1>3 DEF IInv
<1>6. \A i \in 1 .. Len(requests) : requests[i].sender # c
  BY <1>1, <1>3, NoRequest
<1>7. Objects \subseteq Names /\ Owned(c)' = Owned(c)
  BY <1>3 DEF Names, Owned, fdVars
<1>8. Shows(shown[c], n)
  BY <1>2, ShowsIsSafety DEF IInv
<1>9. CASE Checked(c)
  <2>1. /\ pc[c] = "CHK_OBJ" /\ UNCHANGED <<cmd, target, shown>>
        /\ \/ r.code = "GOOD" /\ Send(c, "OPEN_OBJ", n, r.fd)
           \/ Finish(c)
    BY <1>1, <1>2, <1>9 DEF Checked
  <2>2. CASE r.code = "GOOD" /\ Send(c, "OPEN_OBJ", n, r.fd)
    <3>1. n \in Objects /\ Owned(c) = {} /\ shown[c] = <<>>
      BY <1>2, <1>5, <2>1, <2>2 DEF Answered
    <3>2. target'[c] = n /\ shown'[c] = shown[c] /\ OwnCommand(c)
      BY <1>2, <2>1, SameCommand
    <3>3. Asked([sender |-> c, code |-> "OPEN_OBJ", name |-> n, fd |-> r.fd])'
      BY <1>7, <3>1, <3>2 DEF Asked
    <3>4. "OPEN_OBJ" \in Codes /\ n \in Names /\ Shows(shown'[c], n)
      BY <1>7, <1>8, <3>1, <3>2 DEF Codes
    <3> QED
      BY <1>3, <1>4, <1>6, <2>2, <3>2, <3>3, <3>4, SendInv
  <2>3. CASE Finish(c)
    <3>1. Owned(c) = {}
      BY <1>5, <2>1 DEF Answered
    <3> QED
      BY <1>1, <1>3, <2>1, <2>3, <3>1, FinishInv
  <2> QED
    BY <2>1, <2>2, <2>3
<1>10. CASE Opened(c)
  <2>1. /\ pc[c] = "OPEN_OBJ" /\ UNCHANGED <<cmd, target, shown>>
        /\ Send(c, "READ_OBJ", n, r.fd)
    BY <1>1, <1>2, <1>10 DEF Opened
  <2>2. n \in Objects /\ Reads(c, r.fd, <<>>) /\ shown[c] = <<>>
    BY <1>2, <1>5, <2>1 DEF Answered
  <2>3. target'[c] = n /\ target'[c] = target[c] /\ shown'[c] = <<>> /\ OwnCommand(c)
    BY <1>2, <2>1, <2>2, SameCommand
  <2>4. Reads(c, r.fd, <<>>)'
    BY <1>3, <2>2, <2>3, ReadsKeep
  <2>5. Asked([sender |-> c, code |-> "READ_OBJ", name |-> n, fd |-> r.fd])'
    BY <2>2, <2>3, <2>4 DEF Asked
  <2>6. "READ_OBJ" \in Codes /\ n \in Names /\ Shows(shown'[c], n)
    BY <1>7, <1>8, <2>2, <2>3 DEF Codes
  <2> QED
    BY <1>3, <1>4, <1>6, <2>1, <2>3, <2>5, <2>6, SendInv
<1>11. CASE ShowMore(c)
  <2>1. PICK s : s = shown[c] \o r.data
    OBVIOUS
  <2>2. /\ pc[c] = "READ_OBJ" /\ r.code = "GOOD" /\ UNCHANGED <<cmd, target>>
        /\ shown' = [shown EXCEPT ![c] = s]
        /\ Send(c, "READ_OBJ", n, r.fd)
    BY <1>1, <1>2, <1>11, <2>1 DEF ShowMore
  <2>3. n \in Objects /\ Reads(c, r.fd, s)
    BY <1>2, <1>5, <2>1, <2>2 DEF Answered
  <2>4. s \in Seq(Nat)
    BY <1>4, <2>1, ConcatProperties
  <2>5. target'[c] = n /\ target'[c] = target[c] /\ shown'[c] = s
    BY <1>2, <1>4, <2>2
  <2>6. OwnCommand(c)
    <3>1. shown' \in [Shells -> Seq(Nat)]
      BY <1>4, <2>2, <2>4
    <3> QED
      BY <1>4, <2>2, <3>1 DEF OwnCommand, TypeOK
  <2>7. Reads(c, r.fd, s)'
    BY <1>3, <2>3, <2>5, ReadsKeep
  <2>8. Asked([sender |-> c, code |-> "READ_OBJ", name |-> n, fd |-> r.fd])'
    BY <2>3, <2>5, <2>7 DEF Asked
  <2>9. "READ_OBJ" \in Codes /\ n \in Names /\ Shows(shown'[c], n)
    BY <1>2, <1>4, <1>7, <2>3, <2>5, ReadsShows DEF Codes
  <2> QED
    BY <1>3, <1>4, <1>6, <2>2, <2>5, <2>6, <2>8, <2>9, SendInv
<1>12. CASE ReadEnds(c)
  <2>1. /\ pc[c] = "READ_OBJ" /\ r.code # "GOOD" /\ UNCHANGED <<cmd, target, shown>>
        /\ Send(c, "CLOSE_OBJ", n, r.fd)
    BY <1>1, <1>2, <1>12 DEF ReadEnds
  <2>2. n \in Objects /\ HasRead(c, r.fd)
    BY <1>2, <1>5, <2>1 DEF Answered
  <2>3. target'[c] = n /\ shown'[c] = shown[c] /\ OwnCommand(c)
    BY <1>2, <2>1, SameCommand
  <2>4. Content(n)' = Content(n)
    BY <1>3 DEF Content, Entries
  <2>5. HasRead(c, r.fd)'
    BY <1>2, <1>7, <2>2, <2>3, <2>4 DEF HasRead
  <2>6. Asked([sender |-> c, code |-> "CLOSE_OBJ", name |-> n, fd |-> r.fd])'
    BY <2>2, <2>3, <2>5 DEF Asked
  <2>7. /\ "CLOSE_OBJ" \in Codes /\ n \in Names /\ Shows(shown'[c], n)
        /\ Range(shown'[c]) \in {{}, Content(n)}
    BY <1>2, <1>7, <1>8, <2>2, <2>3 DEF Codes, HasRead
  <2> QED
    BY <1>3, <1>4, <1>6, <2>1, <2>3, <2>6, <2>7, SendInv
<1>13. CASE Closed(c)
  <2>1. pc[c] = "CLOSE_OBJ" /\ UNCHANGED <<cmd, target, shown>> /\ Finish(c)
    BY <1>13 DEF Closed
  <2>2. Owned(c) = {}
    BY <1>5, <2>1 DEF Answered
  <2> QED
    BY <1>1, <1>3, <2>1, <2>2, FinishInv
<1> QED
  BY <1>3, <1>9, <1>10, <1>11, <1>12, <1>13

LEMMA InitInv == DirCatInit => IInv
<1> SUFFICES ASSUME DirCatInit PROVE IInv
  OBVIOUS
<1>1. /\ requests = <<>> /\ reply = [c \in Shells |-> NoReply]
      /\ owner = [fd \in FD |-> UNUSED] /\ offset = [fd \in FD |-> 0]
      /\ item = [fd \in FD |-> NULL] /\ after \in Layouts
      /\ pc = [c \in Shells |-> "idle"] /\ cmd = [c \in Shells |-> "dir"]
      /\ target = [c \in Shells |-> NULL] /\ shown = [c \in Shells |-> <<>>]
  BY DEF DirCatInit, FileInit
<1>2. <<>> \in Seq(Nat) /\ <<>> \in Seq(Request) /\ Len(requests) = 0
  BY <1>1
<1>3. TypeOK
  BY <1>1, <1>2 DEF TypeOK, FileTypeOK
<1>4. OneMessage
  BY <1>1, <1>2 DEF OneMessage
<1>5. NoDescriptorLeft
  BY <1>1, ShellAssumption DEF NoDescriptorLeft
<1>6. ShowsTheObject
  BY <1>1, EmptyShown DEF ShowsTheObject
<1> QED
  BY <1>1, <1>2, <1>3, <1>4, <1>5, <1>6 DEF IInv

LEMMA IInvAlways == Spec => []IInv
<1>1. ASSUME IInv, UNCHANGED vars PROVE IInv'
  <2>1. /\ requests' = requests /\ reply' = reply /\ after' = after
        /\ owner' = owner /\ offset' = offset /\ item' = item
        /\ pc' = pc /\ cmd' = cmd /\ target' = target /\ shown' = shown
    BY <1>1 DEF vars, fdVars, shellVars
  <2>2. \A d : Owned(d)' = Owned(d)
    BY <2>1 DEF Owned
  <2>3. \A d : /\ \A m : m.sender = d /\ Asked(m) => Asked(m)'
               /\ \A r : Answered(d, r) => Answered(d, r)'
    BY <2>1, <2>2, MessagesKeep
  <2>4. ASSUME NEW i \in 1 .. Len(requests') PROVE Asked(requests[i])'
    <3>1. PICK q : q = requests[i]
      OBVIOUS
    <3>2. requests'[i] = q /\ Asked(q)
      BY <1>1, <2>1, <3>1 DEF IInv
    <3>3. Asked(q)'
      BY <2>3, <3>2
    <3> QED
      BY <3>2, <3>3
  <2>5. ASSUME NEW d \in Shells, reply'[d] # NoReply PROVE Answered(d, reply[d])'
    <3>1. PICK a : a = reply[d]
      OBVIOUS
    <3>2. reply'[d] = a /\ Answered(d, a)
      BY <1>1, <2>1, <2>5, <3>1 DEF IInv
    <3>3. Answered(d, a)'
      BY <2>3, <3>2
    <3> QED
      BY <3>2, <3>3
  <2>6. TypeOK' /\ OneMessage' /\ NoDescriptorLeft'
    BY <1>1, <2>1 DEF IInv, TypeOK, FileTypeOK, OneMessage, NoDescriptorLeft, NoReply
  <2>7. ShowsTheObject'
    <3>1. \A n : Content(n)' = Content(n)
      BY <2>1 DEF Content, Entries
    <3> QED
      BY <1>1, <2>1, <3>1 DEF IInv, ShowsTheObject
  <2>8. NoReply' = NoReply
    BY DEF NoReply
  <2> QED
    BY <2>4, <2>5, <2>6, <2>7, <2>8 DEF IInv
<1>2. IInv /\ [Next]_vars => IInv'
  BY <1>1, ServeInv, ReceiveInv, CommandInv DEF Next
<1> QED
  BY <1>2, InitInv, PTL DEF Spec
----------------------------------------------------------------------------
\* fd_array stays well formed whatever descriptors and names the shells send,
\* junk included.
THEOREM FilesWellTyped == Spec => []FileTypeOK
<1>1. IInv => FileTypeOK
  BY DEF IInv, TypeOK
<1> QED
  BY <1>1, IInvAlways, PTL

\* For any number of shells and descriptors, any files and directories and
\* whatever lies behind bin_dir, dir and cat show their object and no other,
\* in order and whole, or nothing of it.
THEOREM CommandsShowTheirObject == Spec => []ShowsTheObject
<1>1. IInv => ShowsTheObject
  BY DEF IInv
<1> QED
  BY <1>1, IInvAlways, PTL

\* However its last command went, an idle shell owns no descriptor.
THEOREM DescriptorsComeBack == Spec => []NoDescriptorLeft
<1>1. IInv => NoDescriptorLeft
  BY DEF IInv
<1> QED
  BY <1>1, IInvAlways, PTL
=============================================================================
