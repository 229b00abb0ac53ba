------------------------- MODULE CommandLine_proofs -------------------------
(***************************************************************************)
(* The lookup of a path, proved for every path and all directories.        *)
(*                                                                         *)
(* FindNameSub and the walk are recursive functions.  Recursion shows that *)
(* a function exists which satisfies the equation that defines them:       *)
(* applying the equation once more makes a function right one rank higher. *)
(* Where an induction is needed, the least counterexample (Least) stands   *)
(* in for it.  CallAgrees is the heart: a call of FindNameSub and the walk *)
(* go the same way over the one component in front.                        *)
(***************************************************************************)
EXTENDS CommandLine, TLAPS, SequenceTheorems, NaturalsInduction, WellFoundedInduction

----------------------------------------------------------------------------
\* A set of naturals has a least element; FirstMatch is that.
LEMMA Least ==
  ASSUME NEW S \in SUBSET Nat, S # {}
  PROVE  \E x \in S : \A y \in S : x <= y
<1> DEFINE R == {ss \in Nat \X Nat : ss[1] < ss[2]}
<1>1. IsWellFoundedOn(R, Nat)
  BY NatLessThanWellFounded DEF OpToRel
<1> HIDE DEF R
<1>2. S \subseteq Nat
  OBVIOUS
<1>3. \E x \in S : \A y \in S : ~ (<<y, x>> \in R)
  BY <1>1, <1>2, WFMin, ZenonT(30)
<1>4. PICK x \in S : \A y \in S : ~ (<<y, x>> \in R)
  BY <1>3
<1>5. ASSUME NEW y \in S PROVE x <= y
  <2>1. x \in Nat /\ y \in Nat /\ <<y, x>> \notin R
    BY <1>2, <1>4
  <2> QED
    BY <2>1 DEF R
<1> QED
  BY <1>5

\* The search from the front of a directory finds the least position.
LEMMA FirstMatchIsLeast ==
  ASSUME NEW S \in SUBSET Nat, S # {}
  PROVE  FirstMatch(S) \in S /\ \A j \in S : FirstMatch(S) <= j
  BY Least DEF FirstMatch

\* A function whose value at s depends on its values at what ranks below s.
Recursive(S, V, bound, rank, F, start) ==
  /\ bound \in Nat /\ rank \in [S -> 0 .. bound]
  /\ F \in [[S -> V] -> [S -> V]] /\ start \in [S -> V]
  /\ \A g, h \in [S -> V], s \in S :
       (\A t \in S : rank[t] < rank[s] => g[t] = h[t]) => F[g][s] = F[h][s]

\* Such a function exists: the CHOOSE behind a recursive definition has a witness.
LEMMA Recursion ==
  ASSUME NEW S, NEW V, NEW bound, NEW rank, NEW F, NEW start,
         Recursive(S, V, bound, rank, F, start)
  PROVE  \E f \in [S -> V] : f = F[f]
<1>0. /\ bound \in Nat /\ rank \in [S -> 0 .. bound]
      /\ F \in [[S -> V] -> [S -> V]] /\ start \in [S -> V]
      /\ \A g, h \in [S -> V], s \in S :
           (\A t \in S : rank[t] < rank[s] => g[t] = h[t]) => F[g][s] = F[h][s]
  BY DEF Recursive
<1> DEFINE Good(g, k) == \A s \in S : rank[s] < k => g[s] = F[g][s]
           Bad == {k \in Nat : ~ \E g \in [S -> V] : Good(g, k)}
<1>1. ASSUME NEW k \in Nat, NEW g \in [S -> V], Good(g, k)
      PROVE  Good(F[g], k + 1)
  <2>1. SUFFICES ASSUME NEW s \in S, rank[s] < k + 1
                 PROVE  F[g][s] = F[F[g]][s]
    OBVIOUS
  <2>2. F[g] \in [S -> V] /\ rank[s] \in Int
    BY <1>0
  <2>3. \A t \in S : rank[t] < rank[s] => g[t] = F[g][t]
    <3>1. TAKE t \in S
    <3>2. HAVE rank[t] < rank[s]
    <3>3. rank[t] \in Int /\ rank[s] \in Int
      BY <1>0
    <3>4. rank[t] < k
      BY <2>1, <3>2, <3>3
    <3> QED
      BY <1>1, <3>4
  <2> QED
    BY <1>0, <2>2, <2>3
<1>2. Good(start, 0)
  <2>1. \A s \in S : ~ rank[s] < 0
    BY <1>0
  <2> QED
    BY <2>1
<1>3. Bad = {}
  <2>1. SUFFICES ASSUME Bad # {} PROVE FALSE
    OBVIOUS
  <2>2. PICK k \in Bad : \A j \in Bad : k <= j
    BY <2>1, Least
  <2>3. k \in Nat /\ k # 0
    BY <1>0, <1>2
  <2>4. k - 1 \in Nat /\ (k - 1) + 1 = k /\ ~ k <= k - 1
    BY <2>3
  <2>5. k - 1 \notin Bad
    BY <2>2, <2>4
  <2>6. PICK g \in [S -> V] : Good(g, k - 1)
    BY <2>4, <2>5
  <2> HIDE DEF Good
  <2>7. F[g] \in [S -> V] /\ Good(F[g], (k - 1) + 1)
    BY <1>0, <1>1, <2>4, <2>6
  <2>8. Good(F[g], k)
    BY <2>4, <2>7, Zenon
  <2> QED
    BY <2>2, <2>7, <2>8, Zenon
<1>4. PICK f \in [S -> V] : Good(f, bound + 1)
  <2>1. bound + 1 \in Nat
    BY <1>0
  <2> HIDE DEF Good
  <2>2. \A k \in Nat : \E g \in [S -> V] : Good(g, k)
    BY <1>3
  <2> QED
    BY <2>1, <2>2
<1>5. \A s \in S : rank[s] < bound + 1
  BY <1>0
<1>6. \A s \in S : f[s] = F[f][s]
  BY <1>4, <1>5
<1> QED
  BY <1>0, <1>6
----------------------------------------------------------------------------
Entries == [name : Seq(STRING), data : STRING \cup {"NULL", "junk", "behind"}]

\* What is in a directory, and what stands for nothing, is an entry.
LEMMA DirTyped ==
  /\ NULL \in Entries /\ JUNK \in Entries /\ BEHIND \in Entries
  /\ Dir[ROOT][1] \in Entries /\ Dir[ROOT][1].data = ROOT
  /\ \A d \in DOMAIN Dir :
       /\ DOMAIN Dir[d] = 1 .. Len(Dir[d]) /\ DOMAIN Dir[d] \in SUBSET Nat
       /\ \A i \in DOMAIN Dir[d] : Dir[d][i] \in Entries
<1>1. NULL \in Entries /\ JUNK \in Entries /\ BEHIND \in Entries
  <2>1. <<>> \in Seq(STRING)
    BY EmptySeq
  <2> QED
    BY <2>1 DEF NULL, JUNK, BEHIND, Entries
<1>2. \A d \in DOMAIN Dir : Dir[d] \in Seq(Entries) /\ Dir[d] # <<>>
  <2> DEFINE R == [name : Seq(STRING), data : STRING]
  <2>1. R \subseteq Entries
    BY DEF Entries
  <2>2. \A d \in DOMAIN Dir : Dir[d] \in Seq(R) /\ Dir[d] # <<>>
    BY FindNameAssumption
  <2> HIDE DEF R
  <2>3. ASSUME NEW d \in DOMAIN Dir PROVE Dir[d] \in Seq(Entries)
    <3>1. Dir[d] \in Seq(R)
      BY <2>2
    <3>2. \A i \in 1 .. Len(Dir[d]) : Dir[d][i] \in Entries
      BY <2>1, <3>1
    <3> QED
      BY <3>1, <3>2, SeqDef
  <2> QED
    BY <2>2, <2>3
<1> HIDE DEF Entries
<1>3. \A d \in DOMAIN Dir :
        /\ DOMAIN Dir[d] = 1 .. Len(Dir[d]) /\ DOMAIN Dir[d] \in SUBSET Nat
        /\ 1 \in DOMAIN Dir[d]
        /\ \A i \in DOMAIN Dir[d] : Dir[d][i] \in Entries
  BY <1>2
<1>4. Dir[ROOT][1] \in Entries /\ Dir[ROOT][1].data = ROOT
  <2>1. ROOT \in DOMAIN Dir /\ Dir[ROOT][1] = [name |-> <<".">>, data |-> ROOT]
    BY FindNameAssumption
  <2>2. Dir[ROOT][1].data = ROOT
    BY <2>1
  <2> QED
    BY <1>3, <2>1, <2>2
<1> QED
  BY <1>1, <1>3, <1>4

\* No entry of a directory is NULL.
LEMMA EntriesAreNamed == \A d \in DOMAIN Dir : \A i \in DOMAIN Dir[d] : Dir[d][i] # NULL
<1>1. \A d \in DOMAIN Dir : \A i \in DOMAIN Dir[d] : Dir[d][i].name # <<>>
  BY FindNameAssumption
<1> QED
  BY <1>1 DEF NULL

\* The walk cannot go on from NULL.
LEMMA NothingBehindNull == NULL.data \notin DOMAIN Dir
  BY FindNameAssumption DEF NULL

\* Entering what is not a directory finds nothing.
LEMMA EnterTyped ==
  ASSUME NEW at \in Entries, NEW c, NEW full
  PROVE  /\ Enter(at, c, full) \in Entries
         /\ at.data \notin DOMAIN Dir => Enter(at, c, full) = NULL
<1> DEFINE S == {i \in DOMAIN Dir[at.data] : StandsFor(c, Dir[at.data][i].name, full)}
<1>1. at.data \notin DOMAIN Dir => Enter(at, c, full) = NULL
  BY DEF Enter
<1>2. CASE at.data \in DOMAIN Dir
  <2>1. S \in SUBSET Nat /\ S \subseteq DOMAIN Dir[at.data]
    BY <1>2, DirTyped
  <2>2. Enter(at, c, full) = IF S = {} THEN NULL ELSE Dir[at.data][FirstMatch(S)]
    BY <1>2 DEF Enter
  <2> HIDE DEF S
  <2>3. S # {} => FirstMatch(S) \in DOMAIN Dir[at.data]
    BY <2>1, FirstMatchIsLeast
  <2> QED
    BY <1>2, <2>2, <2>3, DirTyped
<1> QED
  BY <1>1, <1>2, DirTyped

\* The walk satisfies its own definition.
LEMMA WalkAtIs ==
  ASSUME NEW path \in Seq(STRING), NEW full
  PROVE  /\ WalkAt(path, full) \in [0 .. Len(path) -> Entries]
         /\ WalkAt(path, full) =
              [j \in 0 .. Len(path) |->
                IF j = 0 THEN Dir[ROOT][1]
                ELSE IF Ends(path, j)
                THEN Enter(WalkAt(path, full)[j-1], Component(path, j), full)
                ELSE WalkAt(path, full)[j-1]]
<1> DEFINE S == 0 .. Len(path)
           Step(g, j) == IF j = 0 THEN Dir[ROOT][1]
                         ELSE IF Ends(path, j) THEN Enter(g[j-1], Component(path, j), full)
                         ELSE g[j-1]
           F == [g \in [S -> Entries] |-> [j \in S |-> Step(g, j)]]
           rank == [j \in S |-> j]
           start == [j \in S |-> NULL]
<1>1. Len(path) \in Nat /\ rank \in [S -> 0 .. Len(path)] /\ start \in [S -> Entries]
  BY DirTyped
<1>2. ASSUME NEW g \in [S -> Entries], NEW j \in S, j # 0
      PROVE  j - 1 \in S /\ rank[j-1] < rank[j] /\ g[j-1] \in Entries
  <2>1. j - 1 \in S /\ rank[j-1] = j - 1 /\ rank[j] = j
    BY <1>1, <1>2
  <2> QED
    BY <1>1, <1>2, <2>1
<1>3. ASSUME NEW g \in [S -> Entries], NEW j \in S PROVE Step(g, j) \in Entries
  BY <1>2, <1>3, DirTyped, EnterTyped
<1>4. F \in [[S -> Entries] -> [S -> Entries]]
  <2> HIDE DEF Step, S
  <2> QED
    BY <1>3
<1>5. ASSUME NEW g \in [S -> Entries], NEW h \in [S -> Entries], NEW j \in S,
             \A t \in S : rank[t] < rank[j] => g[t] = h[t]
      PROVE  F[g][j] = F[h][j]
  <2>1. F[g][j] = Step(g, j) /\ F[h][j] = Step(h, j)
    <3> HIDE DEF Step, S
    <3> QED
      OBVIOUS
  <2>2. j # 0 => g[j-1] = h[j-1]
    BY <1>2, <1>5
  <2> HIDE DEF F
  <2> QED
    BY <2>1, <2>2
<1> HIDE DEF F, S, rank, start
<1>6. \E f \in [S -> Entries] : f = F[f]
  <2>1. \A g, h \in [S -> Entries], j \in S :
          (\A t \in S : rank[t] < rank[j] => g[t] = h[t]) => F[g][j] = F[h][j]
    BY <1>5
  <2>2. Recursive(S, Entries, Len(path), rank, F, start)
    BY <1>1, <1>4, <2>1 DEF Recursive
  <2> QED
    BY <2>2, Recursion
<1>7. PICK f \in [S -> Entries] : f = [j \in S |-> Step(f, j)]
  BY <1>6 DEF F
<1>8. WalkAt(path, full) = [j \in S |-> Step(WalkAt(path, full), j)]
  BY <1>7 DEF WalkAt, S
<1> QED
  BY <1>8 DEF S

\* The same, position by position: the walk moves at the end of a component only.
LEMMA WalkStep ==
  ASSUME NEW path \in Seq(STRING), NEW full
  PROVE  /\ WalkAt(path, full)[0] = Dir[ROOT][1]
         /\ \A j \in 0 .. Len(path) : WalkAt(path, full)[j] \in Entries
         /\ \A j \in 1 .. Len(path) :
              WalkAt(path, full)[j] =
                IF Ends(path, j)
                THEN Enter(WalkAt(path, full)[j-1], Component(path, j), full)
                ELSE WalkAt(path, full)[j-1]
<1> DEFINE at == WalkAt(path, full)
           n == Len(path)
<1>1. n \in Nat
  OBVIOUS
<1>2. at \in [0 .. n -> Entries]
  BY WalkAtIs
<1>3. at = [j \in 0 .. n |->
              IF j = 0 THEN Dir[ROOT][1]
              ELSE IF Ends(path, j) THEN Enter(at[j-1], Component(path, j), full)
              ELSE at[j-1]]
  BY WalkAtIs
<1> HIDE DEF at, n
<1>4. 0 \in 0 .. n /\ \A j \in 1 .. n : j \in 0 .. n /\ j # 0
  BY <1>1
<1>5. at[0] = Dir[ROOT][1]
  BY <1>3, <1>4
<1>6. \A j \in 1 .. n : at[j] = IF Ends(path, j) THEN Enter(at[j-1], Component(path, j), full)
                                ELSE at[j-1]
  BY <1>3, <1>4
<1>7. \A j \in 0 .. n : at[j] \in Entries
  BY <1>2
<1> QED
  BY <1>5, <1>6, <1>7 DEF at, n

\* Between the ends of components the walk stays where it is.
LEMMA WalkStays ==
  ASSUME NEW path \in Seq(STRING), NEW full,
         NEW a \in 0 .. Len(path), NEW b \in a .. Len(path),
         \A j \in a+1 .. b : ~ Ends(path, j)
  PROVE  WalkAt(path, full)[b] = WalkAt(path, full)[a]
<1> DEFINE at == WalkAt(path, full)
           n == Len(path)
           Bad == {k \in Nat : k \in a .. b /\ at[k] # at[a]}
<1>1. n \in Nat /\ a \in Nat /\ b \in Nat /\ a <= b /\ b <= n
  OBVIOUS
<1>2. \A j \in 1 .. n : ~ Ends(path, j) => at[j] = at[j-1]
  BY WalkStep
<1> HIDE DEF at, n
<1>3. SUFFICES ASSUME Bad # {} PROVE FALSE
  <2>1. b \notin Bad => at[b] = at[a]
    BY <1>1
  <2> QED
    BY <1>3, <2>1 DEF at
<1>4. PICK k \in Bad : \A j \in Bad : k <= j
  BY <1>3, Least
<1>5. k \in a+1 .. b /\ k \in 1 .. n
  BY <1>1, <1>4
<1>6. k - 1 \in a .. b /\ k - 1 \in Nat /\ ~ k <= k - 1
  BY <1>1, <1>5
<1>7. at[k-1] = at[a]
  BY <1>4, <1>6
<1>8. at[k] = at[k-1]
  BY <1>2, <1>5
<1> QED
  BY <1>4, <1>7, <1>8

\* The walk does not move before the component that it reads is at its end.
LEMMA WalkStaysInside ==
  ASSUME NEW path \in Seq(STRING), NEW full,
         NEW i \in 1 .. Len(path), NEW e \in i .. Len(path),
         \A j \in i .. e-1 : ~ Ends(path, j)
  PROVE  WalkAt(path, full)[e-1] = WalkAt(path, full)[i-1]
<1>1. Len(path) \in Nat
  OBVIOUS
<1>2. PICK a \in 0 .. Len(path) : a = i - 1
  BY <1>1
<1>3. PICK b \in a .. Len(path) : b = e - 1
  BY <1>1, <1>2
<1>4. \A j \in a+1 .. b : ~ Ends(path, j)
  <2>1. a + 1 = i
    BY <1>1, <1>2
  <2> QED
    BY <1>3, <2>1
<1>5. WalkAt(path, full)[b] = WalkAt(path, full)[a]
  BY <1>4, WalkStays
<1> QED
  BY <1>2, <1>3, <1>5

\* What was not found stays not found.
LEMMA NullStays ==
  ASSUME NEW path \in Seq(STRING), NEW full,
         NEW a \in 0 .. Len(path), NEW b \in a .. Len(path),
         WalkAt(path, full)[a] = NULL
  PROVE  WalkAt(path, full)[b] = NULL
<1> DEFINE at == WalkAt(path, full)
           n == Len(path)
           Bad == {k \in Nat : k \in a .. b /\ at[k] # NULL}
<1>1. n \in Nat /\ a \in Nat /\ b \in Nat /\ a <= b /\ b <= n
  OBVIOUS
<1>2. \A j \in 1 .. n : at[j-1] = NULL => at[j] = NULL
  BY WalkStep, EnterTyped, NothingBehindNull, DirTyped
<1>3. at[a] = NULL
  OBVIOUS
<1> HIDE DEF at, n
<1>4. SUFFICES ASSUME Bad # {} PROVE FALSE
  <2>1. b \notin Bad => at[b] = NULL
    BY <1>1
  <2> QED
    BY <1>4, <2>1 DEF at
<1>5. PICK k \in Bad : \A j \in Bad : k <= j
  BY <1>4, Least
<1>6. k \in a+1 .. b /\ k \in 1 .. n
  BY <1>1, <1>3, <1>5
<1>7. k - 1 \in a .. b /\ k - 1 \in Nat /\ ~ k <= k - 1
  BY <1>1, <1>6
<1>8. at[k-1] = NULL
  BY <1>5, <1>7
<1> QED
  BY <1>2, <1>5, <1>6, <1>8
----------------------------------------------------------------------------
\* A component of the path begins at i.
Starts(path, i) == path[i] # SLASH /\ (i = 1 \/ path[i-1] = SLASH)

\* The component that ends at e begins where the slashes before it do.
LEMMA ComponentIs ==
  ASSUME NEW path \in Seq(STRING), NEW i \in 1 .. Len(path), NEW e \in i .. Len(path),
         Starts(path, i), \A k \in i .. e : path[k] # SLASH
  PROVE  Component(path, e) = SubSeq(path, i, e)
<1> DEFINE First(f) == /\ \A k \in f .. e : path[k] # SLASH
                       /\ f = 1 \/ path[f-1] = SLASH
<1>1. i \in 1 .. e /\ First(i)
  BY DEF Starts
<1>2. ASSUME NEW f \in 1 .. e, First(f) PROVE f = i
  <2>1. f \in Int /\ i \in Int /\ 1 <= f /\ f <= e /\ 1 <= i /\ i <= e /\ e \in Int
    BY <1>1
  <2>2. ~ f < i
    <3>1. SUFFICES ASSUME f < i PROVE FALSE
      OBVIOUS
    <3>2. i # 1 /\ i - 1 \in f .. e
      BY <2>1, <3>1
    <3> QED
      BY <1>2, <1>1, <3>2
  <2>3. ~ i < f
    <3>1. SUFFICES ASSUME i < f PROVE FALSE
      OBVIOUS
    <3>2. f # 1 /\ f - 1 \in i .. e
      BY <2>1, <3>1
    <3> QED
      BY <1>2, <1>1, <3>2
  <2> QED
    BY <2>1, <2>2, <2>3
<1>3. (CHOOSE f \in 1 .. e : First(f)) = i
  BY <1>1, <1>2
<1> QED
  BY <1>3 DEF Component

\* What is left of the path from position i on.
LEMMA SuffixIs ==
  ASSUME NEW path \in Seq(STRING), NEW i \in 1 .. Len(path)
  PROVE  LET name == SubSeq(path, i, Len(path)) IN
         /\ name \in Seq(STRING) /\ name # <<>>
         /\ Len(name) = Len(path) - i + 1
         /\ \A k \in 1 .. Len(path) - i + 1 : name[k] = path[i + k - 1]
<1> DEFINE n == Len(path)
           name == SubSeq(path, i, n)
<1>1. n \in Nat /\ i \in Nat /\ 1 <= i /\ i <= n
  OBVIOUS
<1>2. name \in Seq(STRING) /\ Len(name) = n - i + 1
  BY <1>1
<1>3. \A k \in 1 .. n - i + 1 : name[k] = path[i + k - 1]
  BY <1>1
<1>4. Len(name) # 0
  BY <1>1, <1>2
<1> HIDE DEF name
<1>5. name # <<>>
  BY <1>4
<1> QED
  BY <1>2, <1>3, <1>5 DEF name

\* strchr: the first slash, if there is one.
LEMMA SlashIs ==
  ASSUME NEW s \in Seq(STRING)
  PROVE  /\ ~ HasSlash(s) => \A j \in 1 .. Len(s) : s[j] # SLASH
         /\ HasSlash(s) => /\ Slash(s) \in 1 .. Len(s) /\ s[Slash(s)] = SLASH
                           /\ \A j \in 1 .. Slash(s) - 1 : s[j] # SLASH
<1>1. ~ HasSlash(s) => \A j \in 1 .. Len(s) : s[j] # SLASH
  BY DEF HasSlash, Contains
<1>2. CASE HasSlash(s)
  <2> DEFINE S == {i \in Nat : i \in 1 .. Len(s) /\ s[i] = SLASH}
  <2>1. S # {}
    BY <1>2 DEF HasSlash, Contains
  <2>2. PICK k \in S : \A j \in S : k <= j
    BY <2>1, Least
  <2>3. k \in DOMAIN s /\ s[k] = SLASH /\ k \in 1 .. Len(s)
    BY <2>2
  <2>4. \A j \in 1 .. k-1 : s[j] # SLASH
    BY <2>2, <2>3
  <2>5. Slash(s) \in DOMAIN s /\ s[Slash(s)] = SLASH /\ \A j \in 1 .. Slash(s) - 1 : s[j] # SLASH
    BY <2>3, <2>4 DEF Slash
  <2> QED
    BY <1>2, <2>5
<1> QED
  BY <1>1, <1>2

\* The loop over slashes stops at the first character that is none.
LEMMA SkipIs ==
  ASSUME NEW s \in Seq(STRING)
  PROVE  \/ SkipSlashes(s) = <<>> /\ \A j \in 1 .. Len(s) : s[j] = SLASH
         \/ \E k \in 1 .. Len(s) :
              /\ SkipSlashes(s) = SubSeq(s, k, Len(s))
              /\ s[k] # SLASH /\ \A j \in 1 .. k-1 : s[j] = SLASH
<1> DEFINE S == {i \in Nat : i \in 1 .. Len(s) /\ s[i] # SLASH}
           Is(i) == s[i] # SLASH /\ \A j \in 1 .. i-1 : s[j] = SLASH
<1>1. CASE S = {}
  <2>1. \A i \in DOMAIN s : s[i] = SLASH
    BY <1>1
  <2> QED
    BY <2>1 DEF SkipSlashes
<1>2. CASE S # {}
  <2>1. PICK k \in S : \A j \in S : k <= j
    BY <1>2, Least
  <2>2. k \in DOMAIN s /\ Is(k)
    BY <2>1
  <2>3. (CHOOSE i \in DOMAIN s : Is(i)) \in DOMAIN s /\ Is(CHOOSE i \in DOMAIN s : Is(i))
    <3> HIDE DEF Is
    <3> QED
      BY <2>2
  <2>4. SkipSlashes(s) = SubSeq(s, CHOOSE i \in DOMAIN s : Is(i), Len(s))
    BY <2>2 DEF SkipSlashes
  <2> DEFINE c == CHOOSE i \in DOMAIN s : Is(i)
  <2>5. c \in 1 .. Len(s) /\ Is(c) /\ SkipSlashes(s) = SubSeq(s, c, Len(s))
    BY <2>3, <2>4
  <2> HIDE DEF c
  <2> QED
    BY <2>5
<1> QED
  BY <1>1, <1>2

\* Where the component that begins at i ends.
EndOf(path, i) == i + ComponentLen(SubSeq(path, i, Len(path))) - 1

\* From the start of a component, FindNameSub measures it as the walk reads it.
LEMMA OneComponent ==
  ASSUME NEW path \in Seq(STRING), NEW i \in 1 .. Len(path), Starts(path, i)
  PROVE  /\ EndOf(path, i) \in i .. Len(path)
         /\ ComponentLen(SubSeq(path, i, Len(path))) = EndOf(path, i) - i + 1
         /\ \A k \in i .. EndOf(path, i) : path[k] # SLASH
         /\ Ends(path, EndOf(path, i))
         /\ \A j \in i .. EndOf(path, i) - 1 : ~ Ends(path, j)
         /\ Component(path, EndOf(path, i)) = SubSeq(path, i, EndOf(path, i))
         /\ ~ HasSlash(SubSeq(path, i, Len(path))) => EndOf(path, i) = Len(path)
         /\ HasSlash(SubSeq(path, i, Len(path))) =>
              /\ EndOf(path, i) < Len(path) /\ path[EndOf(path, i) + 1] = SLASH
              /\ Slash(SubSeq(path, i, Len(path))) = EndOf(path, i) - i + 2
<1> DEFINE n == Len(path)
           name == SubSeq(path, i, n)
           e == EndOf(path, i)
           c == ComponentLen(name)
<1>1. n \in Nat /\ i \in Nat /\ 1 <= i /\ i <= n
  OBVIOUS
<1>2. /\ name \in Seq(STRING) /\ Len(name) = n - i + 1
      /\ \A k \in 1 .. n - i + 1 : name[k] = path[i + k - 1]
  BY SuffixIs
<1>3. e = i + c - 1
  BY DEF EndOf
<1>4. c = IF HasSlash(name) THEN Slash(name) - 1 ELSE Len(name)
  BY DEF ComponentLen
<1>5. path[i] # SLASH
  BY DEF Starts
<1>s. /\ ~ HasSlash(name) => \A j \in 1 .. Len(name) : name[j] # SLASH
      /\ HasSlash(name) => /\ Slash(name) \in 1 .. Len(name) /\ name[Slash(name)] = SLASH
                           /\ \A j \in 1 .. Slash(name) - 1 : name[j] # SLASH
  BY <1>2, SlashIs
<1> HIDE DEF n, name, e, c
<1>6. /\ c \in Nat /\ 1 <= c /\ c <= n - i + 1
      /\ \A k \in 1 .. c : name[k] # SLASH
      /\ ~ HasSlash(name) => c = n - i + 1
      /\ HasSlash(name) => c < n - i + 1 /\ name[c + 1] = SLASH /\ Slash(name) = c + 1
  <2>1. CASE HasSlash(name)
    <3> DEFINE p == Slash(name)
    <3>1. p \in 1 .. n - i + 1 /\ name[p] = SLASH /\ \A j \in 1 .. p - 1 : name[j] # SLASH
      BY <1>2, <1>s, <2>1
    <3>2. c = p - 1
      BY <1>4, <2>1
    <3>3. p # 1
      BY <1>1, <1>2, <1>5, <3>1
    <3> HIDE DEF p
    <3>4. c \in Nat /\ 1 <= c /\ c <= n - i + 1 /\ c < n - i + 1 /\ c + 1 = p
      BY <1>1, <3>1, <3>2, <3>3
    <3> QED
      BY <2>1, <3>1, <3>2, <3>4 DEF p
  <2>2. CASE ~ HasSlash(name)
    <3>1. c = n - i + 1 /\ \A k \in 1 .. n - i + 1 : name[k] # SLASH
      BY <1>2, <1>4, <1>s, <2>2
    <3> QED
      BY <1>1, <2>2, <3>1
  <2> QED
    BY <2>1, <2>2
<1>7. e \in Int /\ i <= e /\ e <= n /\ c = e - i + 1 /\ e \in i .. n
  BY <1>1, <1>3, <1>6
<1>8. ASSUME NEW k \in i .. e PROVE path[k] # SLASH
  <2>1. k - i + 1 \in 1 .. c /\ k - i + 1 \in 1 .. n - i + 1 /\ i + (k - i + 1) - 1 = k
    BY <1>1, <1>6, <1>7
  <2> QED
    BY <1>2, <1>6, <2>1
<1>9. HasSlash(name) => e < n /\ path[e + 1] = SLASH /\ Slash(name) = e - i + 2
  <2>1. HAVE HasSlash(name)
  <2>2. c < n - i + 1 /\ name[c + 1] = SLASH /\ Slash(name) = c + 1
    BY <1>6, <2>1
  <2>3. c + 1 \in 1 .. n - i + 1 /\ i + (c + 1) - 1 = e + 1 /\ e < n /\ c + 1 = e - i + 2
    BY <1>1, <1>6, <1>7, <2>2
  <2> QED
    BY <1>2, <2>2, <2>3
<1>10. ~ HasSlash(name) => e = n
  BY <1>1, <1>6, <1>7
<1>11. Ends(path, e)
  BY <1>7, <1>8, <1>9, <1>10 DEF Ends, n
<1>12. ASSUME NEW j \in i .. e - 1 PROVE ~ Ends(path, j)
  <2>1. j + 1 \in i .. e /\ j # n
    BY <1>1, <1>7
  <2>2. path[j+1] # SLASH
    BY <1>8, <2>1
  <2> QED
    BY <2>1, <2>2 DEF Ends, n
<1>13. Component(path, e) = SubSeq(path, i, e)
  BY <1>7, <1>8, ComponentIs DEF n
<1> QED
  BY <1>7, <1>8, <1>9, <1>10, <1>11, <1>12, <1>13 DEF n, name, e, c

\* What FindNameSub goes on with: the next component, if there is one.
LEMMA RestIs ==
  ASSUME NEW path \in Seq(STRING), NEW i \in 1 .. Len(path),
         HasSlash(SubSeq(path, i, Len(path))),
         NEW e \in Int, Slash(SubSeq(path, i, Len(path))) = e - i + 2
  PROVE  LET rest == SkipSlashes(Behind(SubSeq(path, i, Len(path)))) IN
         \/ rest = <<>> /\ \A j \in e + 1 .. Len(path) : path[j] = SLASH
         \/ \E f \in e + 2 .. Len(path) :
              /\ rest = SubSeq(path, f, Len(path)) /\ i < f /\ Starts(path, f)
              /\ \A j \in e + 1 .. f - 1 : path[j] = SLASH
<1> DEFINE n == Len(path)
           name == SubSeq(path, i, n)
           behind == Behind(name)
<1>1. n \in Nat /\ i \in Nat /\ 1 <= i /\ i <= n
  OBVIOUS
<1>2. e \in Int /\ i - 1 <= e /\ e < n /\ path[e + 1] = SLASH /\ Slash(name) = e - i + 2
  <2> DEFINE p == Slash(name)
  <2>1. p \in 1 .. n - i + 1 /\ name[p] = SLASH /\ p = e - i + 2
    BY SlashIs, SuffixIs
  <2>2. path[i + p - 1] = SLASH
    BY <2>1, SuffixIs
  <2> HIDE DEF p
  <2>3. p \in Int /\ 1 <= p /\ p <= n - i + 1
    BY <1>1, <2>1
  <2>4. e \in Int /\ i - 1 <= e /\ e < n /\ e + 1 = i + p - 1
    BY <1>1, <2>1, <2>3
  <2> QED
    BY <2>1, <2>2, <2>4 DEF p
<1>3. /\ name \in Seq(STRING) /\ Len(name) = n - i + 1
      /\ \A k \in 1 .. n - i + 1 : name[k] = path[i + k - 1]
  BY SuffixIs
<1>4. behind = SubSeq(name, Slash(name) + 1, Len(name))
  BY DEF Behind
<1> HIDE DEF n, name, behind
<1>5. behind = SubSeq(name, e - i + 3, n - i + 1)
  <2>1. (e - i + 2) + 1 = e - i + 3
    BY <1>1, <1>2
  <2> QED
    BY <1>2, <1>3, <1>4, <2>1
<1>6. /\ behind \in Seq(STRING) /\ Len(behind) = n - e - 1
      /\ \A k \in 1 .. n - e - 1 : behind[k] = path[e + 1 + k]
  <2> DEFINE a == e - i + 3
             z == n - i + 1
  <2>1. a \in 1 .. z + 1 /\ a \in Int /\ z \in Nat /\ Len(name) = z /\ z - a + 1 = n - e - 1
    BY <1>1, <1>2, <1>3
  <2>2. behind = SubSeq(name, a, z)
    BY <1>5
  <2>3. \A k \in 1 .. n - e - 1 : a + k - 1 \in 1 .. n - i + 1 /\ i + (a + k - 1) - 1 = e + 1 + k
    BY <1>1, <1>2
  <2> HIDE DEF a, z
  <2>4. /\ behind \in Seq(STRING) /\ Len(behind) = z - a + 1
        /\ \A k \in 1 .. z - a + 1 : behind[k] = name[a + k - 1]
    BY <1>3, <2>1, <2>2
  <2> QED
    BY <1>3, <2>1, <2>3, <2>4
<1>7. CASE SkipSlashes(behind) = <<>> /\ \A j \in 1 .. Len(behind) : behind[j] = SLASH
  <2>1. ASSUME NEW j \in e + 1 .. n PROVE path[j] = SLASH
    <3>1. CASE j = e + 1
      BY <1>2, <3>1
    <3>2. CASE j # e + 1
      <4>1. j - e - 1 \in 1 .. n - e - 1 /\ e + 1 + (j - e - 1) = j
        BY <1>1, <1>2, <3>2
      <4> QED
        BY <1>6, <1>7, <4>1
    <3> QED
      BY <3>1, <3>2
  <2> QED
    BY <1>7, <2>1 DEF n, behind, name
<1>8. ASSUME NEW k \in 1 .. Len(behind), SkipSlashes(behind) = SubSeq(behind, k, Len(behind)),
             behind[k] # SLASH, \A j \in 1 .. k-1 : behind[j] = SLASH
      PROVE  \E f \in e + 2 .. n : /\ SkipSlashes(behind) = SubSeq(path, f, n)
                                   /\ i < f /\ Starts(path, f)
                                   /\ \A j \in e + 1 .. f - 1 : path[j] = SLASH
  <2> DEFINE f == e + 1 + k
  <2>1. k \in Nat /\ 1 <= k /\ k <= n - e - 1
    BY <1>1, <1>2, <1>6
  <2>2. f \in e + 2 .. n /\ f \in Int /\ f # 1 /\ i < f /\ f = e + 1 + k
    BY <1>1, <1>2, <2>1
  <2> HIDE DEF f
  <2>3. ASSUME NEW j \in e + 1 .. f - 1 PROVE path[j] = SLASH
    <3>1. CASE j = e + 1
      BY <1>2, <3>1
    <3>2. CASE j # e + 1
      <4>1. j - e - 1 \in 1 .. k - 1 /\ j - e - 1 \in 1 .. n - e - 1 /\ e + 1 + (j - e - 1) = j
        BY <1>1, <1>2, <2>1, <2>2, <3>2
      <4> QED
        BY <1>6, <1>8, <4>1
    <3> QED
      BY <3>1, <3>2
  <2>4. path[f] # SLASH
    BY <1>6, <1>8, <2>1, <2>2
  <2>5. path[f - 1] = SLASH
    BY <1>2, <2>2, <2>3
  <2>6. SubSeq(behind, k, Len(behind)) = SubSeq(path, f, n)
    <3> DEFINE m == n - e - 1
               s == SubSeq(behind, k, m)
               t == SubSeq(path, f, n)
    <3>1. m \in Nat /\ k <= m /\ Len(behind) = m /\ m - k + 1 = n - f + 1
      BY <1>1, <1>2, <1>6, <2>1, <2>2
    <3>a. behind \in Seq(STRING) /\ k \in 1 .. Len(behind) + 1 /\ m \in k-1 .. Len(behind)
      BY <1>6, <2>1, <3>1
    <3>b. f \in 1 .. n + 1 /\ n \in f-1 .. n /\ n = Len(path)
      BY <1>1, <1>2, <2>2 DEF n
    <3>2. s \in Seq(STRING) /\ Len(s) = m - k + 1
          /\ \A j \in 1 .. m - k + 1 : s[j] = behind[k + j - 1]
      <4>1. k \in Int /\ m \in Int /\ k <= m /\ \A j \in k .. m : behind[j] \in STRING
        BY <2>1, <3>1, <3>a
      <4> HIDE DEF m
      <4> QED
        BY <4>1, SubSeqProperties
    <3>3. t \in Seq(STRING) /\ Len(t) = n - f + 1
          /\ \A j \in 1 .. n - f + 1 : t[j] = path[f + j - 1]
      <4>1. f \in Int /\ n \in Int /\ f <= n /\ \A j \in f .. n : path[j] \in STRING
        BY <1>1, <2>2, <3>b
      <4> QED
        BY <4>1, SubSeqProperties
    <3>4. \A j \in 1 .. m - k + 1 : k + j - 1 \in 1 .. m /\ e + 1 + (k + j - 1) = f + j - 1
      BY <1>1, <1>2, <2>1, <2>2, <3>1
    <3> HIDE DEF s, t
    <3>5. \A j \in 1 .. m - k + 1 : s[j] = t[j]
      <4> TAKE j \in 1 .. m - k + 1
      <4>1. s[j] = behind[k + j - 1] /\ t[j] = path[f + j - 1]
        BY <3>1, <3>2, <3>3
      <4>2. behind[k + j - 1] = path[e + 1 + (k + j - 1)]
        BY <1>6, <3>1, <3>4
      <4> QED
        BY <3>4, <4>1, <4>2
    <3>6. s = t
      BY <3>1, <3>2, <3>3, <3>5, SeqEqual
    <3> QED
      BY <3>1, <3>6 DEF s, t
  <2> QED
    BY <1>8, <2>2, <2>3, <2>4, <2>5, <2>6 DEF Starts
<1> QED
  BY <1>6, <1>7, <1>8, SkipIs DEF n, behind, name

\* The library's IsPrefix, character by character.
LEMMA PrefixIs ==
  ASSUME NEW s \in Seq(STRING), NEW t \in Seq(STRING)
  PROVE  IsPrefix(s, t) <=> /\ Len(s) <= Len(t)
                            /\ \A k \in 1 .. Len(s) : s[k] = t[k]
<1> DEFINE m == Len(s)
<1>1. m \in Nat /\ Len(t) \in Nat
  OBVIOUS
<1>2. SUFFICES ASSUME m <= Len(t)
               PROVE  SubSeq(s, 1, m) = SubSeq(t, 1, m) <=> \A k \in 1 .. m : s[k] = t[k]
  BY DEF IsPrefix
<1> DEFINE u == SubSeq(s, 1, m)
           v == SubSeq(t, 1, m)
<1>3. u \in Seq(STRING) /\ Len(u) = m /\ \A k \in 1 .. m : u[k] = s[k]
  BY <1>1
<1>4. v \in Seq(STRING) /\ Len(v) = m /\ \A k \in 1 .. m : v[k] = t[k]
  BY <1>1, <1>2
<1> HIDE DEF u, v, m
<1>5. u = v <=> \A k \in 1 .. m : u[k] = v[k]
  BY <1>3, <1>4, SeqEqual
<1>6. u = v <=> \A k \in 1 .. m : s[k] = t[k]
  BY <1>3, <1>4, <1>5
<1> QED
  BY <1>6 DEF u, v

\* MyStrcmp over all characters of u, with which s begins.
LEMMA StrcmpIsPrefix ==
  ASSUME NEW s \in Seq(STRING), NEW t \in Seq(STRING), NEW u \in Seq(STRING),
         Len(u) <= Len(s), \A k \in 1 .. Len(u) : u[k] = s[k] /\ u[k] # END
  PROVE  MyStrcmp(s, t, Len(u)) <=> IsPrefix(u, t)
<1> DEFINE c == Len(u)
<1>1. c \in Nat /\ Len(s) \in Nat /\ Len(t) \in Nat
  OBVIOUS
<1>2. \A k \in 1 .. c : k <= Len(s)
  BY <1>1
<1>3. MyStrcmp(s, t, c) <=> \A k \in 1 .. c : s[k] = IF k <= Len(t) THEN t[k] ELSE END
  <2>1. Chars(s, c) = [k \in 1 .. c |-> s[k]]
    BY <1>2 DEF Chars
  <2>2. Chars(t, c) = [k \in 1 .. c |-> IF k <= Len(t) THEN t[k] ELSE END]
    BY DEF Chars
  <2> HIDE DEF c
  <2> QED
    BY <2>1, <2>2 DEF MyStrcmp
<1>4. ASSUME MyStrcmp(s, t, c) PROVE c <= Len(t) /\ \A k \in 1 .. c : u[k] = t[k]
  <2>1. \A k \in 1 .. c : k <= Len(t) /\ u[k] = t[k]
    BY <1>3, <1>4
  <2>2. c <= Len(t)
    BY <1>1, <2>1
  <2> QED
    BY <2>1, <2>2
<1>5. ASSUME c <= Len(t), \A k \in 1 .. c : u[k] = t[k] PROVE MyStrcmp(s, t, c)
  <2>1. \A k \in 1 .. c : k <= Len(t)
    BY <1>1, <1>5
  <2> QED
    BY <1>3, <1>5, <2>1
<1> QED
  BY <1>4, <1>5, PrefixIs

\* The entries that FindNameSub takes are those the component stands for.
LEMMA MatchesIs ==
  ASSUME NEW path \in Seq(STRING), \A k \in 1 .. Len(path) : path[k] # END,
         NEW i \in 1 .. Len(path), Starts(path, i), NEW d \in DOMAIN Dir
  PROVE  Matches(SubSeq(path, i, Len(path)), d) =
           {k \in DOMAIN Dir[d] :
              StandsFor(Component(path, EndOf(path, i)), Dir[d][k].name, FALSE)}
<1> DEFINE n == Len(path)
           name == SubSeq(path, i, n)
           e == EndOf(path, i)
           u == SubSeq(path, i, e)
<1>1. n \in Nat /\ i \in Nat /\ 1 <= i /\ i <= n
  OBVIOUS
<1>2. e \in Int /\ i <= e /\ e <= n /\ ComponentLen(name) = e - i + 1 /\ Component(path, e) = u
  BY OneComponent
<1>3. /\ name \in Seq(STRING) /\ Len(name) = n - i + 1
      /\ \A k \in 1 .. n - i + 1 : name[k] = path[i + k - 1]
  BY SuffixIs
<1>4. u \in Seq(STRING) /\ Len(u) = e - i + 1 /\ \A k \in 1 .. e - i + 1 : u[k] = path[i + k - 1]
  BY <1>1, <1>2
<1>5. Len(u) <= Len(name) /\ \A k \in 1 .. Len(u) : u[k] = name[k] /\ u[k] # END
  <2>1. e - i + 1 <= n - i + 1 /\ \A k \in 1 .. e - i + 1 : k \in 1 .. n - i + 1 /\ i + k - 1 \in 1 .. n
    BY <1>1, <1>2
  <2> HIDE DEF name, u, e
  <2> QED
    BY <1>3, <1>4, <2>1
<1>6. \A k \in DOMAIN Dir[d] : Dir[d][k].name \in Seq(STRING)
  BY DirTyped DEF Entries
<1> HIDE DEF name, u, e
<1>7. \A k \in DOMAIN Dir[d] :
        MyStrcmp(name, Dir[d][k].name, ComponentLen(name)) <=> IsPrefix(u, Dir[d][k].name)
  BY <1>2, <1>3, <1>4, <1>5, <1>6, StrcmpIsPrefix
<1> QED
  BY <1>2, <1>7 DEF Matches, StandsFor, name, e
----------------------------------------------------------------------------
\* One call of FindNameSub, with what the deeper calls return.
Call(deeper, name, d) ==
  LET found == Dir[d][FirstMatch(Matches(name, d))]
      rest == SkipSlashes(Behind(name))
  IN
  IF Matches(name, d) = {} THEN IF d \in NoEnd THEN BEHIND ELSE NULL
  ELSE IF ~ HasSlash(name) THEN found
  ELSE IF rest = <<>> THEN found
  ELSE IF found.data \in DOMAIN Dir THEN deeper[rest][found.data]
  ELSE JUNK

\* A call of FindNameSub calls itself on less of the path.
LEMMA RestIsShorter ==
  ASSUME NEW path \in Seq(STRING), NEW name \in Suffixes(path), HasSlash(name),
         SkipSlashes(Behind(name)) # <<>>
  PROVE  /\ SkipSlashes(Behind(name)) \in Suffixes(path)
         /\ Len(SkipSlashes(Behind(name))) < Len(name)
<1> DEFINE n == Len(path)
           rest == SkipSlashes(Behind(name))
<1>1. name # <<>>
  BY DEF HasSlash, Contains
<1>2. PICK i \in 1 .. n : name = SubSeq(path, i, n)
  BY <1>1 DEF Suffixes
<1>3. n \in Nat /\ i \in Int
  OBVIOUS
<1>4. PICK p \in Int : p = Slash(name)
  <2>1. Slash(SubSeq(path, i, n)) \in 1 .. Len(SubSeq(path, i, n))
    BY <1>2, SlashIs, SuffixIs
  <2> QED
    BY <1>2, <2>1
<1>5. PICK e \in Int : p = e - i + 2
  <2>1. p + i - 2 \in Int /\ p = (p + i - 2) - i + 2
    BY <1>3
  <2> QED
    BY <2>1
<1>6. PICK f \in e + 2 .. n : rest = SubSeq(path, f, n) /\ i < f /\ Starts(path, f)
  BY <1>2, <1>4, <1>5, RestIs
<1>7. f \in 1 .. n /\ f \in Int
  BY <1>3, <1>6
<1>8. Len(SubSeq(path, f, n)) = n - f + 1 /\ Len(SubSeq(path, i, n)) = n - i + 1
  BY <1>7, SuffixIs
<1>9. rest \in Suffixes(path)
  BY <1>6, <1>7 DEF Suffixes
<1>10. n - f + 1 < n - i + 1
  BY <1>3, <1>6, <1>7
<1> QED
  BY <1>2, <1>6, <1>8, <1>9, <1>10

\* FindNameSub satisfies its own definition.
LEMMA FindNameSubIs ==
  ASSUME NEW path \in Seq(STRING), NEW name \in Suffixes(path), NEW d \in DOMAIN Dir
  PROVE  FindNameSub(path)[name][d] = Call(FindNameSub(path), name, d)
<1> DEFINE S == Suffixes(path)
           V == [DOMAIN Dir -> Entries]
           F == [g \in [S -> V] |-> [s \in S |-> [c \in DOMAIN Dir |-> Call(g, s, c)]]]
           rank == [s \in S |-> Len(s)]
           start == [s \in S |-> [c \in DOMAIN Dir |-> NULL]]
           n == Len(path)
<1>1. \A s \in S : Len(s) \in 0 .. n
  <2>1. ASSUME NEW s \in S PROVE Len(s) \in 0 .. n
    <3>1. CASE s = <<>>
      <4>1. Len(s) = 0 /\ n \in Nat
        BY <3>1
      <4> QED
        BY <4>1
    <3>2. CASE s # <<>>
      <4>1. PICK i \in 1 .. n : s = SubSeq(path, i, n)
        BY <3>2 DEF Suffixes
      <4>2. Len(s) = n - i + 1 /\ n \in Nat
        BY <4>1, SuffixIs
      <4> QED
        BY <4>2
    <3> QED
      BY <3>1, <3>2
  <2> QED
    BY <2>1
<1>2. n \in Nat /\ rank \in [S -> 0 .. n] /\ start \in [S -> V]
  BY <1>1, DirTyped
<1>3. ASSUME NEW g \in [S -> V], NEW s \in S, NEW c \in DOMAIN Dir
      PROVE  Call(g, s, c) \in Entries
  <2> DEFINE m == Matches(s, c)
             found == Dir[c][FirstMatch(m)]
             rest == SkipSlashes(Behind(s))
  <2>1. m \in SUBSET Nat /\ m \subseteq DOMAIN Dir[c]
    BY DirTyped DEF Matches
  <2> HIDE DEF m
  <2>2. m # {} => found \in Entries
    BY <2>1, FirstMatchIsLeast, DirTyped
  <2>3. HasSlash(s) /\ rest # <<>> => rest \in S
    BY RestIsShorter
  <2> HIDE DEF found, rest, S
  <2>4. HasSlash(s) /\ rest # <<>> /\ found.data \in DOMAIN Dir => g[rest][found.data] \in Entries
    BY <2>3
  <2> QED
    BY <2>2, <2>4, DirTyped DEF Call, m, found, rest
<1>4. F \in [[S -> V] -> [S -> V]]
  <2> HIDE DEF S
  <2> QED
    BY <1>3
<1>5. ASSUME NEW g \in [S -> V], NEW h \in [S -> V], NEW s \in S,
             \A t \in S : rank[t] < rank[s] => g[t] = h[t]
      PROVE  F[g][s] = F[h][s]
  <2> DEFINE rest == SkipSlashes(Behind(s))
  <2>1. HasSlash(s) /\ rest # <<>> => rest \in S /\ rank[rest] < rank[s]
    BY RestIsShorter
  <2>2. HasSlash(s) /\ rest # <<>> => g[rest] = h[rest]
    BY <1>5, <2>1
  <2>3. \A c \in DOMAIN Dir : Call(g, s, c) = Call(h, s, c)
    BY <2>2 DEF Call
  <2>4. F[g][s] = [c \in DOMAIN Dir |-> Call(g, s, c)] /\ F[h][s] = [c \in DOMAIN Dir |-> Call(h, s, c)]
    <3> HIDE DEF S, V
    <3> QED
      OBVIOUS
  <2> HIDE DEF F
  <2> QED
    BY <2>3, <2>4
<1>6. \E f \in [S -> V] : f = F[f]
  <2> HIDE DEF S, V, F, rank, start
  <2>1. Recursive(S, V, n, rank, F, start)
    BY <1>2, <1>4, <1>5 DEF Recursive
  <2> QED
    BY <2>1, Recursion
<1> HIDE DEF S, V
<1>7. PICK f \in [S -> V] : f = [s \in S |-> [c \in DOMAIN Dir |-> Call(f, s, c)]]
  BY <1>6
<1>8. FindNameSub(path) = [s \in S |-> [c \in DOMAIN Dir |-> Call(FindNameSub(path), s, c)]]
  BY <1>7 DEF FindNameSub, Call, S
<1> HIDE DEF F
<1> QED
  BY <1>8 DEF S
----------------------------------------------------------------------------
\* The lookup of the components from i on and the walk come to the same entry,
\* unless the search leaves the directories: then the walk finds nothing.
Agrees(path, i) ==
  LET at == WalkAt(path, FALSE)
      r == FindNameSub(path)[SubSeq(path, i, Len(path))][at[i-1].data]
  IN \/ r = at[Len(path)]
     \/ LeavesDirectories(path) /\ at[Len(path)] = NULL

\* A call of FindNameSub agrees with the walk if the call for the component
\* after its own does.
LEMMA CallAgrees ==
  ASSUME NEW path \in Seq(STRING), \A k \in 1 .. Len(path) : path[k] # END,
         NEW i \in 1 .. Len(path), Starts(path, i),
         WalkAt(path, FALSE)[i-1].data \in DOMAIN Dir,
         \A f \in i+1 .. Len(path) :
           Starts(path, f) /\ WalkAt(path, FALSE)[f-1].data \in DOMAIN Dir => Agrees(path, f)
  PROVE  Agrees(path, i)
<1> DEFINE n == Len(path)
           name == SubSeq(path, i, n)
           at == WalkAt(path, FALSE)
           d == at[i-1].data
           e == EndOf(path, i)
           m == Matches(name, d)
           found == Dir[d][FirstMatch(m)]
           rest == SkipSlashes(Behind(name))
           r == FindNameSub(path)[name][d]
<1>1. n \in Nat /\ i \in Nat /\ 1 <= i /\ i <= n
  OBVIOUS
<1>2. e \in Int /\ i <= e /\ e <= n
  BY OneComponent
<1>0. at[e-1] = at[i-1]
  <2>1. e \in i .. n /\ \A j \in i .. e - 1 : ~ Ends(path, j)
    BY OneComponent
  <2> HIDE DEF e
  <2> QED
    BY <2>1, WalkStaysInside
<1>3. at[e] = IF m = {} THEN NULL ELSE found
  <2>1. i - 1 \in 0 .. n /\ e - 1 \in i - 1 .. n /\ e \in 1 .. n /\ (i - 1) + 1 = i
    BY <1>1, <1>2
  <2>2. e \in i .. n /\ Ends(path, e)
    BY OneComponent
  <2>4. at[e] = Enter(at[i-1], Component(path, e), FALSE)
    BY <2>1, <2>2, <1>0, WalkStep
  <2>5. m = {k \in DOMAIN Dir[d] : StandsFor(Component(path, e), Dir[d][k].name, FALSE)}
    BY MatchesIs
  <2> QED
    BY <2>4, <2>5 DEF Enter
<1>4. \A b \in e .. n : at[e] = NULL => at[b] = NULL
  <2>1. e \in 0 .. n
    BY <1>1, <1>2
  <2> QED
    BY <2>1, NullStays
<1>5. \A b \in e .. n : (\A j \in e+1 .. b : path[j] = SLASH) => at[b] = at[e]
  <2>1. e \in 0 .. n
    BY <1>1, <1>2
  <2> QED
    BY <2>1, WalkStays DEF Ends
<1>6. r = Call(FindNameSub(path), name, d)
  <2>1. name \in Suffixes(path)
    BY DEF Suffixes
  <2> QED
    BY <2>1, FindNameSubIs
<1>7. Agrees(path, i) <=> r = at[n] \/ (LeavesDirectories(path) /\ at[n] = NULL)
  BY DEF Agrees
<1>8. n \in e .. n
  BY <1>1, <1>2
<1>9. CASE m = {}
  <2>1. d \notin NoEnd => r = NULL
    BY <1>6, <1>9 DEF Call
  <2>2. at[e] = NULL /\ at[n] = NULL
    BY <1>3, <1>4, <1>8, <1>9
  <2>3. ASSUME d \in NoEnd PROVE LeavesDirectories(path)
    <3>1. e \in 1 .. n
      BY <1>1, <1>2
    <3>2. at[e-1] # NULL /\ at[e-1].data \notin DOMAIN Dir \ NoEnd
      BY <1>0, <2>3, NothingBehindNull
    <3> QED
      BY <2>2, <3>1, <3>2 DEF LeavesDirectories
  <2> QED
    BY <1>7, <2>1, <2>2, <2>3
<1>10. CASE m # {} /\ ~ HasSlash(name)
  <2>1. r = found
    BY <1>6, <1>10 DEF Call
  <2>2. e = n
    BY <1>10, OneComponent
  <2> QED
    BY <1>3, <1>7, <1>10, <2>1, <2>2
<1>11. CASE m # {} /\ HasSlash(name)
  <2>1. n > e /\ Slash(name) = e - i + 2
    BY <1>11, OneComponent
  <2>2. \/ rest = <<>> /\ \A j \in e + 1 .. n : path[j] = SLASH
        \/ \E f \in e + 2 .. n : /\ rest = SubSeq(path, f, n) /\ i < f /\ Starts(path, f)
                                 /\ \A j \in e + 1 .. f - 1 : path[j] = SLASH
    BY <1>2, <1>11, <2>1, RestIs
  <2>3. CASE rest = <<>> /\ \A j \in e + 1 .. n : path[j] = SLASH
    <3>1. r = found
      BY <1>6, <1>11, <2>3 DEF Call
    <3>2. at[n] = at[e]
      BY <1>5, <1>8, <2>3
    <3> QED
      BY <1>3, <1>7, <1>11, <3>1, <3>2
  <2>4. ASSUME NEW f \in e + 2 .. n, rest = SubSeq(path, f, n), i < f, Starts(path, f),
               \A j \in e + 1 .. f - 1 : path[j] = SLASH
        PROVE  Agrees(path, i)
    <3>1. f \in 1 .. n /\ f \in i+1 .. n /\ f - 1 \in e .. n /\ f \in Int
      BY <1>1, <1>2, <2>4
    <3>2. rest # <<>>
      BY <2>4, <3>1, SuffixIs
    <3>3. at[f-1] = found
      BY <1>3, <1>5, <1>11, <2>4, <3>1
    <3>4. CASE found.data \in DOMAIN Dir
      <4>1. r = FindNameSub(path)[rest][found.data]
        BY <1>6, <1>11, <3>2, <3>4 DEF Call
      <4>2. Agrees(path, f)
        BY <2>4, <3>1, <3>3, <3>4
      <4> QED
        BY <1>7, <2>4, <3>3, <4>1, <4>2 DEF Agrees
    <3>5. CASE found.data \notin DOMAIN Dir
      <4>1. found # NULL
        <5>1. m \in SUBSET Nat /\ m \subseteq DOMAIN Dir[d]
          BY DirTyped DEF Matches
        <5>2. FirstMatch(m) \in DOMAIN Dir[d]
          BY <1>11, <5>1, FirstMatchIsLeast
        <5>3. d \in DOMAIN Dir
          OBVIOUS
        <5> HIDE DEF d, m
        <5> QED
          BY <5>2, <5>3, EntriesAreNamed
      <4> DEFINE g == EndOf(path, f)
      <4>2. g \in f .. n /\ Ends(path, g) /\ \A j \in f .. g - 1 : ~ Ends(path, j)
        BY <2>4, <3>1, OneComponent
      <4> HIDE DEF g
      <4>3. /\ f - 1 \in 0 .. n /\ g - 1 \in f - 1 .. n /\ g \in 1 .. n /\ (f - 1) + 1 = f
            /\ g \in 0 .. n /\ n \in g .. n
        BY <1>1, <3>1, <4>2
      <4>4. at[g-1] = at[f-1]
        <5>1. f \in 1 .. Len(path) /\ g \in f .. Len(path) /\ \A j \in f .. g-1 : ~ Ends(path, j)
          BY <3>1, <4>2
        <5>2. WalkAt(path, FALSE)[g-1] = WalkAt(path, FALSE)[f-1]
          <6> HIDE DEF n, name, at, d, e, m, found, rest, r
          <6> QED
            BY <5>1, WalkStaysInside
        <5> QED
          BY <5>2
      <4>5. at[g] = Enter(at[f-1], Component(path, g), FALSE)
        BY <4>2, <4>3, <4>4, WalkStep
      <4>6. at[f-1] \in Entries
        BY <4>3, WalkStep
      <4>7. at[g] = NULL
        BY <3>3, <3>5, <4>5, <4>6, EnterTyped
      <4>8. at[n] = NULL
        BY <4>3, <4>7, NullStays
      <4>9. LeavesDirectories(path)
        BY <3>3, <3>5, <4>1, <4>3, <4>4, <4>7 DEF LeavesDirectories
      <4> QED
        BY <1>7, <4>8, <4>9
    <3> QED
      BY <3>4, <3>5
  <2> QED
    BY <2>2, <2>3, <2>4
<1> QED
  BY <1>9, <1>10, <1>11

\* Every call that a lookup can make agrees with the walk.
LEMMA AllCallsAgree ==
  ASSUME NEW path \in Seq(STRING), \A k \in 1 .. Len(path) : path[k] # END
  PROVE  \A i \in 1 .. Len(path) :
           Starts(path, i) /\ WalkAt(path, FALSE)[i-1].data \in DOMAIN Dir => Agrees(path, i)
<1> DEFINE n == Len(path)
           Holds(i) == Starts(path, i) /\ WalkAt(path, FALSE)[i-1].data \in DOMAIN Dir
                         => Agrees(path, i)
           Bad == {k \in Nat : k < n /\ ~ Holds(n - k)}
<1>1. n \in Nat
  OBVIOUS
<1>2. ASSUME NEW i \in 1 .. n, \A f \in i+1 .. n : Holds(f) PROVE Holds(i)
  BY <1>2, CallAgrees
<1> HIDE DEF Holds
<1>3. Bad = {}
  <2>1. SUFFICES ASSUME Bad # {} PROVE FALSE
    OBVIOUS
  <2>2. PICK k \in Bad : \A j \in Bad : k <= j
    BY <2>1, Least
  <2>3. k \in Nat /\ k < n /\ n - k \in 1 .. n
    BY <1>1, <2>2
  <2>4. ASSUME NEW f \in (n - k) + 1 .. n PROVE Holds(f)
    <3>1. n - f \in Nat /\ n - f < n /\ ~ k <= n - f /\ n - (n - f) = f
      BY <1>1, <2>3
    <3> QED
      BY <2>2, <3>1
  <2>5. Holds(n - k)
    BY <1>2, <2>3, <2>4
  <2> QED
    BY <2>2, <2>5
<1>4. ASSUME NEW i \in 1 .. n PROVE Holds(i)
  <2>1. n - i \in Nat /\ n - i < n /\ n - (n - i) = i
    BY <1>1
  <2> QED
    BY <1>3, <2>1
<1> QED
  BY <1>4 DEF Holds

\* The lookup of a whole path, with or without a slash in front.
LEMMA FindNameIsWalk ==
  ASSUME NEW path \in Seq(STRING), \A k \in 1 .. Len(path) : path[k] # END, path # <<>>
  PROVE  \/ FindName(path) = Walk(path, FALSE)
         \/ LeavesDirectories(path) /\ Walk(path, FALSE) = NULL
<1> DEFINE n == Len(path)
           at == WalkAt(path, FALSE)
<1>1. n \in Nat /\ at[0] = Dir[ROOT][1] /\ Walk(path, FALSE) = at[n]
  <2>1. n \in Nat
    OBVIOUS
  <2> QED
    BY <2>1, WalkStep DEF Walk
<1>2. ASSUME NEW b \in 0 .. n, \A j \in 1 .. b : path[j] = SLASH
      PROVE  at[b] = Dir[ROOT][1]
  <2>1. 0 \in 0 .. n /\ 0 + 1 = 1
    BY <1>1
  <2>2. \A j \in 0 + 1 .. b : ~ Ends(path, j)
    BY <1>2, <2>1 DEF Ends
  <2> QED
    BY <1>1, <2>1, <2>2, WalkStays
<1>3. CASE SkipSlashes(path) = <<>> /\ \A j \in 1 .. n : path[j] = SLASH
  <2>1. n \in 0 .. n
    BY <1>1
  <2> QED
    BY <1>1, <1>2, <1>3, <2>1 DEF FindName
<1>4. ASSUME NEW k \in 1 .. n, SkipSlashes(path) = SubSeq(path, k, n),
             path[k] # SLASH, \A j \in 1 .. k-1 : path[j] = SLASH
      PROVE  \/ FindName(path) = at[n]
             \/ LeavesDirectories(path) /\ at[n] = NULL
  <2>1. k \in Int /\ k - 1 \in 0 .. n /\ (k = 1 \/ k - 1 \in 1 .. k-1)
    BY <1>1
  <2>2. Starts(path, k)
    BY <1>4, <2>1 DEF Starts
  <2>3. at[k-1].data = ROOT
    BY <1>2, <1>4, <2>1, DirTyped
  <2>4. FindName(path) = FindNameSub(path)[SubSeq(path, k, n)][ROOT]
    BY <1>4, SuffixIs DEF FindName
  <2>5. Agrees(path, k)
    BY <2>2, <2>3, AllCallsAgree, FindNameAssumption
  <2> QED
    BY <2>3, <2>4, <2>5 DEF Agrees
<1> QED
  BY <1>1, <1>3, <1>4, SkipIs
----------------------------------------------------------------------------
\* The first entry with the name c is the first whose name c begins.
LEMMA EnterFull ==
  ASSUME NEW at \in Entries, NEW c \in Seq(STRING), Enter(at, c, TRUE) # NULL
  PROVE  Enter(at, c, TRUE) = Enter(at, c, FALSE)
<1> DEFINE d == at.data
           S == {i \in DOMAIN Dir[d] : c = Dir[d][i].name}
           T == {i \in DOMAIN Dir[d] : IsPrefix(c, Dir[d][i].name)}
           s == FirstMatch(S)
           t == FirstMatch(T)
<1>1. d \in DOMAIN Dir
  BY EnterTyped
<1>2. /\ Enter(at, c, TRUE) = IF S = {} THEN NULL ELSE Dir[d][s]
      /\ Enter(at, c, FALSE) = IF T = {} THEN NULL ELSE Dir[d][t]
  BY <1>1 DEF Enter, StandsFor
<1>3. S # {}
  BY <1>2
<1>4. S \subseteq T
  <2>1. IsPrefix(c, c)
    BY PrefixIs
  <2> QED
    BY <2>1
<1>5. S \in SUBSET Nat /\ T \in SUBSET Nat /\ T # {}
  BY <1>1, <1>3, <1>4, DirTyped
<1>6. s \in S /\ t \in T /\ t <= s
  <2> HIDE DEF S, T
  <2> QED
    BY <1>3, <1>4, <1>5, FirstMatchIsLeast
<1> HIDE DEF s, t
<1>7. ~ t < s
  <2>1. SUFFICES ASSUME t < s PROVE FALSE
    OBVIOUS
  <2>2. s \in Nat /\ t \in Nat /\ s \in DOMAIN Dir[d] /\ t \in DOMAIN Dir[d] /\ 1 <= t
    BY <1>1, <1>5, <1>6, DirTyped
  <2>3. t \in 1 .. s - 1
    BY <2>1, <2>2
  <2>4. ~ IsPrefix(Dir[d][s].name, Dir[d][t].name)
    BY <1>1, <2>2, <2>3, FindNameAssumption
  <2> QED
    BY <1>6, <2>4
<1>8. s \in Nat /\ t \in Nat
  BY <1>5, <1>6
<1>9. s = t
  BY <1>6, <1>7, <1>8
<1> QED
  BY <1>2, <1>3, <1>5, <1>9 DEF s, t

\* A component that ends somewhere is a string.
LEMMA EndedComponentTyped ==
  ASSUME NEW path \in Seq(STRING), NEW e \in 1 .. Len(path), Ends(path, e)
  PROVE  Component(path, e) \in Seq(STRING)
<1> DEFINE S == {i \in Nat : e - i >= 0 /\ i >= 1 /\ \A k \in i .. e : path[k] # SLASH}
           First(i) == (\A k \in i .. e : path[k] # SLASH) /\ (i = 1 \/ path[i-1] = SLASH)
<1>1. e \in Nat /\ 1 <= e /\ e <= Len(path) /\ Len(path) \in Nat
  OBVIOUS
<1>2. e \in S
  BY <1>1 DEF Ends
<1>3. PICK f \in S : \A j \in S : f <= j
  BY <1>2, Least
<1>4. f \in 1 .. e /\ f \in Int
  BY <1>1, <1>3
<1>5. First(f)
  <2>1. SUFFICES ASSUME f # 1, path[f-1] # SLASH PROVE FALSE
    BY <1>3
  <2>2. \A k \in f - 1 .. e : path[k] # SLASH
    <3> TAKE k \in f - 1 .. e
    <3>1. k = f - 1 \/ k \in f .. e
      BY <1>1, <1>4
    <3> QED
      BY <1>3, <2>1, <3>1
  <2>3. f - 1 \in S /\ ~ f <= f - 1
    BY <1>1, <1>4, <2>1, <2>2
  <2> QED
    BY <1>3, <2>3
<1> DEFINE c == CHOOSE i \in 1 .. e : First(i)
<1>6. c \in 1 .. e
  <2> HIDE DEF First
  <2> QED
    BY <1>4, <1>5
<1>7. Component(path, e) = SubSeq(path, c, e)
  BY DEF Component
<1> HIDE DEF c
<1>8. SubSeq(path, c, e) \in Seq(STRING)
  BY <1>1, <1>6
<1> QED
  BY <1>7, <1>8

\* Where full names lead somewhere, prefixes lead to the same entry.
LEMMA FullWalkIsWalk ==
  ASSUME NEW path \in Seq(STRING), Walk(path, TRUE) # NULL
  PROVE  Walk(path, FALSE) = Walk(path, TRUE)
<1> DEFINE n == Len(path)
           full == WalkAt(path, TRUE)
           at == WalkAt(path, FALSE)
           Bad == {k \in Nat : k \in 0 .. n /\ full[k] # NULL /\ at[k] # full[k]}
<1>1. n \in Nat
  OBVIOUS
<1>2. ASSUME NEW j \in 1 .. n, full[j] # NULL, full[j-1] # NULL => at[j-1] = full[j-1]
      PROVE  at[j] = full[j]
  <2>1. j - 1 \in 0 .. n
    BY <1>1
  <2>2. full[j-1] # NULL
    <3>1. SUFFICES ASSUME full[j-1] = NULL PROVE full[j] = NULL
      BY <1>2
    <3>2. j - 1 \in 0 .. n /\ j \in j-1 .. n
      BY <1>1
    <3> QED
      BY <3>1, <3>2, NullStays
  <2>3. at[j-1] = full[j-1] /\ full[j-1] \in Entries
    BY <1>2, <2>1, <2>2, WalkStep
  <2>4. CASE ~ Ends(path, j)
    BY <2>3, <2>4, WalkStep
  <2>5. CASE Ends(path, j)
    <3> DEFINE c == Component(path, j)
    <3>1. full[j] = Enter(full[j-1], c, TRUE) /\ at[j] = Enter(full[j-1], c, FALSE)
      BY <2>3, <2>5, WalkStep
    <3>2. c \in Seq(STRING)
      BY <2>5, EndedComponentTyped
    <3> QED
      BY <1>2, <2>3, <3>1, <3>2, EnterFull
  <2> QED
    BY <2>4, <2>5
<1>3. at[0] = full[0]
  BY WalkStep
<1> HIDE DEF full, at
<1>4. Bad = {}
  <2>1. SUFFICES ASSUME Bad # {} PROVE FALSE
    OBVIOUS
  <2>2. PICK k \in Bad : \A j \in Bad : k <= j
    BY <2>1, Least
  <2>3. k \in 1 .. n
    BY <1>1, <1>3, <2>2
  <2>4. k - 1 \in Nat /\ k - 1 \in 0 .. n /\ ~ k <= k - 1
    BY <1>1, <2>3
  <2>5. full[k-1] # NULL => at[k-1] = full[k-1]
    BY <2>2, <2>4
  <2> QED
    BY <1>2, <2>2, <2>3, <2>5
<1>5. n \in Nat /\ n \in 0 .. n
  BY <1>1
<1> QED
  BY <1>4, <1>5 DEF Walk, full, at
----------------------------------------------------------------------------
\* A word is compared with its final 0, so only the word itself agrees.
LEMMA IsWordIs ==
  ASSUME NEW s \in Seq(STRING), \A k \in 1 .. Len(s) : s[k] # END,
         NEW W \in SUBSET (OutWords \cup DirWords \cup CatWords)
  PROVE  IsWord(s, W) <=> s \in W
<1> DEFINE n == Len(s)
<1>1. n \in Nat /\ WORD \in Nat
  BY CommandAssumption
<1>2. ASSUME NEW w \in W
      PROVE  /\ w \in Seq(STRING) /\ Len(w) = WORD
             /\ \A k \in 1 .. WORD : w[k] # END
  <2>1. w \in Seq(STRING \ {SLASH, END}) /\ Len(w) = WORD
    BY CommandAssumption
  <2>2. \A k \in 1 .. Len(w) : w[k] \in STRING \ {SLASH, END}
    BY <2>1
  <2>3. w \in Seq(STRING)
    <3>1. STRING \ {SLASH, END} \subseteq STRING
      OBVIOUS
    <3> QED
      BY <2>1, <3>1, SeqMonotonic
  <2> QED
    BY <2>1, <2>2, <2>3
<1>3. ASSUME NEW w \in W, MyStrcmp(s, w, Len(w) + 1) PROVE s = w
  <2>1. \A k \in 1 .. WORD + 1 : Chars(s, WORD + 1)[k] = Chars(w, WORD + 1)[k]
    BY <1>2, <1>3 DEF MyStrcmp
  <2>2. \A k \in 1 .. WORD + 1 :
          (IF k <= n THEN s[k] ELSE END) = (IF k <= WORD THEN w[k] ELSE END)
    BY <1>2, <2>1 DEF Chars
  <2>3. ~ n > WORD
    <3>1. SUFFICES ASSUME n > WORD PROVE FALSE
      OBVIOUS
    <3>2. WORD + 1 \in 1 .. WORD + 1 /\ WORD + 1 <= n /\ ~ WORD + 1 <= WORD /\ WORD + 1 \in 1 .. n
      BY <1>1, <3>1
    <3>3. s[WORD + 1] = END
      BY <2>2, <3>2
    <3> QED
      BY <3>2, <3>3
  <2>4. ~ n < WORD
    <3>1. SUFFICES ASSUME n < WORD PROVE FALSE
      OBVIOUS
    <3>2. n + 1 \in 1 .. WORD + 1 /\ n + 1 <= WORD /\ ~ n + 1 <= n /\ n + 1 \in 1 .. WORD
      BY <1>1, <3>1
    <3>3. w[n + 1] = END
      BY <2>2, <3>2
    <3> QED
      BY <1>2, <3>2, <3>3
  <2>5. n = WORD
    BY <1>1, <2>3, <2>4
  <2>6. \A k \in 1 .. WORD : k \in 1 .. WORD + 1 /\ k <= WORD
    BY <1>1
  <2>7. \A k \in 1 .. WORD : s[k] = w[k]
    BY <2>2, <2>5, <2>6
  <2> QED
    BY <1>2, <2>5, <2>7, SeqEqual
<1>4. ASSUME s \in W PROVE IsWord(s, W)
  BY <1>4 DEF IsWord, MyStrcmp
<1> QED
  BY <1>3, <1>4 DEF IsWord

\* The walk along a command word finds nothing: no entry of the root has that
\* name.
LEMMA NoWordIsAnEntry ==
  ASSUME NEW w \in OutWords \cup DirWords
  PROVE  Walk(w, TRUE) = NULL
<1> DEFINE n == Len(w)
           at == WalkAt(w, TRUE)
<1>1. n \in Nat /\ n >= 1 /\ w \in Seq(STRING \ {SLASH, END})
  BY CommandAssumption
<1>2. w \in Seq(STRING) /\ \A k \in 1 .. n : w[k] # SLASH
  <2>1. STRING \ {SLASH, END} \subseteq STRING
    OBVIOUS
  <2>2. \A k \in 1 .. n : w[k] \in STRING \ {SLASH, END}
    BY <1>1
  <2> QED
    BY <1>1, <2>1, <2>2, SeqMonotonic
<1>3. 1 \in 1 .. n /\ n \in 1 .. n
  BY <1>1
<1>4. Starts(w, 1) /\ Ends(w, n) /\ \A j \in 1 .. n-1 : ~ Ends(w, j)
  <2>1. \A j \in 1 .. n-1 : j \in 1 .. n /\ j + 1 \in 1 .. n /\ j # n
    BY <1>1
  <2>2. SLASH # w[1] /\ SLASH # w[n]
    BY <1>2, <1>3
  <2> QED
    BY <1>2, <2>1, <2>2 DEF Starts, Ends
<1>5. Component(w, n) = w
  <2>1. Component(w, n) = SubSeq(w, 1, n)
    BY <1>2, <1>3, <1>4, ComponentIs
  <2> QED
    BY <1>2, <2>1
<1>6. at[n-1] = Dir[ROOT][1]
  <2>1. at[n-1] = at[1-1]
    BY <1>2, <1>3, <1>4, WalkStaysInside
  <2>2. 1 - 1 = 0
    OBVIOUS
  <2> QED
    BY <1>2, <2>1, <2>2, WalkStep
<1>7. at[n] = Enter(Dir[ROOT][1], w, TRUE)
  BY <1>2, <1>3, <1>4, <1>5, <1>6, WalkStep
<1>8. {i \in DOMAIN Dir[ROOT] : StandsFor(w, Dir[ROOT][i].name, TRUE)} = {}
  BY CommandAssumption DEF StandsFor
<1>9. at[n] = NULL
  BY <1>7, <1>8, DirTyped DEF Enter
<1> QED
  BY <1>9 DEF Walk
----------------------------------------------------------------------------
\* The line holds what was typed.
LineOK == line \in Seq(Keys)

\* The line that is typed holds keys only.
LEMMA LineTyped == Spec => []LineOK
<1>1. Init => LineOK
  BY EmptySeq DEF Init, LineOK
<1>2. LineOK /\ [Next]_line => LineOK'
  BY DEF LineOK, Next, TypeKey
<1> QED
  BY <1>1, <1>2, PTL DEF Spec

\* No key is the 0 that ends a string.
LEMMA NoZeroInLine ==
  ASSUME LineOK
  PROVE  line \in Seq(STRING) /\ \A k \in 1 .. Len(line) : line[k] # END
<1>1. Keys \subseteq STRING \ {END}
  BY CommandAssumption
<1>2. \A k \in 1 .. Len(line) : line[k] \in Keys
  BY DEF LineOK
<1>3. line \in Seq(STRING)
  BY <1>1, SeqMonotonic DEF LineOK
<1> QED
  BY <1>1, <1>2, <1>3

\* Whatever is typed and whatever the directories hold, FindName finds what the
\* walk along the components finds, for every path along which the search
\* stays inside the directories.
THEOREM LookupIsTheWalk == Spec => []FindsByComponents
<1>1. LineOK => FindsByComponents
  BY NoZeroInLine, FindNameIsWalk DEF FindsByComponents, FindName
<1> QED
  BY <1>1, LineTyped, PTL

\* A path of full names finds the entry they lead to.
THEOREM FullNamesAreFound == Spec => []FullNamesFound
<1>1. ASSUME LineOK, line # <<>>, Walk(line, TRUE) # NULL
      PROVE  FindName(line) = Walk(line, TRUE)
  <2>1. Walk(line, FALSE) = Walk(line, TRUE)
    BY <1>1, NoZeroInLine, FullWalkIsWalk
  <2> QED
    BY <1>1, <2>1, NoZeroInLine, FindNameIsWalk
<1>2. LineOK => FullNamesFound
  BY <1>1 DEF FullNamesFound
<1> QED
  BY <1>2, LineTyped, PTL

\* Only the word alone logs out, and the shell takes no name of an entry for
\* another command than cat.
THEOREM CommandsAreNotNames == Spec => []NamesAreNotCommands
<1>1. ASSUME LineOK
      PROVE  /\ IsWord(line, OutWords) <=> line \in OutWords
             /\ IsWord(line, DirWords) <=> line \in DirWords
  BY <1>1, NoZeroInLine, IsWordIs
<1>2. ASSUME LineOK PROVE Dispatch(line)[1] = "out" <=> line \in OutWords
  <2>1. <<>> \notin OutWords
    <3>1. Len(<<>>) = 0
      OBVIOUS
    <3> QED
      BY <3>1, CommandAssumption
  <2> QED
    BY <1>1, <1>2, <2>1 DEF Dispatch
<1>3. ASSUME LineOK, line # <<>>, Walk(line, TRUE) # NULL, ~ BeginsWith(line, CatWords)
      PROVE  Dispatch(line) = <<"run", line>>
  <2>1. line \notin OutWords /\ line \notin DirWords
    BY <1>3, NoWordIsAnEntry
  <2> QED
    BY <1>1, <1>3, <2>1 DEF Dispatch
<1>4. LineOK => NamesAreNotCommands
  BY <1>2, <1>3 DEF NamesAreNotCommands
<1> QED
  BY <1>4, LineTyped, PTL
=============================================================================
