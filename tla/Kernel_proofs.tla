--------------------------- MODULE Kernel_proofs ---------------------------
(***************************************************************************)
(* The theorems about Kernel!Spec, for every number of processes and       *)
(* semaphores, every capacity and every set of programs.                   *)
(*                                                                         *)
(* Type correctness, "every PID in one place" and "the scheduler always    *)
(* finds a process" are inductive together (IInv).  The proof cuts them    *)
(* along the queues: ReadyOK is about proc_q and the running process,      *)
(* UnusedOK about unused_q, AsleepOK about sleep_q, WaitOK about the wait  *)
(* queues, DataOK about the rest of the state.  Each is stated for the     *)
(* values that an ISR hands to Scheduler, so that SchedulerStep can be     *)
(* proved once.                                                            *)
(*                                                                         *)
(* NoLostExit and NobodyWaitsOnMail rest on IInv: each needs to know where *)
(* the PIDs are.  MemoryIsolation rests on PoolOK, which says what is left *)
(* of the pool of pages after Wait and Exit.  Two results are about single *)
(* steps: nobody is overtaken in proc_q, and the semaphores implement the  *)
(* abstract counting semaphore.  Then comes TimerSub: how late a sleeper   *)
(* can be, and that Timer says what the loop does.  The last part is about *)
(* MailHistory: mail is delivered in the order it was accepted.            *)
(***************************************************************************)
EXTENDS MailHistory, TimerSubLoop, TLAPS, FiniteSetTheorems, SequenceTheorems

\* First facts about sequences without repetition, the form every PID queue of
\* the kernel has, and about the queue operators of Process and Timer.
LEMMA RangeIsSubset ==
  ASSUME NEW S, NEW q \in Seq(S)
  PROVE  Range(q) \subseteq S
BY LenProperties DEF Range

LEMMA EmptyRange ==
  ASSUME NEW S, NEW q \in Seq(S)
  PROVE  q = <<>> <=> Range(q) = {}
<1>1. DOMAIN q = 1 .. Len(q) /\ Len(q) \in Nat
  BY LenProperties
<1>2. ASSUME Range(q) = {} PROVE q = <<>>
  <2>1. Len(q) = 0
    <3> SUFFICES ASSUME Len(q) # 0 PROVE FALSE
      OBVIOUS
    <3>1. 1 \in DOMAIN q
      BY <1>1
    <3> QED
      BY <1>2, <3>1 DEF Range
  <2>2. Len(q) \notin Nat \ {0}
    BY <2>1
  <2> QED
    BY <2>2, EmptySeq, Zenon
<1>3. ASSUME q = <<>> PROVE Range(q) = {}
  BY <1>3 DEF Range
<1> QED
  BY <1>2, <1>3

LEMMA AppendFacts ==
  ASSUME NEW S, NEW q \in Seq(S), NEW x \in S
  PROVE  /\ Append(q, x) \in Seq(S)
         /\ Range(Append(q, x)) = Range(q) \cup {x}
         /\ IsInjective(q) /\ x \notin Range(q) => IsInjective(Append(q, x))
<1> DEFINE r == Append(q, x)
<1>1. /\ Len(q) \in Nat
      /\ DOMAIN q = 1 .. Len(q)
      /\ r \in Seq(S)
      /\ DOMAIN r = 1 .. Len(q) + 1
      /\ \A i \in 1 .. Len(q) : r[i] = q[i]
      /\ r[Len(q) + 1] = x
  BY LenProperties
<1>2. Range(r) = Range(q) \cup {x}
  <2>1. \A y \in Range(r) : y \in Range(q) \cup {x}
    BY <1>1 DEF Range
  <2>2. \A y \in Range(q) : y \in Range(r)
    BY <1>1 DEF Range
  <2>3. x \in Range(r)
    BY <1>1 DEF Range
  <2> QED
    BY <2>1, <2>2, <2>3
<1>3. ASSUME IsInjective(q), x \notin Range(q) PROVE IsInjective(r)
  <2> SUFFICES ASSUME NEW i \in DOMAIN r, NEW j \in DOMAIN r, r[i] = r[j]
               PROVE  i = j
    BY DEF IsInjective
  <2>1. \A k \in 1 .. Len(q) : q[k] # x
    BY <1>1, <1>3 DEF Range
  <2> QED
    BY <1>1, <1>3, <2>1 DEF IsInjective
<1> QED
  BY <1>1, <1>2, <1>3

LEMMA HeadTailFacts ==
  ASSUME NEW S, NEW q \in Seq(S), q # <<>>
  PROVE  /\ Head(q) \in Range(q)
         /\ Head(q) \in S
         /\ Tail(q) \in Seq(S)
         /\ IsInjective(q) => /\ IsInjective(Tail(q))
                              /\ Range(Tail(q)) = Range(q) \ {Head(q)}
<1> DEFINE t == Tail(q)
<1>1. /\ Len(q) \in Nat \ {0}
      /\ DOMAIN q = 1 .. Len(q)
      /\ t \in Seq(S)
      /\ DOMAIN t = 1 .. Len(q) - 1
      /\ \A i \in 1 .. Len(q) - 1 : t[i] = q[i + 1]
      /\ Head(q) = q[1]
      /\ Head(q) \in S
  BY LenProperties, EmptySeq, HeadTailProperties
<1>2. Head(q) \in Range(q)
  BY <1>1 DEF Range
<1>3. ASSUME IsInjective(q) PROVE IsInjective(t) /\ Range(t) = Range(q) \ {Head(q)}
  <2>1. IsInjective(t)
    <3> SUFFICES ASSUME NEW i \in 1 .. Len(q) - 1, NEW j \in 1 .. Len(q) - 1,
                        q[i + 1] = q[j + 1]
                 PROVE  i = j
      BY <1>1 DEF IsInjective
    <3> QED
      BY <1>1, <1>3 DEF IsInjective
  <2>2. ASSUME NEW y \in Range(t) PROVE y \in Range(q) \ {Head(q)}
    <3>1. PICK i \in 1 .. Len(q) - 1 : y = q[i + 1]
      BY <1>1, <2>2 DEF Range
    <3> QED
      BY <1>1, <1>3, <3>1 DEF Range, IsInjective
  <2>3. ASSUME NEW y \in Range(q) \ {Head(q)} PROVE y \in Range(t)
    <3>1. PICK i \in 1 .. Len(q) : y = q[i]
      BY <1>1, <2>3 DEF Range
    <3>2. i # 1 /\ i - 1 \in 1 .. Len(q) - 1 /\ t[i - 1] = y
      BY <1>1, <2>3, <3>1
    <3> QED
      BY <1>1, <3>2 DEF Range
  <2> QED
    BY <2>1, <2>2, <2>3
<1> QED
  BY <1>1, <1>2, <1>3

LEMMA ConcatFacts ==
  ASSUME NEW S, NEW q \in Seq(S), NEW s \in Seq(S)
  PROVE  /\ q \o s \in Seq(S)
         /\ Range(q \o s) = Range(q) \cup Range(s)
         /\ IsInjective(q) /\ IsInjective(s) /\ Range(q) \cap Range(s) = {}
              => IsInjective(q \o s)
<1> DEFINE r == q \o s
<1>1. /\ Len(q) \in Nat /\ Len(s) \in Nat
      /\ DOMAIN q = 1 .. Len(q)
      /\ DOMAIN s = 1 .. Len(s)
      /\ r \in Seq(S)
      /\ DOMAIN r = 1 .. Len(q) + Len(s)
      /\ \A i \in 1 .. Len(q) + Len(s) :
           r[i] = IF i <= Len(q) THEN q[i] ELSE s[i - Len(q)]
  BY LenProperties, ConcatProperties
<1>2. ASSUME NEW y \in Range(r) PROVE y \in Range(q) \cup Range(s)
  <2>1. PICK i \in 1 .. Len(q) + Len(s) : y = r[i]
    BY <1>1, <1>2 DEF Range
  <2>2. CASE i <= Len(q)
    BY <1>1, <2>1, <2>2 DEF Range
  <2>3. CASE ~ (i <= Len(q))
    <3>1. i - Len(q) \in DOMAIN s /\ y = s[i - Len(q)]
      BY <1>1, <2>1, <2>3
    <3> QED
      BY <3>1 DEF Range
  <2> QED
    BY <2>2, <2>3
<1>3. ASSUME NEW y \in Range(q) \cup Range(s) PROVE y \in Range(r)
  <2>1. CASE y \in Range(q)
    BY <1>1, <2>1 DEF Range
  <2>2. CASE y \in Range(s)
    <3>1. PICK i \in 1 .. Len(s) : y = s[i]
      BY <1>1, <2>2 DEF Range
    <3>2. i + Len(q) \in DOMAIN r /\ r[i + Len(q)] = y
      BY <1>1, <3>1
    <3> QED
      BY <3>2 DEF Range
  <2> QED
    BY <1>3, <2>1, <2>2
<1>4. ASSUME IsInjective(q), IsInjective(s), Range(q) \cap Range(s) = {}
      PROVE  IsInjective(r)
  <2> SUFFICES ASSUME NEW i \in DOMAIN r, NEW j \in DOMAIN r, r[i] = r[j]
               PROVE  i = j
    BY DEF IsInjective
  <2>1. \A k \in DOMAIN q, l \in DOMAIN s : q[k] # s[l]
    BY <1>4 DEF Range
  <2>2. CASE i <= Len(q) /\ j <= Len(q)
    BY <1>1, <1>4, <2>2 DEF IsInjective
  <2>3. CASE i <= Len(q) /\ j > Len(q)
    <3>1. r[i] = q[i] /\ r[j] = s[j - Len(q)] /\ i \in DOMAIN q /\ j - Len(q) \in DOMAIN s
      BY <1>1, <2>3
    <3> QED
      BY <2>1, <3>1
  <2>4. CASE i > Len(q) /\ j <= Len(q)
    <3>1. r[j] = q[j] /\ r[i] = s[i - Len(q)] /\ j \in DOMAIN q /\ i - Len(q) \in DOMAIN s
      BY <1>1, <2>4
    <3> QED
      BY <2>1, <3>1
  <2>5. CASE i > Len(q) /\ j > Len(q)
    <3>1. /\ r[i] = s[i - Len(q)] /\ r[j] = s[j - Len(q)]
          /\ i - Len(q) \in DOMAIN s /\ j - Len(q) \in DOMAIN s
      BY <1>1, <2>5
    <3>2. i - Len(q) = j - Len(q)
      BY <1>4, <3>1 DEF IsInjective
    <3> QED
      BY <1>1, <3>2
  <2> QED
    BY <1>1, <2>2, <2>3, <2>4, <2>5
<1> QED
  BY <1>1, <1>2, <1>3, <1>4
-----------------------------------------------------------------------------
\* A queue of distinct PIDs is never longer than the process table, and is
\* shorter when some PID is not in it: an EnQ of that PID finds room.
LEMMA QueueFits ==
  ASSUME NEW q \in Seq(PID), IsInjective(q)
  PROVE  /\ Len(q) <= MAX_PROC
         /\ \A p \in PID \ Range(q) : Len(q) < MAX_PROC
<1>1. IsFiniteSet(PID) /\ Cardinality(PID) = MAX_PROC
  BY FS_Interval, ProcessAssumption DEF PID
<1>2. /\ Len(q) \in Nat
      /\ DOMAIN q = 1 .. Len(q)
      /\ q \in [1 .. Len(q) -> PID]
  BY LenProperties
<1>3. Cardinality(1 .. Len(q)) = Len(q)
  BY <1>2, FS_Interval
<1>4. q \in Injection(1 .. Len(q), PID)
  BY <1>2 DEF Injection
<1>5. Len(q) <= MAX_PROC
  BY <1>1, <1>3, <1>4, FS_Injection
<1>6. ASSUME NEW p \in PID \ Range(q) PROVE Len(q) < MAX_PROC
  <2>1. q \notin Surjection(1 .. Len(q), PID)
    BY <1>2, <1>6 DEF Surjection, Range
  <2>2. Len(q) # MAX_PROC
    BY <1>1, <1>3, <1>4, <2>1, FS_Injection
  <2>3. MAX_PROC \in Nat /\ Len(q) \in Nat
    BY <1>2, ProcessAssumption
  <2> QED
    BY <1>5, <2>2, <2>3
<1> QED
  BY <1>5, <1>6

\* EnQ of a PID that is not in the queue appends it.
LEMMA EnQFacts ==
  ASSUME NEW q \in Seq(PID), IsInjective(q), NEW p \in PID, p \notin Range(q)
  PROVE  /\ EnQ(p, q) = Append(q, p)
         /\ EnQ(p, q) \in Seq(PID)
         /\ IsInjective(EnQ(p, q))
         /\ Range(EnQ(p, q)) = Range(q) \cup {p}
<1>1. Len(q) < Q_SIZE
  BY QueueFits, LenProperties, ProcessAssumption
<1> QED
  BY <1>1, AppendFacts DEF EnQ

\* EnQAll of PIDs that are not in the queue appends all of them.
LEMMA EnQAllFacts ==
  ASSUME NEW q \in Seq(PID), IsInjective(q),
         NEW s \in Seq(PID), IsInjective(s),
         Range(q) \cap Range(s) = {}
  PROVE  /\ EnQAll(s, q) \in Seq(PID)
         /\ IsInjective(EnQAll(s, q))
         /\ Range(EnQAll(s, q)) = Range(q) \cup Range(s)
<1>1. q \o s \in Seq(PID) /\ IsInjective(q \o s)
  BY ConcatFacts
<1>2. Len(q \o s) <= MAX_PROC /\ Len(q \o s) = Len(q) + Len(s)
  BY <1>1, QueueFits, ConcatProperties
<1>3. Len(q) \in Nat /\ Len(s) \in Nat
  BY LenProperties
<1>4. Len(q) + Len(s) <= Q_SIZE
  BY <1>2, <1>3, ProcessAssumption
<1> QED
  BY <1>1, <1>4, ConcatFacts DEF EnQAll
-----------------------------------------------------------------------------
\* The rank of the members of a finite set of integers is a bijection, so
\* Nth(S, i) exists and Nth(S, _) is injective.
LEMMA NthFacts ==
  ASSUME NEW S \in SUBSET Int, IsFiniteSet(S)
  PROVE  /\ Cardinality(S) \in Nat
         /\ \A i \in 1 .. Cardinality(S) :
              Nth(S, i) \in S /\ Cardinality({k \in S : k <= Nth(S, i)}) = i
         /\ \A j \in S : \E i \in 1 .. Cardinality(S) : Nth(S, i) = j
<1> DEFINE n == Cardinality(S)
           upto(j) == {k \in S : k <= j}
           rank == [j \in S |-> Cardinality(upto(j))]
<1>1. n \in Nat
  BY FS_CardinalityType
<1>2. ASSUME NEW j \in S PROVE IsFiniteSet(upto(j)) /\ Cardinality(upto(j)) \in 1 .. n
  <2>1. IsFiniteSet(upto(j)) /\ Cardinality(upto(j)) <= n
    BY FS_Subset
  <2>2. Cardinality(upto(j)) \in Nat /\ Cardinality(upto(j)) # 0
    <3>1. j \in upto(j)
      OBVIOUS
    <3> QED
      BY <2>1, <3>1, FS_CardinalityType, FS_EmptySet
  <2> QED
    BY <1>1, <2>1, <2>2
<1>3. ASSUME NEW i \in S, NEW j \in S, Cardinality(upto(i)) = Cardinality(upto(j))
      PROVE  i = j
  <2>1. ASSUME NEW a \in S, NEW b \in S, a < b,
               Cardinality(upto(a)) = Cardinality(upto(b))
        PROVE  FALSE
    <3>1. \A k \in S : k \in Int
      OBVIOUS
    <3>2. b \in upto(b) /\ b \notin upto(a)
      BY <2>1, <3>1
    <3>3. ASSUME NEW k \in upto(a) PROVE k \in upto(b)
      <4>1. k \in S /\ k <= a /\ k \in Int /\ a \in Int /\ b \in Int
        BY <3>1, <3>3
      <4> QED
        BY <2>1, <4>1
    <3>4. IsFiniteSet(upto(b))
      BY <1>2
    <3>5. upto(a) = upto(b)
      BY <2>1, <3>3, <3>4, FS_Subset, Zenon
    <3> QED
      BY <3>2, <3>5
  <2> QED
    BY <1>3, <2>1
<1>4. rank \in Injection(S, 1 .. n)
  BY <1>2, <1>3 DEF Injection, IsInjective
<1>5. rank \in Surjection(S, 1 .. n)
  BY <1>1, <1>4, FS_Injection, FS_Interval
<1>6. ASSUME NEW i \in 1 .. n PROVE Nth(S, i) \in S /\ Cardinality(upto(Nth(S, i))) = i
  <2>1. \E j \in S : Cardinality(upto(j)) = i
    BY <1>5 DEF Surjection
  <2> QED
    BY <2>1 DEF Nth
<1>7. ASSUME NEW j \in S PROVE \E i \in 1 .. n : Nth(S, i) = j
  <2>1. Cardinality(upto(j)) \in 1 .. n
    BY <1>2
  <2>2. Nth(S, Cardinality(upto(j))) = j
    BY <1>3, <1>6, <2>1
  <2> QED
    BY <2>1, <2>2
<1> QED
  BY <1>1, <1>6, <1>7

\* Pick takes exactly the elements at the positions in S.
LEMMA PickFacts ==
  ASSUME NEW q \in Seq(PID), IsInjective(q), NEW S \in SUBSET DOMAIN q
  PROVE  /\ Pick(q, S) \in Seq(PID)
         /\ IsInjective(Pick(q, S))
         /\ Range(Pick(q, S)) = {q[j] : j \in S}
<1> DEFINE n == Cardinality(S)
           r == Pick(q, S)
<1>1. /\ DOMAIN q = 1 .. Len(q) /\ Len(q) \in Nat
      /\ \A j \in DOMAIN q : q[j] \in PID
  BY LenProperties
<1>2. S \in SUBSET Int /\ IsFiniteSet(S)
  <2>1. IsFiniteSet(1 .. Len(q))
    BY <1>1, FS_Interval
  <2> QED
    BY <1>1, <2>1, FS_Subset
<1>3. /\ n \in Nat
      /\ \A i \in 1 .. n : Nth(S, i) \in S /\ Cardinality({k \in S : k <= Nth(S, i)}) = i
      /\ \A j \in S : \E i \in 1 .. n : Nth(S, i) = j
  BY <1>2, NthFacts
<1>4. r = [i \in 1 .. n |-> q[Nth(S, i)]]
  BY DEF Pick
<1>5. r \in [1 .. n -> PID]
  BY <1>1, <1>3, <1>4
<1>6. r \in Seq(PID)
  BY <1>3, <1>5, SeqDef
<1>7. IsInjective(r)
  <2> SUFFICES ASSUME NEW i \in 1 .. n, NEW j \in 1 .. n,
                      q[Nth(S, i)] = q[Nth(S, j)]
               PROVE  i = j
    BY <1>4 DEF IsInjective
  <2>1. Nth(S, i) = Nth(S, j)
    BY <1>3 DEF IsInjective
  <2> QED
    BY <1>3, <2>1
<1>8. Range(r) = {q[j] : j \in S}
  <2>1. DOMAIN r = 1 .. n /\ \A i \in 1 .. n : r[i] = q[Nth(S, i)]
    BY <1>4
  <2>2. ASSUME NEW y \in Range(r) PROVE y \in {q[j] : j \in S}
    <3>1. PICK i \in 1 .. n : y = q[Nth(S, i)]
      <4> HIDE DEF r
      <4> QED
        BY <2>1, <2>2 DEF Range
    <3> QED
      BY <1>3, <3>1
  <2>3. ASSUME NEW j \in S PROVE q[j] \in Range(r)
    <3>1. PICK i \in 1 .. n : Nth(S, i) = j
      BY <1>3
    <3> HIDE DEF r
    <3> QED
      BY <2>1, <3>1 DEF Range
  <2> QED
    BY <2>2, <2>3
<1> QED
  BY <1>6, <1>7, <1>8
-----------------------------------------------------------------------------

IInv == TypeOK /\ EveryPidInOnePlace /\ NeverPanics

Runnable == {"READY", "RUN"}

ReadyOK(rp, pq, st) ==
  /\ rp \in PID \cup {NONE}
  /\ pq \in Seq(PID)
  /\ st \in [PID -> State]
  /\ IsInjective(pq)
  /\ rp # NONE => st[rp] = "RUN"
  /\ \A p \in PID : p \in Range(pq) <=> p # rp /\ st[p] \in Runnable
  /\ st[0] \in Runnable

UnusedOK(uq, st) ==
  /\ uq \in Seq(PID)
  /\ IsInjective(uq)
  /\ \A p \in PID : p \in Range(uq) <=> st[p] = "UNUSED"

AsleepOK(sl, st) ==
  /\ sl \in Seq(PID)
  /\ IsInjective(sl)
  /\ \A p \in PID : p \in Range(sl) <=> st[p] = "SLEEP"

WaitOK(ids, sw, mw, st) ==
  /\ ids \in Seq(SEM)
  /\ IsInjective(ids)
  /\ sw \in [SEM -> Seq(PID)]
  /\ mw \in [PID -> Seq(PID)]
  /\ \A s \in SEM : IsInjective(sw[s])
  /\ \A s \in Range(ids) : Range(sw[s]) = {}
  /\ \A x \in PID : mw[x] # <<>> => mw[x] = <<x>>
  /\ \A p \in PID : st[p] = "WAIT" <=> \/ \E s \in SEM : p \in Range(sw[s])
                                       \/ \E x \in PID : p \in Range(mw[x])
  /\ \A s, t \in SEM : s # t => Range(sw[s]) \cap Range(sw[t]) = {}
  /\ \A s \in SEM, x \in PID : Range(sw[s]) \cap Range(mw[x]) = {}

DataOK ==
  /\ system_time \in Time
  /\ time \in [PID -> 0 .. T_SLICE-1]
  /\ wake_time \in [PID -> Time]
  /\ pass_count \in [SEM -> Nat]
  /\ mbox \in [PID -> Seq(Message)]
  /\ buf \in [PID -> Message \cup {NoMessage}]
  /\ ppid \in [PID -> PID]
  /\ page_pid \in [Page -> PID \cup {NONE}]
  /\ page_addr \in [Page -> 0 .. NPAGES]
  /\ frames \in [PID -> SUBSET (0 .. NPAGES)]
  /\ reported \in [PID -> PID \cup {NONE}]

Places ==
  /\ run_pid # NONE
  /\ ReadyOK(run_pid, proc_q, state)
  /\ UnusedOK(unused_q, state)
  /\ AsleepOK(sleep_q, state)
  /\ WaitOK(semaphore_q, sem_wait_q, mbox_wait_q, state)
-----------------------------------------------------------------------------
LEMMA IInvInParts == IInv <=> Places /\ DataOK
<1>1. IInv => Places /\ DataOK
  BY DEF IInv, Places, DataOK, TypeOK, EveryPidInOnePlace, NeverPanics,
    ProcTypeOK, TimerTypeOK, SemTypeOK, MailTypeOK, QueuesMatchStates,
    NoDuplicates, OneWaitQueue, NoWaitersBeforeSemGet, OnSem, OnMbox,
    ReadyOK, UnusedOK, AsleepOK, WaitOK, Runnable
<1>2. Places /\ DataOK => IInv
  BY DEF IInv, Places, DataOK, TypeOK, EveryPidInOnePlace, NeverPanics,
    ProcTypeOK, TimerTypeOK, SemTypeOK, MailTypeOK, QueuesMatchStates,
    NoDuplicates, OneWaitQueue, NoWaitersBeforeSemGet, OnSem, OnMbox,
    ReadyOK, UnusedOK, AsleepOK, WaitOK, Runnable
<1> QED
  BY <1>1, <1>2

LEMMA WrapInTime ==
  ASSUME NEW t \in Int
  PROVE  Wrap(t) \in Time
<1> DEFINE m == 2 * TIME_MAX + 2
<1>1. TIME_MAX \in Nat /\ m \in Nat /\ m > 0 /\ t + TIME_MAX + 1 \in Int
  BY TimerAssumption
<1>2. (t + TIME_MAX + 1) % m \in 0 .. m - 1
  BY <1>1
<1> QED
  BY <1>1, <1>2 DEF Wrap, Time

LEMMA PidFacts == 0 \in PID /\ NONE \notin PID
BY ProcessAssumption DEF PID, NONE

\* Scheduler finds a process, and otherwise only exchanges READY and RUN.
LEMMA SchedulerFacts ==
  ASSUME NEW rp, NEW pq, NEW st, ReadyOK(rp, pq, st), Scheduler(rp, pq, st)
  PROVE  /\ run_pid' # NONE
         /\ ReadyOK(run_pid', proc_q', state')
         /\ \A p \in PID : state'[p] = st[p] \/ {state'[p], st[p]} \subseteq Runnable
<1>1. CASE rp # NONE
  BY <1>1 DEF Scheduler, ReadyOK
<1>2. CASE rp = NONE
  <2>1. 0 \in Range(pq)
    BY <1>2, PidFacts DEF ReadyOK
  <2>2. pq # <<>>
    BY <2>1, EmptyRange DEF ReadyOK
  <2>3. /\ run_pid' = Head(pq)
        /\ proc_q' = Tail(pq)
        /\ state' = [st EXCEPT ![Head(pq)] = "RUN"]
    BY <1>2, <2>2 DEF Scheduler
  <2>4. /\ Head(pq) \in Range(pq)
        /\ Head(pq) \in PID
        /\ Tail(pq) \in Seq(PID)
        /\ IsInjective(Tail(pq))
        /\ Range(Tail(pq)) = Range(pq) \ {Head(pq)}
    BY <2>2, HeadTailFacts DEF ReadyOK
  <2>5. state' \in [PID -> State] /\ state'[Head(pq)] = "RUN"
    BY <2>3, <2>4 DEF ReadyOK, State
  <2>6. st[Head(pq)] \in Runnable
    BY <2>4 DEF ReadyOK
  <2>7. \A p \in PID : p # Head(pq) => state'[p] = st[p]
    BY <2>3, <2>4 DEF ReadyOK
  <2>8. \A p \in PID : state'[p] \in Runnable <=> st[p] \in Runnable
    BY <2>5, <2>6, <2>7 DEF Runnable
  <2>9. ReadyOK(run_pid', proc_q', state')
    BY <1>2, <2>3, <2>4, <2>5, <2>8, PidFacts DEF ReadyOK
  <2> QED
    BY <2>3, <2>4, <2>5, <2>6, <2>7, <2>9, PidFacts DEF Runnable
<1> QED
  BY <1>1, <1>2

\* What each handler has to establish before it calls Scheduler.
LEMMA SchedulerStep ==
  ASSUME NEW rp, NEW pq, NEW st,
         ReadyOK(rp, pq, st),
         UnusedOK(unused_q', st),
         AsleepOK(sleep_q', st),
         WaitOK(semaphore_q', sem_wait_q', mbox_wait_q', st),
         Scheduler(rp, pq, st)
  PROVE  Places'
<1>1. /\ run_pid' # NONE
      /\ ReadyOK(run_pid', proc_q', state')
      /\ \A p \in PID : state'[p] = st[p] \/ {state'[p], st[p]} \subseteq Runnable
  BY SchedulerFacts
<1>2. \A p \in PID : /\ state'[p] = "UNUSED" <=> st[p] = "UNUSED"
                     /\ state'[p] = "SLEEP" <=> st[p] = "SLEEP"
                     /\ state'[p] = "WAIT" <=> st[p] = "WAIT"
  BY <1>1 DEF Runnable
<1>3. UnusedOK(unused_q', state')
  BY <1>2 DEF UnusedOK
<1>4. AsleepOK(sleep_q', state')
  BY <1>2 DEF AsleepOK
<1>5. WaitOK(semaphore_q', sem_wait_q', mbox_wait_q', state')
  BY <1>2 DEF WaitOK
<1> QED
  BY <1>1, <1>3, <1>4, <1>5 DEF Places

\* The wait queues, seen as sets, in terms of the mailbox owner.
LEMMA MboxWaiters ==
  ASSUME NEW ids, NEW sw, NEW mw, NEW st, WaitOK(ids, sw, mw, st), NEW x \in PID
  PROVE  /\ mw[x] = <<>> => Range(mw[x]) = {}
         /\ mw[x] # <<>> => Range(mw[x]) = {x} /\ Head(mw[x]) = x /\ Tail(mw[x]) = <<>>
<1>1. ASSUME mw[x] # <<>> PROVE Range(mw[x]) = {x} /\ Head(mw[x]) = x /\ Tail(mw[x]) = <<>>
  <2>1. mw[x] = <<x>>
    BY <1>1 DEF WaitOK
  <2> QED
    BY <2>1 DEF Range
<1>2. ASSUME mw[x] = <<>> PROVE Range(mw[x]) = {}
  BY <1>2 DEF Range
<1> QED
  BY <1>1, <1>2
-----------------------------------------------------------------------------
\* The running process is in no queue.
LEMMA RunningIsInNoQueue ==
  ASSUME Places
  PROVE  /\ run_pid \in PID /\ state[run_pid] = "RUN" /\ state \in [PID -> State]
         /\ run_pid \notin Range(proc_q)
         /\ run_pid \notin Range(unused_q)
         /\ run_pid \notin Range(sleep_q)
         /\ \A s \in SEM : run_pid \notin Range(sem_wait_q[s])
         /\ \A x \in PID : run_pid \notin Range(mbox_wait_q[x])
BY DEF Places, ReadyOK, UnusedOK, AsleepOK, WaitOK

\* InitProc makes no call that blocks.
LEMMA InitProcRuns ==
  ASSUME NEW c \in Blocking, MakesCall(c), Places
  PROVE  run_pid # 0
BY ProcessAssumption DEF MakesCall

\* Taking the running process off the processor leaves proc_q ready.
LEMMA RunningBlocks ==
  ASSUME Places, run_pid # 0, NEW v \in State \ Runnable
  PROVE  /\ ReadyOK(NONE, proc_q, [state EXCEPT ![run_pid] = v])
         /\ v # "UNUSED" => UnusedOK(unused_q, [state EXCEPT ![run_pid] = v])
         /\ v # "SLEEP" => AsleepOK(sleep_q, [state EXCEPT ![run_pid] = v])
         /\ v # "WAIT" => WaitOK(semaphore_q, sem_wait_q, mbox_wait_q,
                                  [state EXCEPT ![run_pid] = v])
<1> DEFINE st == [state EXCEPT ![run_pid] = v]
<1>1. /\ run_pid \in PID /\ state[run_pid] = "RUN"
      /\ run_pid \notin Range(proc_q)
      /\ st \in [PID -> State]
      /\ st[run_pid] = v
      /\ \A p \in PID : p # run_pid => st[p] = state[p]
  BY RunningIsInNoQueue
<1> HIDE DEF st
<1>2. ReadyOK(NONE, proc_q, st)
  BY <1>1, PidFacts DEF Places, ReadyOK, Runnable
<1>3. v # "UNUSED" => UnusedOK(unused_q, st)
  BY <1>1 DEF Places, UnusedOK
<1>4. v # "SLEEP" => AsleepOK(sleep_q, st)
  BY <1>1 DEF Places, AsleepOK
<1>5. v # "WAIT" => WaitOK(semaphore_q, sem_wait_q, mbox_wait_q, st)
  <2> SUFFICES ASSUME v # "WAIT"
               PROVE  \A p \in PID : st[p] = "WAIT" <=> state[p] = "WAIT"
    BY DEF Places, WaitOK
  <2> QED
    BY <1>1
<1> QED
  BY <1>2, <1>3, <1>4, <1>5 DEF st

\* A process that becomes ready is appended to proc_q.
LEMMA BecomesReady ==
  ASSUME NEW rp, NEW pq, NEW st, ReadyOK(rp, pq, st),
         NEW p \in PID, st[p] \notin Runnable, NEW v \in Runnable
  PROVE  ReadyOK(rp, EnQ(p, pq), [st EXCEPT ![p] = v])
<1> DEFINE st2 == [st EXCEPT ![p] = v]
<1>1. p \notin Range(pq) /\ p # rp
  BY PidFacts DEF ReadyOK, Runnable
<1>2. /\ EnQ(p, pq) \in Seq(PID)
      /\ IsInjective(EnQ(p, pq))
      /\ Range(EnQ(p, pq)) = Range(pq) \cup {p}
  BY <1>1, EnQFacts DEF ReadyOK
<1>3. /\ st2 \in [PID -> State]
      /\ st2[p] = v
      /\ \A r \in PID : r # p => st2[r] = st[r]
  BY DEF ReadyOK, Runnable, State
<1> HIDE DEF st2
<1>4. rp # NONE => rp \in PID /\ st2[rp] = "RUN"
  BY <1>1, <1>3 DEF ReadyOK
<1> SUFFICES ReadyOK(rp, EnQ(p, pq), st2)
  BY DEF st2
<1> QED
  BY <1>1, <1>2, <1>3, <1>4, PidFacts DEF ReadyOK
-----------------------------------------------------------------------------
LEMMA SleepStep ==
  ASSUME Places, DataOK, SleepIntr
  PROVE  Places' /\ DataOK'
<1>1. PICK seconds \in SleepArgs : SleepISR(seconds)
  BY DEF SleepIntr
<1> DEFINE st == [state EXCEPT ![run_pid] = "SLEEP"]
<1>2. run_pid # 0
  BY <1>1, InitProcRuns DEF SleepISR, Blocking
<1>3. /\ ReadyOK(NONE, proc_q, st)
      /\ UnusedOK(unused_q, st)
      /\ WaitOK(semaphore_q, sem_wait_q, mbox_wait_q, st)
  BY <1>2, RunningBlocks DEF State, Runnable
<1>4. AsleepOK(sleep_q', st)
  <2>1. /\ sleep_q' \in Seq(PID)
        /\ IsInjective(sleep_q')
        /\ Range(sleep_q') = Range(sleep_q) \cup {run_pid}
    BY <1>1, RunningIsInNoQueue, EnQFacts DEF SleepISR, Places, AsleepOK
  <2>2. \A p \in PID : st[p] = IF p = run_pid THEN "SLEEP" ELSE state[p]
    BY RunningIsInNoQueue
  <2> QED
    BY <2>1, <2>2 DEF Places, AsleepOK
<1>5. Places'
  <2>1. /\ UNCHANGED <<unused_q, semaphore_q, sem_wait_q, mbox_wait_q>>
        /\ Scheduler(NONE, proc_q, st)
    BY <1>1 DEF SleepISR, SleepIntr, semVars, mailVars
  <2> HIDE DEF st
  <2> QED
    BY <1>3, <1>4, <2>1, SchedulerStep
<1>6. DataOK'
  <2>1. system_time \in Int /\ seconds * TICKS \in Int
    BY TimerAssumption DEF DataOK, Time
  <2>2. Wrap(system_time + seconds * TICKS) \in Time
    BY <2>1, WrapInTime
  <2>3. wake_time' \in [PID -> Time]
    BY <1>1, <2>2 DEF SleepISR, DataOK
  <2> QED
    BY <1>1, <2>3 DEF SleepIntr, SleepISR, semVars, mailVars, pageVars, DataOK
<1> QED
  BY <1>5, <1>6
-----------------------------------------------------------------------------
\* The end of a slice moves the running process to the tail of proc_q.
LEMMA Preempted ==
  ASSUME NEW rp \in PID, NEW pq, NEW st, ReadyOK(rp, pq, st)
  PROVE  ReadyOK(NONE, EnQ(rp, pq), [st EXCEPT ![rp] = "READY"])
<1> DEFINE st2 == [st EXCEPT ![rp] = "READY"]
<1>1. rp \notin Range(pq) /\ rp # NONE
  BY PidFacts DEF ReadyOK
<1>2. /\ EnQ(rp, pq) \in Seq(PID)
      /\ IsInjective(EnQ(rp, pq))
      /\ Range(EnQ(rp, pq)) = Range(pq) \cup {rp}
  BY <1>1, EnQFacts DEF ReadyOK
<1>3. /\ st2 \in [PID -> State]
      /\ st2[rp] = "READY"
      /\ \A r \in PID : r # rp => st2[r] = st[r]
  BY DEF ReadyOK, State
<1> HIDE DEF st2
<1> SUFFICES ReadyOK(NONE, EnQ(rp, pq), st2)
  BY DEF st2
<1> QED
  BY <1>1, <1>2, <1>3, PidFacts DEF ReadyOK, Runnable

\* TimerSub splits the sleepers into those it wakes and those that stay.
LEMMA TickSplitsSleepers ==
  ASSUME NEW now \in Int, Places
  PROVE  /\ Woken(now) \in Seq(PID) /\ IsInjective(Woken(now))
         /\ StillAsleep(now) \in Seq(PID) /\ IsInjective(StillAsleep(now))
         /\ Range(Woken(now)) \subseteq Range(sleep_q)
         /\ Range(StillAsleep(now)) = Range(sleep_q) \ Range(Woken(now))
<1> DEFINE rest == DOMAIN sleep_q \ Examined(now)
           kept == Examined(now) \ WokenAt(now)
<1>1. sleep_q \in Seq(PID) /\ IsInjective(sleep_q)
  BY DEF Places, AsleepOK
<1>2. /\ WokenAt(now) \subseteq Examined(now)
      /\ Examined(now) \subseteq DOMAIN sleep_q
  BY DEF WokenAt, Examined
<1>3. /\ Woken(now) \in Seq(PID) /\ IsInjective(Woken(now))
      /\ Range(Woken(now)) = {sleep_q[j] : j \in WokenAt(now)}
  BY <1>1, <1>2, PickFacts DEF Woken
<1>4. /\ Pick(sleep_q, rest) \in Seq(PID) /\ IsInjective(Pick(sleep_q, rest))
      /\ Range(Pick(sleep_q, rest)) = {sleep_q[j] : j \in rest}
  BY <1>1, <1>2, PickFacts
<1>5. /\ Pick(sleep_q, kept) \in Seq(PID) /\ IsInjective(Pick(sleep_q, kept))
      /\ Range(Pick(sleep_q, kept)) = {sleep_q[j] : j \in kept}
  BY <1>1, <1>2, PickFacts
<1>6. \A i, j \in DOMAIN sleep_q : sleep_q[i] = sleep_q[j] => i = j
  BY <1>1 DEF IsInjective
<1>7. Range(Pick(sleep_q, rest)) \cap Range(Pick(sleep_q, kept)) = {}
  BY <1>2, <1>4, <1>5, <1>6
<1>8. /\ StillAsleep(now) \in Seq(PID) /\ IsInjective(StillAsleep(now))
      /\ Range(StillAsleep(now))
           = Range(Pick(sleep_q, rest)) \cup Range(Pick(sleep_q, kept))
  BY <1>4, <1>5, <1>7, ConcatFacts DEF StillAsleep
<1>9. Range(sleep_q) = {sleep_q[j] : j \in DOMAIN sleep_q}
  BY DEF Range
<1>10. Range(StillAsleep(now)) = {sleep_q[j] : j \in DOMAIN sleep_q \ WokenAt(now)}
  BY <1>2, <1>4, <1>5, <1>8
<1>11. {sleep_q[j] : j \in DOMAIN sleep_q \ WokenAt(now)}
         = {sleep_q[j] : j \in DOMAIN sleep_q} \ {sleep_q[j] : j \in WokenAt(now)}
  BY <1>2, <1>6
<1> QED
  BY <1>2, <1>3, <1>8, <1>9, <1>10, <1>11

\* The queues after TimerSub.
LEMMA TickFacts ==
  ASSUME NEW now \in Int, Places, sleep_q' = StillAsleep(now)
  PROVE  /\ ReadyOK(run_pid, EnQAll(Woken(now), proc_q), StateAfterTick(now))
         /\ UnusedOK(unused_q, StateAfterTick(now))
         /\ AsleepOK(sleep_q', StateAfterTick(now))
         /\ WaitOK(semaphore_q, sem_wait_q, mbox_wait_q, StateAfterTick(now))
<1> DEFINE st == StateAfterTick(now)
           W == Range(Woken(now))
<1>1. /\ Woken(now) \in Seq(PID) /\ IsInjective(Woken(now))
      /\ StillAsleep(now) \in Seq(PID) /\ IsInjective(StillAsleep(now))
      /\ W \subseteq Range(sleep_q)
      /\ Range(StillAsleep(now)) = Range(sleep_q) \ W
  BY TickSplitsSleepers
<1>2. \A p \in PID : p \in Range(sleep_q) <=> state[p] = "SLEEP"
  BY DEF Places, AsleepOK
<1>3. \A p \in PID : p \in W => state[p] = "SLEEP"
  BY <1>1, <1>2
<1>4. /\ st \in [PID -> State]
      /\ \A p \in PID : st[p] = IF p \in W THEN "READY" ELSE state[p]
  BY DEF StateAfterTick, Places, ReadyOK, State
<1> HIDE DEF st
<1>5. Range(proc_q) \cap W = {}
  <2>1. Range(proc_q) \subseteq PID
    BY RangeIsSubset DEF Places, ReadyOK
  <2> QED
    BY <1>3, <2>1 DEF Places, ReadyOK, Runnable
<1>6. /\ EnQAll(Woken(now), proc_q) \in Seq(PID)
      /\ IsInjective(EnQAll(Woken(now), proc_q))
      /\ Range(EnQAll(Woken(now), proc_q)) = Range(proc_q) \cup W
  BY <1>1, <1>5, EnQAllFacts DEF Places, ReadyOK
<1>7. ReadyOK(run_pid, EnQAll(Woken(now), proc_q), st)
  <2>1. st[run_pid] = "RUN" /\ run_pid \in PID /\ run_pid \notin W
    BY <1>3, <1>4, RunningIsInNoQueue
  <2>2. \A p \in PID : p \in W => st[p] = "READY" /\ p # run_pid
    BY <1>4, <2>1
  <2>3. \A p \in PID : p \notin W => st[p] = state[p]
    BY <1>4
  <2>4. st[0] \in Runnable
    BY <2>2, <2>3, PidFacts DEF Places, ReadyOK, Runnable
  <2>5. \A p \in PID : p \in Range(proc_q) \cup W <=> p # run_pid /\ st[p] \in Runnable
    BY <2>2, <2>3 DEF Places, ReadyOK, Runnable
  <2> QED
    BY <1>4, <1>6, <2>1, <2>4, <2>5 DEF ReadyOK
<1>8. UnusedOK(unused_q, st)
  BY <1>3, <1>4 DEF Places, UnusedOK
<1>9. AsleepOK(sleep_q', st)
  BY <1>1, <1>2, <1>3, <1>4 DEF AsleepOK
<1>10. WaitOK(semaphore_q, sem_wait_q, mbox_wait_q, st)
  <2>1. \A p \in PID : st[p] = "WAIT" <=> state[p] = "WAIT"
    BY <1>3, <1>4
  <2> QED
    BY <2>1 DEF Places, WaitOK
<1> QED
  BY <1>7, <1>8, <1>9, <1>10 DEF st

LEMMA TimerStep ==
  ASSUME Places, DataOK, TimerIntr
  PROVE  Places' /\ DataOK'
<1> DEFINE now == Wrap(system_time + 1)
           st == StateAfterTick(now)
           pq == EnQAll(Woken(now), proc_q)
           st2 == [st EXCEPT ![run_pid] = "READY"]
<1>1. now \in Time /\ now \in Int
  BY WrapInTime DEF DataOK, Time
<1>2. Tick(now) /\ UNCHANGED <<semVars, mailVars, pageVars>>
  BY DEF TimerIntr, TimerISR, TickInSlice, EndOfSlice
<1>3. /\ sleep_q' = StillAsleep(now)
      /\ UNCHANGED <<unused_q, semaphore_q, sem_wait_q, mbox_wait_q>>
  BY <1>2 DEF Tick, semVars, mailVars
<1>4. /\ ReadyOK(run_pid, pq, st)
      /\ UnusedOK(unused_q, st)
      /\ AsleepOK(sleep_q', st)
      /\ WaitOK(semaphore_q, sem_wait_q, mbox_wait_q, st)
  BY <1>1, <1>3, TickFacts
<1>5. ASSUME TickInSlice PROVE Places' /\ time' \in [PID -> 0 .. T_SLICE-1]
  <2>1. Scheduler(run_pid, pq, st)
    BY <1>5 DEF TickInSlice
  <2>2. Places'
    <3> HIDE DEF st, pq, now
    <3> QED
      BY <1>3, <1>4, <2>1, SchedulerStep
  <2>3. time' \in [PID -> 0 .. T_SLICE-1]
    <3>1. /\ time' = [time EXCEPT ![run_pid] = @ + 1]
          /\ time[run_pid] + 1 # T_SLICE
      BY <1>5 DEF TickInSlice
    <3>2. time \in [PID -> 0 .. T_SLICE-1] /\ time[run_pid] \in 0 .. T_SLICE-1
      BY RunningIsInNoQueue DEF DataOK
    <3>3. time[run_pid] + 1 \in 0 .. T_SLICE-1
      BY <3>1, <3>2, TimerAssumption
    <3> QED
      BY <3>1, <3>2, <3>3
  <2> QED
    BY <2>2, <2>3
<1>6. ASSUME EndOfSlice PROVE Places' /\ time' \in [PID -> 0 .. T_SLICE-1]
  <2>1. Scheduler(NONE, EnQ(run_pid, pq), st2)
    BY <1>6 DEF EndOfSlice
  <2> HIDE DEF st, pq, now
  <2>2. run_pid \in PID
    BY RunningIsInNoQueue
  <2>3. ReadyOK(NONE, EnQ(run_pid, pq), st2)
    BY <1>4, <2>2, Preempted
  <2>4. /\ st[run_pid] = "RUN"
        /\ st \in [PID -> State]
    BY <1>4, <2>2, PidFacts DEF ReadyOK
  <2>5. \A p \in PID : /\ st2[p] = "UNUSED" <=> st[p] = "UNUSED"
                       /\ st2[p] = "SLEEP" <=> st[p] = "SLEEP"
                       /\ st2[p] = "WAIT" <=> st[p] = "WAIT"
    BY <2>2, <2>4
  <2> HIDE DEF st2
  <2>6. /\ UnusedOK(unused_q', st2)
        /\ AsleepOK(sleep_q', st2)
        /\ WaitOK(semaphore_q', sem_wait_q', mbox_wait_q', st2)
    <3>1. UnusedOK(unused_q', st2)
      BY <1>3, <1>4, <2>5 DEF UnusedOK
    <3>2. AsleepOK(sleep_q', st2)
      BY <1>4, <2>5 DEF AsleepOK
    <3>3. WaitOK(semaphore_q', sem_wait_q', mbox_wait_q', st2)
      BY <1>3, <1>4, <2>5 DEF WaitOK
    <3> QED
      BY <3>1, <3>2, <3>3
  <2>7. Places'
    BY <2>1, <2>3, <2>6, SchedulerStep
  <2>8. time' \in [PID -> 0 .. T_SLICE-1]
    <3>1. time' = [time EXCEPT ![run_pid] = 0]
      BY <1>6 DEF EndOfSlice
    <3>2. time \in [PID -> 0 .. T_SLICE-1] /\ 0 \in 0 .. T_SLICE-1
      BY TimerAssumption DEF DataOK
    <3> QED
      BY <3>1, <3>2
  <2> QED
    BY <2>7, <2>8
<1>7. Places' /\ time' \in [PID -> 0 .. T_SLICE-1]
  BY <1>5, <1>6 DEF TimerIntr, TimerISR
<1> QED
  BY <1>1, <1>2, <1>7 DEF Tick, DataOK, semVars, mailVars, pageVars
-----------------------------------------------------------------------------
LEMMA SemIdFacts ==
  ASSUME Places, semaphore_q # <<>>
  PROVE  /\ Head(semaphore_q) \in SEM
         /\ Head(semaphore_q) \in Range(semaphore_q)
         /\ Tail(semaphore_q) \in Seq(SEM)
         /\ IsInjective(Tail(semaphore_q))
         /\ Range(Tail(semaphore_q)) \subseteq Range(semaphore_q)
BY HeadTailFacts DEF Places, WaitOK

LEMMA SemGetStep ==
  ASSUME Places, DataOK, SemGetISR, UNCHANGED <<mailVars, pageVars>>
  PROVE  Places' /\ DataOK'
<1> DEFINE id == Head(semaphore_q)
<1>1. /\ semaphore_q' = Tail(semaphore_q)
      /\ pass_count' = [pass_count EXCEPT ![id] = 0]
      /\ sem_wait_q' = [sem_wait_q EXCEPT ![id] = <<>>]
      /\ UNCHANGED <<procVars, timerVars, mailVars, pageVars>>
      /\ semaphore_q # <<>>
  BY DEF SemGetISR
<1>2. /\ id \in SEM
      /\ id \in Range(semaphore_q)
      /\ semaphore_q' \in Seq(SEM)
      /\ IsInjective(semaphore_q')
      /\ Range(semaphore_q') \subseteq Range(semaphore_q)
  BY <1>1, SemIdFacts
<1> HIDE DEF id
\* The id had no waiters, so nothing is forgotten.
<1>3. sem_wait_q[id] = <<>>
  <2>1. Range(sem_wait_q[id]) = {} /\ sem_wait_q[id] \in Seq(PID)
    BY <1>2 DEF Places, WaitOK
  <2> QED
    BY <2>1, EmptyRange
<1>4. sem_wait_q' = sem_wait_q
  BY <1>1, <1>2, <1>3 DEF Places, WaitOK
<1>5. WaitOK(semaphore_q', sem_wait_q', mbox_wait_q', state')
  BY <1>1, <1>2, <1>4 DEF Places, WaitOK, procVars, mailVars
<1>6. Places'
  BY <1>1, <1>5 DEF Places, procVars, timerVars
<1>7. DataOK'
  BY <1>1, <1>2 DEF DataOK, timerVars, mailVars, pageVars
<1> QED
  BY <1>6, <1>7

\* Waking the first waiter of a semaphore.
LEMMA WakeSemWaiter ==
  ASSUME Places, NEW s \in SEM, sem_wait_q[s] # <<>>,
         NEW p, p = Head(sem_wait_q[s]),
         NEW sw, sw = [sem_wait_q EXCEPT ![s] = Tail(@)],
         NEW st, st = [state EXCEPT ![p] = "READY"]
  PROVE  /\ ReadyOK(run_pid, EnQ(p, proc_q), st)
         /\ UnusedOK(unused_q, st)
         /\ AsleepOK(sleep_q, st)
         /\ WaitOK(semaphore_q, sw, mbox_wait_q, st)
<1>1. /\ p \in PID /\ p \in Range(sem_wait_q[s])
      /\ Tail(sem_wait_q[s]) \in Seq(PID)
      /\ IsInjective(Tail(sem_wait_q[s]))
      /\ Range(Tail(sem_wait_q[s])) = Range(sem_wait_q[s]) \ {p}
  BY HeadTailFacts DEF Places, WaitOK
<1>2. state[p] = "WAIT"
  BY <1>1 DEF Places, WaitOK
<1>3. ReadyOK(run_pid, EnQ(p, proc_q), st)
  BY <1>1, <1>2, BecomesReady DEF Places, Runnable
<1>4. \A r \in PID : st[r] = IF r = p THEN "READY" ELSE state[r]
  BY <1>1 DEF Places, ReadyOK
<1>5. UnusedOK(unused_q, st)
  BY <1>2, <1>4 DEF Places, UnusedOK
<1>6. AsleepOK(sleep_q, st)
  BY <1>2, <1>4 DEF Places, AsleepOK
<1>7. WaitOK(semaphore_q, sw, mbox_wait_q, st)
  <2>1. /\ sw \in [SEM -> Seq(PID)]
        /\ \A t \in SEM : IsInjective(sw[t])
        /\ \A t \in SEM : Range(sw[t]) = Range(sem_wait_q[t]) \ {p}
    <3>1. \A t \in SEM : t # s => p \notin Range(sem_wait_q[t])
      BY <1>1 DEF Places, WaitOK
    <3> QED
      BY <1>1, <3>1 DEF Places, WaitOK
  <2>2. \A x \in PID : p \notin Range(mbox_wait_q[x])
    BY <1>1 DEF Places, WaitOK
  <2>3. \A r \in PID : st[r] = "WAIT" <=>
          \/ \E t \in SEM : r \in Range(sw[t])
          \/ \E x \in PID : r \in Range(mbox_wait_q[x])
    <3>1. \A r \in PID : state[r] = "WAIT" <=>
            \/ \E t \in SEM : r \in Range(sem_wait_q[t])
            \/ \E x \in PID : r \in Range(mbox_wait_q[x])
      BY DEF Places, WaitOK
    <3>2. st[p] # "WAIT" /\ \A r \in PID : r # p => st[r] = state[r]
      BY <1>1, <1>4
    <3>3. \A r \in PID, t \in SEM : r # p => (r \in Range(sw[t]) <=> r \in Range(sem_wait_q[t]))
      BY <2>1
    <3>4. \A t \in SEM : p \notin Range(sw[t])
      BY <2>1
    <3> QED
      BY <2>2, <3>1, <3>2, <3>3, <3>4
  <2>4. \A t \in SEM : Range(sw[t]) \subseteq Range(sem_wait_q[t])
    BY <2>1
  <2>5. Range(semaphore_q) \subseteq SEM
    BY RangeIsSubset DEF Places, WaitOK
  <2>6. \A t \in Range(semaphore_q) : Range(sw[t]) = {}
    BY <2>4, <2>5 DEF Places, WaitOK
  <2>7. \A t, u \in SEM : t # u => Range(sw[t]) \cap Range(sw[u]) = {}
    BY <2>4 DEF Places, WaitOK
  <2>8. \A t \in SEM, x \in PID : Range(sw[t]) \cap Range(mbox_wait_q[x]) = {}
    BY <2>4 DEF Places, WaitOK
  <2> QED
    BY <2>1, <2>3, <2>6, <2>7, <2>8 DEF Places, WaitOK
<1> QED
  BY <1>3, <1>5, <1>6, <1>7

LEMMA PostStep ==
  ASSUME Places, DataOK, NEW s \in SEM, SemPostISR(s),
         UNCHANGED <<mailVars, pageVars>>
  PROVE  Places' /\ DataOK'
<1>1. UNCHANGED <<semaphore_q, timerVars, mailVars, pageVars>>
  BY DEF SemPostISR
<1>2. CASE PostLeavesPass(s)
  BY <1>1, <1>2 DEF PostLeavesPass, Places, DataOK, procVars, timerVars,
                    mailVars, pageVars
<1>3. CASE PostWakes(s)
  <2> DEFINE p == Head(sem_wait_q[s])
             st == [state EXCEPT ![p] = "READY"]
  <2>1. /\ sem_wait_q[s] # <<>>
        /\ sem_wait_q' = [sem_wait_q EXCEPT ![s] = Tail(@)]
        /\ Scheduler(run_pid, EnQ(p, proc_q), st)
        /\ UNCHANGED <<pass_count, unused_q>>
    BY <1>3 DEF PostWakes
  <2>2. /\ ReadyOK(run_pid, EnQ(p, proc_q), st)
        /\ UnusedOK(unused_q, st)
        /\ AsleepOK(sleep_q, st)
        /\ WaitOK(semaphore_q, sem_wait_q', mbox_wait_q, st)
    BY <2>1, WakeSemWaiter
  <2> HIDE DEF p, st
  <2>3. /\ unused_q' = unused_q /\ sleep_q' = sleep_q
        /\ semaphore_q' = semaphore_q /\ mbox_wait_q' = mbox_wait_q
    BY <1>1, <2>1 DEF timerVars, mailVars
  <2>4. Places'
    BY <2>1, <2>2, <2>3, SchedulerStep
  <2>5. DataOK'
    BY <1>1, <2>1 DEF DataOK, timerVars, mailVars, pageVars
  <2> QED
    BY <2>4, <2>5
<1> QED
  BY <1>2, <1>3 DEF SemPostISR

LEMMA SemWaitStep ==
  ASSUME Places, DataOK, NEW s \in SEM, SemWaitISR(s),
         UNCHANGED <<mailVars, pageVars>>
  PROVE  Places' /\ DataOK'
<1>1. UNCHANGED <<semaphore_q, timerVars, mailVars, pageVars>>
  BY DEF SemWaitISR
<1>2. CASE WaitTakesPass(s)
  BY <1>1, <1>2 DEF WaitTakesPass, Places, DataOK, procVars, timerVars,
                    mailVars, pageVars
<1>3. CASE WaitBlocks(s)
  <2> DEFINE st == [state EXCEPT ![run_pid] = "WAIT"]
  <2>1. /\ sem_wait_q' = [sem_wait_q EXCEPT ![s] = EnQ(run_pid, @)]
        /\ Scheduler(NONE, proc_q, st)
        /\ UNCHANGED <<pass_count, unused_q>>
    BY <1>3 DEF WaitBlocks
  <2>2. run_pid # 0
    BY InitProcRuns DEF SemWaitISR, Blocking
  <2>3. /\ ReadyOK(NONE, proc_q, st)
        /\ UnusedOK(unused_q, st)
        /\ AsleepOK(sleep_q, st)
    BY <2>2, RunningBlocks DEF State, Runnable
  <2>4. \A p \in PID : st[p] = IF p = run_pid THEN "WAIT" ELSE state[p]
    BY RunningIsInNoQueue
  <2> HIDE DEF st
  <2>5. WaitOK(semaphore_q, sem_wait_q', mbox_wait_q, st)
    <3>1. /\ run_pid \in PID
          /\ \A t \in SEM : run_pid \notin Range(sem_wait_q[t])
          /\ \A x \in PID : run_pid \notin Range(mbox_wait_q[x])
      BY RunningIsInNoQueue
    <3>2. /\ EnQ(run_pid, sem_wait_q[s]) \in Seq(PID)
          /\ IsInjective(EnQ(run_pid, sem_wait_q[s]))
          /\ Range(EnQ(run_pid, sem_wait_q[s])) = Range(sem_wait_q[s]) \cup {run_pid}
      BY <3>1, EnQFacts DEF Places, WaitOK
    <3>3. /\ sem_wait_q' \in [SEM -> Seq(PID)]
          /\ \A t \in SEM : IsInjective(sem_wait_q'[t])
          /\ Range(sem_wait_q'[s]) = Range(sem_wait_q[s]) \cup {run_pid}
          /\ \A t \in SEM : t # s => Range(sem_wait_q'[t]) = Range(sem_wait_q[t])
      <4>1. sem_wait_q'[s] = EnQ(run_pid, sem_wait_q[s])
        BY <2>1 DEF Places, WaitOK
      <4>2. \A t \in SEM : t # s => sem_wait_q'[t] = sem_wait_q[t]
        BY <2>1 DEF Places, WaitOK
      <4>3. sem_wait_q' \in [SEM -> Seq(PID)]
        BY <2>1, <3>2 DEF Places, WaitOK
      <4>4. \A t \in SEM : IsInjective(sem_wait_q[t])
        BY DEF Places, WaitOK
      <4> QED
        BY <3>2, <4>1, <4>2, <4>3, <4>4
    <3>4. s \notin Range(semaphore_q) /\ Range(semaphore_q) \subseteq SEM
      BY RangeIsSubset DEF SemWaitISR, HandedOut, Places, WaitOK
    <3>5. \A t \in Range(semaphore_q) : Range(sem_wait_q'[t]) = {}
      BY <3>3, <3>4 DEF Places, WaitOK
    <3>6. \A p \in PID : st[p] = "WAIT" <=>
            \/ \E t \in SEM : p \in Range(sem_wait_q'[t])
            \/ \E x \in PID : p \in Range(mbox_wait_q[x])
      <4>1. \A p \in PID : state[p] = "WAIT" <=>
              \/ \E t \in SEM : p \in Range(sem_wait_q[t])
              \/ \E x \in PID : p \in Range(mbox_wait_q[x])
        BY DEF Places, WaitOK
      <4>2. st[run_pid] = "WAIT" /\ run_pid \in Range(sem_wait_q'[s])
        BY <2>4, <3>1, <3>3
      <4>3. \A p \in PID, t \in SEM : p # run_pid =>
              (p \in Range(sem_wait_q'[t]) <=> p \in Range(sem_wait_q[t]))
        BY <3>3
      <4>4. \A p \in PID : p # run_pid => st[p] = state[p]
        BY <2>4
      <4> QED
        BY <4>1, <4>2, <4>3, <4>4
    <3>7. ASSUME NEW t \in SEM, NEW u \in SEM, t # u
          PROVE  Range(sem_wait_q'[t]) \cap Range(sem_wait_q'[u]) = {}
      <4>1. Range(sem_wait_q[t]) \cap Range(sem_wait_q[u]) = {}
        BY <3>7 DEF Places, WaitOK
      <4>2. run_pid \notin Range(sem_wait_q[t]) /\ run_pid \notin Range(sem_wait_q[u])
        BY <3>1
      <4>3. CASE t = s
        BY <3>3, <3>7, <4>1, <4>2, <4>3
      <4>4. CASE u = s
        BY <3>3, <3>7, <4>1, <4>2, <4>4
      <4>5. CASE t # s /\ u # s
        BY <3>3, <4>1, <4>5
      <4> QED
        BY <4>3, <4>4, <4>5
    <3>8. \A t \in SEM, x \in PID : Range(sem_wait_q'[t]) \cap Range(mbox_wait_q[x]) = {}
      <4>1. \A t \in SEM, x \in PID : Range(sem_wait_q[t]) \cap Range(mbox_wait_q[x]) = {}
        BY DEF Places, WaitOK
      <4> QED
        BY <3>1, <3>3, <4>1
    <3> QED
      BY <3>3, <3>5, <3>6, <3>7, <3>8 DEF Places, WaitOK
  <2>6. /\ unused_q' = unused_q /\ sleep_q' = sleep_q
        /\ semaphore_q' = semaphore_q /\ mbox_wait_q' = mbox_wait_q
    BY <1>1, <2>1 DEF timerVars, mailVars
  <2>7. Places'
    BY <2>1, <2>3, <2>5, <2>6, SchedulerStep
  <2>8. DataOK'
    BY <1>1, <2>1 DEF DataOK, timerVars, mailVars, pageVars
  <2> QED
    BY <2>7, <2>8
<1> QED
  BY <1>2, <1>3 DEF SemWaitISR
-----------------------------------------------------------------------------
\* Changing the one queue of mailbox x, and the state of its owner with it.
LEMMA MboxQueueChanges ==
  ASSUME NEW ids, NEW sw, NEW mw, NEW st, WaitOK(ids, sw, mw, st),
         NEW x \in PID, NEW mw2, NEW st2,
         \/ mw2 = [mw EXCEPT ![x] = <<>>] /\ st2[x] # "WAIT" /\ mw[x] # <<>>
         \/ mw2 = [mw EXCEPT ![x] = <<x>>] /\ st2[x] = "WAIT" /\ st[x] # "WAIT",
         \A p \in PID : p # x => st2[p] = st[p]
  PROVE  WaitOK(ids, sw, mw2, st2)
<1> DEFINE waits == \E s \in SEM : x \in Range(sw[s])
<1>1. Range(<<x>>) = {x} /\ <<x>> \in Seq(PID) /\ <<x>> # <<>> /\ <<>> \in Seq(PID)
  BY DEF Range
<1>2. Range(<<>>) = {}
  BY DEF Range
<1>3. mw2 \in [PID -> Seq(PID)]
  <2>1. mw \in [PID -> Seq(PID)]
    BY DEF WaitOK
  <2>2. CASE mw2 = [mw EXCEPT ![x] = <<>>]
    BY <1>1, <2>1, <2>2
  <2>3. CASE mw2 = [mw EXCEPT ![x] = <<x>>]
    BY <1>1, <2>1, <2>3
  <2> QED
    BY <2>2, <2>3
<1>4. \A y \in PID : y # x => mw2[y] = mw[y]
  BY DEF WaitOK
<1>5. \/ mw2[x] = <<>> /\ st2[x] # "WAIT" /\ mw[x] = <<x>>
      \/ mw2[x] = <<x>> /\ st2[x] = "WAIT" /\ st[x] # "WAIT"
  BY DEF WaitOK
<1>6. \A y \in PID : mw2[y] # <<>> => mw2[y] = <<y>>
  BY <1>4, <1>5 DEF WaitOK
<1>7. \A s \in SEM : x \notin Range(sw[s])
  <2>1. CASE mw[x] = <<x>>
    <3>1. Range(mw[x]) = {x}
      BY <1>1, <2>1
    <3>2. \A s \in SEM : Range(sw[s]) \cap Range(mw[x]) = {}
      BY DEF WaitOK
    <3> QED
      BY <3>1, <3>2
  <2>2. CASE st[x] # "WAIT"
    BY <2>2 DEF WaitOK
  <2> QED
    BY <1>5, <2>1, <2>2
<1>8. \A y \in PID : Range(mw2[y]) \subseteq {y}
  <2>1. \A y \in PID : mw2[y] = <<>> => Range(mw2[y]) = {}
    BY DEF Range
  <2>2. \A y \in PID : mw2[y] = <<y>> => Range(mw2[y]) = {y}
    BY DEF Range
  <2> QED
    BY <1>6, <2>1, <2>2
<1>9. \A p \in PID : st2[p] = "WAIT" <=> \/ \E s \in SEM : p \in Range(sw[s])
                                         \/ \E y \in PID : p \in Range(mw2[y])
  <2>1. ASSUME NEW p \in PID, p # x
        PROVE  st2[p] = "WAIT" <=> \/ \E s \in SEM : p \in Range(sw[s])
                                   \/ \E y \in PID : p \in Range(mw2[y])
    <3>1. /\ st2[p] = st[p] /\ mw2[p] = mw[p]
          /\ p \notin Range(mw2[x]) /\ Range(mw[x]) \subseteq {x}
      <4>1. mw[x] = <<>> => Range(mw[x]) = {}
        BY DEF Range
      <4>2. mw[x] = <<x>> => Range(mw[x]) = {x}
        BY <1>1
      <4> QED
        BY <1>4, <1>8, <2>1, <4>1, <4>2 DEF WaitOK
    <3>2. \A y \in PID : p \in Range(mw2[y]) <=> p \in Range(mw[y])
      BY <1>4, <2>1, <3>1
    <3> QED
      BY <3>1, <3>2 DEF WaitOK
  <2>2. st2[x] = "WAIT" <=> \E y \in PID : x \in Range(mw2[y])
    <3>1. \A y \in PID : x \in Range(mw2[y]) => y = x
      BY <1>8
    <3> QED
      BY <1>1, <1>2, <1>5, <3>1
  <2> QED
    BY <1>7, <2>1, <2>2
<1>10. \A s \in SEM, y \in PID : Range(sw[s]) \cap Range(mw2[y]) = {}
  <2> SUFFICES ASSUME NEW s \in SEM, NEW y \in PID
               PROVE  Range(sw[s]) \cap Range(mw2[y]) = {}
    OBVIOUS
  <2>1. CASE y = x
    BY <1>7, <1>8, <2>1
  <2>2. CASE y # x
    BY <1>4, <2>2 DEF WaitOK
  <2> QED
    BY <2>1, <2>2
<1> QED
  BY <1>3, <1>6, <1>9, <1>10 DEF WaitOK

LEMMA MsgQueueType ==
  ASSUME NEW q \in Seq(Message), NEW m \in Message
  PROVE  MsgEnQ(m, q) \in Seq(Message)
BY AppendFacts DEF MsgEnQ

LEMMA MsgSndStep ==
  ASSUME Places, DataOK, NEW x \in PID, NEW d \in Data, MsgSndISR(x, d),
         UNCHANGED pageVars
  PROVE  Places' /\ DataOK'
<1> DEFINE m == [sender |-> run_pid, data |-> d]
<1>1. UNCHANGED <<timerVars, semVars, pageVars>>
  BY DEF MsgSndISR
<1>2. m \in Message
  BY RunningIsInNoQueue DEF Message
<1>3. Enqueue(x, m) \/ HandOff(x, m)
  BY DEF MsgSndISR
<1> HIDE DEF m
<1>4. CASE Enqueue(x, m)
  <2>1. /\ mbox' = [mbox EXCEPT ![x] = MsgEnQ(m, @)]
        /\ UNCHANGED <<procVars, mbox_wait_q, buf>>
    BY <1>4 DEF Enqueue
  <2>2. mbox' \in [PID -> Seq(Message)]
    BY <1>2, <2>1, MsgQueueType DEF DataOK
  <2>3. Places'
    BY <1>1, <2>1 DEF Places, procVars, timerVars, semVars
  <2>4. DataOK'
    BY <1>1, <2>1, <2>2 DEF DataOK, timerVars, semVars, pageVars
  <2> QED
    BY <2>3, <2>4
<1>5. CASE HandOff(x, m)
  <2> DEFINE freed == Head(mbox_wait_q[x])
             st == [state EXCEPT ![freed] = "RUN"]
  <2>1. /\ mbox_wait_q[x] # <<>>
        /\ mbox_wait_q' = [mbox_wait_q EXCEPT ![x] = Tail(@)]
        /\ buf' = [buf EXCEPT ![freed] = m]
        /\ Scheduler(run_pid, EnQ(freed, proc_q), st)
        /\ UNCHANGED <<mbox, unused_q>>
    BY <1>5 DEF HandOff
  <2>2. freed = x /\ Tail(mbox_wait_q[x]) = <<>> /\ x \in Range(mbox_wait_q[x])
    BY <2>1, MboxWaiters DEF Places
  <2>3. state[x] = "WAIT" /\ state \in [PID -> State]
    BY <2>2 DEF Places, WaitOK, ReadyOK
  <2>4. st = [state EXCEPT ![x] = "RUN"]
    BY <2>2
  <2> HIDE DEF st, freed
  <2>5. ReadyOK(run_pid, EnQ(x, proc_q), st)
    BY <2>3, <2>4, BecomesReady DEF Places, Runnable
  <2>6. st[x] = "RUN" /\ \A p \in PID : p # x => st[p] = state[p]
    BY <2>3, <2>4
  <2>7. UnusedOK(unused_q, st)
    BY <2>3, <2>6 DEF Places, UnusedOK
  <2>8. AsleepOK(sleep_q, st)
    BY <2>3, <2>6 DEF Places, AsleepOK
  <2>9. mbox_wait_q' = [mbox_wait_q EXCEPT ![x] = <<>>]
    BY <2>1, <2>2
  <2>10. WaitOK(semaphore_q, sem_wait_q, mbox_wait_q', st)
    <3>1. WaitOK(semaphore_q, sem_wait_q, mbox_wait_q, state)
      BY DEF Places
    <3>2. /\ mbox_wait_q' = [mbox_wait_q EXCEPT ![x] = <<>>]
          /\ st[x] # "WAIT"
          /\ mbox_wait_q[x] # <<>>
      BY <2>1, <2>6, <2>9
    <3>3. \A p \in PID : p # x => st[p] = state[p]
      BY <2>6
    <3> QED
      BY <3>1, <3>2, <3>3, MboxQueueChanges, Zenon
  <2>11. /\ unused_q' = unused_q /\ sleep_q' = sleep_q
         /\ semaphore_q' = semaphore_q /\ sem_wait_q' = sem_wait_q
    BY <1>1, <2>1 DEF timerVars, semVars
  <2>12. Scheduler(run_pid, EnQ(x, proc_q), st)
    BY <2>1, <2>2
  <2>13. Places'
    BY <2>5, <2>7, <2>8, <2>10, <2>11, <2>12, SchedulerStep
  <2>14. DataOK'
    BY <1>1, <1>2, <2>1, <2>2 DEF DataOK, timerVars, semVars, pageVars
  <2> QED
    BY <2>13, <2>14
<1> QED
  BY <1>3, <1>4, <1>5

LEMMA MsgRcvStep ==
  ASSUME Places, DataOK, MsgRcvIntr
  PROVE  Places' /\ DataOK'
<1>1. UNCHANGED <<timerVars, semVars, pageVars>>
  BY DEF MsgRcvIntr, MsgRcvISR
<1>2. run_pid \in PID /\ state[run_pid] = "RUN" /\ state \in [PID -> State]
  BY RunningIsInNoQueue
<1>3. CASE Receive(run_pid)
  <2>1. /\ mbox[run_pid] # <<>>
        /\ buf' = [buf EXCEPT ![run_pid] = Head(mbox[run_pid])]
        /\ mbox' = [mbox EXCEPT ![run_pid] = Tail(@)]
        /\ UNCHANGED <<procVars, mbox_wait_q>>
    BY <1>3 DEF Receive
  <2>2. Head(mbox[run_pid]) \in Message /\ Tail(mbox[run_pid]) \in Seq(Message)
    BY <1>2, <2>1, HeadTailFacts DEF DataOK
  <2>3. Places'
    BY <1>1, <2>1 DEF Places, procVars, timerVars, semVars
  <2>4. DataOK'
    BY <1>1, <2>1, <2>2 DEF DataOK, timerVars, semVars, pageVars
  <2> QED
    BY <2>3, <2>4
<1>4. CASE AwaitMail(run_pid)
  <2> DEFINE st == [state EXCEPT ![run_pid] = "WAIT"]
  <2>1. /\ mbox_wait_q' = [mbox_wait_q EXCEPT ![run_pid] = EnQ(run_pid, @)]
        /\ Scheduler(NONE, proc_q, st)
        /\ UNCHANGED <<mbox, buf, unused_q>>
    BY <1>4 DEF AwaitMail
  <2>2. run_pid # 0
    BY InitProcRuns DEF MsgRcvIntr, MsgRcvISR, Blocking
  <2>3. /\ ReadyOK(NONE, proc_q, st)
        /\ UnusedOK(unused_q, st)
        /\ AsleepOK(sleep_q, st)
    BY <2>2, RunningBlocks DEF State, Runnable
  <2>4. st[run_pid] = "WAIT" /\ \A p \in PID : p # run_pid => st[p] = state[p]
    BY <1>2
  <2> HIDE DEF st
  <2>5. mbox_wait_q[run_pid] = <<>>
    <3>1. run_pid \notin Range(mbox_wait_q[run_pid])
      BY <1>2, RunningIsInNoQueue
    <3> QED
      BY <1>2, <3>1, MboxWaiters DEF Places
  <2>6. EnQ(run_pid, <<>>) = <<run_pid>>
    BY ProcessAssumption DEF EnQ
  <2>7. mbox_wait_q' = [mbox_wait_q EXCEPT ![run_pid] = <<run_pid>>]
    BY <2>1, <2>5, <2>6
  <2>8. WaitOK(semaphore_q, sem_wait_q, mbox_wait_q', st)
    BY <1>2, <2>4, <2>7, MboxQueueChanges DEF Places
  <2>9. /\ unused_q' = unused_q /\ sleep_q' = sleep_q
        /\ semaphore_q' = semaphore_q /\ sem_wait_q' = sem_wait_q
    BY <1>1, <2>1 DEF timerVars, semVars
  <2>10. Places'
    BY <2>1, <2>3, <2>8, <2>9, SchedulerStep
  <2>11. DataOK'
    BY <1>1, <2>1 DEF DataOK, timerVars, semVars, pageVars
  <2> QED
    BY <2>10, <2>11
<1> QED
  BY <1>3, <1>4 DEF MsgRcvIntr, MsgRcvISR
----------------------------------------------------------------------------
LEMMA MinFacts ==
  ASSUME NEW S \in SUBSET Int, IsFiniteSet(S), S # {}
  PROVE  Min(S) \in S /\ \A y \in S : Min(S) <= y
<1>1. /\ Cardinality(S) \in Nat
      /\ \A i \in 1 .. Cardinality(S) :
           Nth(S, i) \in S /\ Cardinality({k \in S : k <= Nth(S, i)}) = i
  BY NthFacts
<1>2. Cardinality(S) >= 1
  BY <1>1, FS_EmptySet
<1> DEFINE x == Nth(S, 1)
<1>3. x \in S /\ Cardinality({k \in S : k <= x}) = 1
  BY <1>1, <1>2
<1> HIDE DEF x
<1>4. ASSUME NEW y \in S PROVE x <= y
  <2>1. PICK z : {k \in S : k <= x} = {z}
    <3>1. IsFiniteSet({k \in S : k <= x})
      BY FS_Subset
    <3> QED
      BY <1>3, <3>1, FS_Singleton
  <2>2. x \in {k \in S : k <= x}
    BY <1>3
  <2>3. y <= x => y = x
    BY <2>1, <2>2
  <2> QED
    BY <1>3, <2>3
<1> QED
  BY <1>3, <1>4 DEF Min

LEMMA PidSets ==
  /\ \A S \in SUBSET PID : S # {} => Min(S) \in S
  /\ \A S \in SUBSET Page : S # {} => Min(S) \in S
<1>1. IsFiniteSet(PID) /\ PID \subseteq Int
  BY FS_Interval, ProcessAssumption DEF PID
<1>2. IsFiniteSet(Page) /\ Page \subseteq Int
  <2>1. NPAGES \in Nat
    BY PagesAssumption
  <2> QED
    BY <2>1, FS_Interval DEF Page
<1>3. \A S \in SUBSET PID : S # {} => Min(S) \in S
  BY <1>1, FS_Subset, MinFacts
<1>4. \A S \in SUBSET Page : S # {} => Min(S) \in S
  BY <1>2, FS_Subset, MinFacts
<1> QED
  BY <1>3, <1>4

LEMMA NPagesType == NPAGES \in Nat
BY PagesAssumption
-----------------------------------------------------------------------------
LEMMA ForkStep ==
  ASSUME Places, DataOK, ForkISR
  PROVE  Places' /\ DataOK'
<1> DEFINE child == Head(unused_q)
           pages == FirstPages(FreePages, PAGES)
           st == [state EXCEPT ![child] = "READY"]
<1>1. /\ unused_q # <<>>
      /\ unused_q' = Tail(unused_q)
      /\ page_pid' = [k \in Page |-> IF k \in pages THEN child ELSE page_pid[k]]
      /\ frames' = [frames EXCEPT ![child] = {page_addr[k] : k \in pages}]
      /\ mbox' = [mbox EXCEPT ![child] = <<>>]
      /\ mbox_wait_q' = [mbox_wait_q EXCEPT ![child] = <<>>]
      /\ time' = [time EXCEPT ![child] = 0]
      /\ ppid' = [ppid EXCEPT ![child] = run_pid]
      /\ Scheduler(run_pid, EnQ(child, proc_q), st)
      /\ UNCHANGED <<system_time, wake_time, sleep_q, semVars, buf, page_addr, reported>>
  BY DEF ForkISR
<1>2. pages \subseteq Page
  BY DEF FirstPages, FreePages
<1>3. /\ child \in PID /\ child \in Range(unused_q)
      /\ unused_q' \in Seq(PID)
      /\ IsInjective(unused_q')
      /\ Range(unused_q') = Range(unused_q) \ {child}
  BY <1>1, HeadTailFacts DEF Places, UnusedOK
<1>4. state[child] = "UNUSED" /\ run_pid \in PID /\ state \in [PID -> State]
  BY <1>3, RunningIsInNoQueue DEF Places, UnusedOK
<1> HIDE DEF child, pages
<1>5. st[child] = "READY" /\ \A p \in PID : p # child => st[p] = state[p]
  BY <1>3, <1>4
<1>6. ReadyOK(run_pid, EnQ(child, proc_q), st)
  BY <1>3, <1>4, BecomesReady DEF Places, Runnable
<1> HIDE DEF st
<1>7. UnusedOK(unused_q', st)
  BY <1>3, <1>5 DEF Places, UnusedOK
<1>8. AsleepOK(sleep_q, st)
  BY <1>4, <1>5 DEF Places, AsleepOK
<1>9. mbox_wait_q' = mbox_wait_q
  <2>1. child \notin Range(mbox_wait_q[child])
    BY <1>3, <1>4 DEF Places, WaitOK
  <2>2. mbox_wait_q[child] = <<>>
    BY <1>3, <2>1, MboxWaiters DEF Places
  <2> QED
    BY <1>1, <1>3, <2>2 DEF Places, WaitOK
<1>10. WaitOK(semaphore_q, sem_wait_q, mbox_wait_q, st)
  <2>1. \A p \in PID : st[p] = "WAIT" <=> state[p] = "WAIT"
    BY <1>4, <1>5
  <2> QED
    BY <2>1 DEF Places, WaitOK
<1>11. Places'
  <2>1. sleep_q' = sleep_q /\ semaphore_q' = semaphore_q /\ sem_wait_q' = sem_wait_q
    BY <1>1 DEF semVars
  <2> QED
    BY <1>1, <1>6, <1>7, <1>8, <1>9, <1>10, <2>1, SchedulerStep
<1>12. DataOK'
  <2>1. time' \in [PID -> 0 .. T_SLICE-1]
    <3>1. time \in [PID -> 0 .. T_SLICE-1] /\ 0 \in 0 .. T_SLICE-1
      BY TimerAssumption DEF DataOK
    <3> QED
      BY <1>1, <3>1
  <2>2. page_pid' \in [Page -> PID \cup {NONE}]
    BY <1>1, <1>3 DEF DataOK
  <2>3. frames' \in [PID -> SUBSET (0 .. NPAGES)]
    <3>1. {page_addr[k] : k \in pages} \subseteq 0 .. NPAGES
      BY <1>2 DEF DataOK
    <3> QED
      BY <1>1, <3>1 DEF DataOK
  <2>4. mbox' \in [PID -> Seq(Message)]
    BY <1>1, EmptySeq DEF DataOK
  <2>5. ppid' \in [PID -> PID]
    BY <1>1, <1>4 DEF DataOK
  <2> QED
    BY <1>1, <2>1, <2>2, <2>3, <2>4, <2>5 DEF DataOK, semVars
<1> QED
  BY <1>11, <1>12
-----------------------------------------------------------------------------
\* A process that is neither ready nor in a queue gets its PID back into
\* unused_q.
LEMMA PidIsFreed ==
  ASSUME NEW uq, NEW st, UnusedOK(uq, st), NEW p \in PID, st[p] # "UNUSED",
         st \in [PID -> State], NEW st2, st2 = [st EXCEPT ![p] = "UNUSED"]
  PROVE  UnusedOK(EnQ(p, uq), st2)
<1>1. p \notin Range(uq)
  BY DEF UnusedOK
<1>2. /\ EnQ(p, uq) \in Seq(PID)
      /\ IsInjective(EnQ(p, uq))
      /\ Range(EnQ(p, uq)) = Range(uq) \cup {p}
  BY <1>1, EnQFacts DEF UnusedOK
<1>3. st2[p] = "UNUSED" /\ \A r \in PID : r # p => st2[r] = st[r]
  OBVIOUS
<1> QED
  BY <1>2, <1>3 DEF UnusedOK

\* Two assignments of states that agree about who sleeps and who waits.
LEMMA SameSleepersAndWaiters ==
  ASSUME Places, NEW st,
         \A p \in PID : /\ st[p] = "SLEEP" <=> state[p] = "SLEEP"
                        /\ st[p] = "WAIT" <=> state[p] = "WAIT"
  PROVE  /\ AsleepOK(sleep_q, st)
         /\ WaitOK(semaphore_q, sem_wait_q, mbox_wait_q, st)
<1>1. AsleepOK(sleep_q, st)
  BY DEF Places, AsleepOK
<1>2. WaitOK(semaphore_q, sem_wait_q, mbox_wait_q, st)
  BY DEF Places, WaitOK
<1> QED
  BY <1>1, <1>2

\* The running process leaves the processor.
LEMMA OffProcessor ==
  ASSUME NEW rp \in PID, NEW pq, NEW st, ReadyOK(rp, pq, st), rp # 0,
         NEW v \in State \ Runnable, NEW st2, st2 = [st EXCEPT ![rp] = v]
  PROVE  ReadyOK(NONE, pq, st2)
<1>1. st2 \in [PID -> State] /\ st2[rp] = v
  BY DEF ReadyOK
<1>2. \A p \in PID : p # rp => st2[p] = st[p]
  BY DEF ReadyOK
<1>3. rp \notin Range(pq)
  BY DEF ReadyOK
<1> QED
  BY <1>1, <1>2, <1>3, PidFacts DEF ReadyOK

LEMMA WaitStep ==
  ASSUME Places, DataOK, WaitISR
  PROVE  Places' /\ DataOK'
<1>1. /\ UNCHANGED <<timerVars, semVars, mailVars>>
      /\ WaitForChild \/ ReapChild \/ ReportChildOnly
  BY DEF WaitISR
<1>2. run_pid # 0
  BY InitProcRuns DEF WaitISR, Blocking
<1>3. run_pid \in PID /\ state[run_pid] = "RUN" /\ state \in [PID -> State]
  BY RunningIsInNoQueue
<1>4. /\ sleep_q' = sleep_q /\ semaphore_q' = semaphore_q
      /\ sem_wait_q' = sem_wait_q /\ mbox_wait_q' = mbox_wait_q
  BY <1>1 DEF timerVars, semVars, mailVars
<1>5. CASE WaitForChild
  <2> DEFINE st == [state EXCEPT ![run_pid] = "WAIT4CHILD"]
  <2>1. /\ Scheduler(NONE, proc_q, st)
        /\ UNCHANGED <<unused_q, pageVars>>
    BY <1>5 DEF WaitForChild
  <2>2. /\ ReadyOK(NONE, proc_q, st)
        /\ UnusedOK(unused_q, st)
        /\ AsleepOK(sleep_q, st)
        /\ WaitOK(semaphore_q, sem_wait_q, mbox_wait_q, st)
    BY <1>2, RunningBlocks DEF State, Runnable
  <2> HIDE DEF st
  <2>3. Places'
    BY <1>4, <2>1, <2>2, SchedulerStep
  <2>4. DataOK'
    BY <1>1, <2>1 DEF DataOK, timerVars, semVars, mailVars, pageVars
  <2> QED
    BY <2>3, <2>4
<1>6. CASE ReapChild
  <2> DEFINE child == Min(ChildrenExited)
             others == ChildrenExited \ {child}
             page == Min(PagesOf(child))
  <2>1. /\ ChildrenExited # {}
        /\ PagesOf(child) # {}
        /\ reported' = [reported EXCEPT ![run_pid] =
                          IF others = {} THEN child ELSE Min(others)]
        /\ page_addr' = [k \in Page |-> IF k >= page THEN 0 ELSE page_addr[k]]
        /\ page_pid' = [k \in Page |->
             IF k = page THEN NONE ELSE IF k > page THEN 0 ELSE page_pid[k]]
        /\ unused_q' = EnQ(child, unused_q)
        /\ state' = [state EXCEPT ![child] = "UNUSED"]
        /\ UNCHANGED <<run_pid, proc_q, ppid, frames>>
    BY <1>6 DEF ReapChild
  <2>2. child \in PID /\ state[child] = "ZOMBIE"
    BY <2>1, PidSets DEF ChildrenExited
  <2>3. others # {} => Min(others) \in PID
    BY PidSets DEF ChildrenExited
  <2> HIDE DEF child, page, others
  <2>4. /\ state'[child] = "UNUSED" /\ state' \in [PID -> State]
        /\ \A p \in PID : p # child => state'[p] = state[p]
    BY <1>3, <2>1, <2>2 DEF State
  <2>5. ReadyOK(run_pid', proc_q', state')
    BY <1>3, <2>1, <2>2, <2>4, PidFacts DEF Places, ReadyOK, Runnable
  <2>6. UnusedOK(unused_q', state')
    BY <1>3, <2>1, <2>2, PidIsFreed DEF Places
  <2>7. \A p \in PID : /\ state'[p] = "SLEEP" <=> state[p] = "SLEEP"
                       /\ state'[p] = "WAIT" <=> state[p] = "WAIT"
    BY <2>2, <2>4
  <2>8. /\ AsleepOK(sleep_q', state')
        /\ WaitOK(semaphore_q', sem_wait_q', mbox_wait_q', state')
    BY <1>4, <2>7, SameSleepersAndWaiters
  <2>9. Places'
    BY <2>1, <2>5, <2>6, <2>8 DEF Places
  <2>10. reported' \in [PID -> PID \cup {NONE}]
    BY <2>1, <2>2, <2>3 DEF DataOK
  <2>11. /\ page_addr' \in [Page -> 0 .. NPAGES]
         /\ page_pid' \in [Page -> PID \cup {NONE}]
    BY <2>1, NPagesType, PidFacts DEF DataOK
  <2>12. DataOK'
    BY <1>1, <2>1, <2>10, <2>11 DEF DataOK, timerVars, semVars, mailVars
  <2> QED
    BY <2>9, <2>12
<1>7. CASE ReportChildOnly
  <2>1. Min(ChildrenExited) \in PID
    BY <1>7, PidSets DEF ReportChildOnly, ChildrenExited
  <2>2. Places'
    BY <1>4, <1>7 DEF ReportChildOnly, Places, procVars
  <2>3. DataOK'
    BY <1>1, <1>7, <2>1 DEF ReportChildOnly, DataOK, timerVars, semVars, mailVars
  <2> QED
    BY <2>2, <2>3
<1> QED
  BY <1>1, <1>5, <1>6, <1>7

LEMMA ExitStep ==
  ASSUME Places, DataOK, ExitISR
  PROVE  Places' /\ DataOK'
<1> DEFINE parent == ppid[run_pid]
           st1 == [state EXCEPT ![parent] = "READY"]
<1>1. /\ UNCHANGED <<timerVars, semVars, mailVars>>
      /\ BecomeZombie \/ EndForParent \/ RunOnAfterExit
  BY DEF ExitISR
<1>2. run_pid # 0
  BY InitProcRuns DEF ExitISR, Blocking
<1>3. run_pid \in PID /\ state[run_pid] = "RUN" /\ state \in [PID -> State]
  BY RunningIsInNoQueue
<1>4. /\ sleep_q' = sleep_q /\ semaphore_q' = semaphore_q
      /\ sem_wait_q' = sem_wait_q /\ mbox_wait_q' = mbox_wait_q
  BY <1>1 DEF timerVars, semVars, mailVars
<1>5. parent \in PID
  BY <1>3 DEF DataOK
<1>6. CASE BecomeZombie
  <2> DEFINE st == [state EXCEPT ![run_pid] = "ZOMBIE"]
  <2>1. Scheduler(NONE, proc_q, st) /\ UNCHANGED <<unused_q, pageVars>>
    BY <1>6 DEF BecomeZombie
  <2>2. /\ ReadyOK(NONE, proc_q, st)
        /\ UnusedOK(unused_q, st)
        /\ AsleepOK(sleep_q, st)
        /\ WaitOK(semaphore_q, sem_wait_q, mbox_wait_q, st)
    BY <1>2, RunningBlocks DEF State, Runnable
  <2> HIDE DEF st
  <2>3. Places'
    BY <1>4, <2>1, <2>2, SchedulerStep
  <2>4. DataOK'
    BY <1>1, <2>1 DEF DataOK, timerVars, semVars, mailVars, pageVars
  <2> QED
    BY <2>3, <2>4
\* Both other cases make the parent ready first.
<1>7. ASSUME state[parent] = "WAIT4CHILD"
      PROVE  /\ ReadyOK(run_pid, EnQ(parent, proc_q), st1)
             /\ UnusedOK(unused_q, st1)
             /\ AsleepOK(sleep_q, st1)
             /\ WaitOK(semaphore_q, sem_wait_q, mbox_wait_q, st1)
             /\ st1 \in [PID -> State] /\ st1[run_pid] = "RUN"
  <2>1. ReadyOK(run_pid, EnQ(parent, proc_q), st1)
    BY <1>5, <1>7, BecomesReady DEF Places, Runnable
  <2>2. st1[parent] = "READY" /\ \A p \in PID : p # parent => st1[p] = state[p]
    BY <1>3, <1>5
  <2>3. st1 \in [PID -> State] /\ st1[run_pid] = "RUN"
    BY <1>3, <1>5, <1>7 DEF State
  <2> HIDE DEF st1, parent
  <2>4. UnusedOK(unused_q, st1)
    BY <1>7, <2>2 DEF Places, UnusedOK
  <2>5. \A p \in PID : /\ st1[p] = "SLEEP" <=> state[p] = "SLEEP"
                       /\ st1[p] = "WAIT" <=> state[p] = "WAIT"
    BY <1>7, <2>2
  <2> QED
    BY <2>1, <2>3, <2>4, <2>5, SameSleepersAndWaiters
<1>8. CASE EndForParent
  <2> DEFINE page == Min(PagesOf(run_pid))
             st2 == [st1 EXCEPT ![run_pid] = "UNUSED"]
  <2>1. /\ state[parent] = "WAIT4CHILD"
        /\ PagesOf(run_pid) # {}
        /\ reported' = [reported EXCEPT ![parent] = run_pid]
        /\ page_pid' = [page_pid EXCEPT ![page] = 0]
        /\ page_addr' = [page_addr EXCEPT ![page] = 0]
        /\ unused_q' = EnQ(run_pid, unused_q)
        /\ Scheduler(NONE, EnQ(parent, proc_q), st2)
        /\ UNCHANGED <<ppid, frames>>
    BY <1>8 DEF EndForParent, ReleaseParent
  <2>2. /\ ReadyOK(run_pid, EnQ(parent, proc_q), st1)
        /\ UnusedOK(unused_q, st1)
        /\ AsleepOK(sleep_q, st1)
        /\ WaitOK(semaphore_q, sem_wait_q, mbox_wait_q, st1)
        /\ st1 \in [PID -> State] /\ st1[run_pid] = "RUN"
    BY <1>7, <2>1
  <2> HIDE DEF st1, parent, page
  <2>3. /\ st2[run_pid] = "UNUSED"
        /\ \A p \in PID : p # run_pid => st2[p] = st1[p]
    BY <1>3, <2>2
  <2>4. UnusedOK(unused_q', st2)
    BY <1>3, <2>1, <2>2, PidIsFreed
  <2>5. ReadyOK(NONE, EnQ(parent, proc_q), st2)
    BY <1>2, <1>3, <2>2, OffProcessor DEF State, Runnable
  <2> HIDE DEF st2
  <2>6. AsleepOK(sleep_q', st2)
    BY <1>4, <2>2, <2>3 DEF AsleepOK
  <2>7. WaitOK(semaphore_q', sem_wait_q', mbox_wait_q', st2)
    <3>1. \A p \in PID : st2[p] = "WAIT" <=> st1[p] = "WAIT"
      BY <2>2, <2>3
    <3> QED
      BY <1>4, <2>2, <3>1 DEF WaitOK
  <2>8. Places'
    BY <2>1, <2>4, <2>5, <2>6, <2>7, SchedulerStep
  <2>9. page_pid' \in [Page -> PID \cup {NONE}] /\ page_addr' \in [Page -> 0 .. NPAGES]
    <3>1. /\ page_pid \in [Page -> PID \cup {NONE}]
          /\ page_addr \in [Page -> 0 .. NPAGES]
          /\ 0 \in 0 .. NPAGES
      BY NPagesType DEF DataOK
    <3> QED
      BY <2>1, <3>1, PidFacts
  <2>10. reported' \in [PID -> PID \cup {NONE}]
    BY <1>3, <2>1 DEF DataOK
  <2>11. DataOK'
    BY <1>1, <2>1, <2>9, <2>10 DEF DataOK, timerVars, semVars, mailVars
  <2> QED
    BY <2>8, <2>11
<1>9. CASE RunOnAfterExit
  <2>1. /\ state[parent] = "WAIT4CHILD"
        /\ reported' = [reported EXCEPT ![parent] = run_pid]
        /\ Scheduler(run_pid, EnQ(parent, proc_q), st1)
        /\ UNCHANGED <<unused_q, ppid, page_pid, page_addr, frames>>
    BY <1>9 DEF RunOnAfterExit, ReleaseParent
  <2>2. /\ ReadyOK(run_pid, EnQ(parent, proc_q), st1)
        /\ UnusedOK(unused_q, st1)
        /\ AsleepOK(sleep_q, st1)
        /\ WaitOK(semaphore_q, sem_wait_q, mbox_wait_q, st1)
    BY <1>7, <2>1
  <2> HIDE DEF st1, parent
  <2>3. Places'
    BY <1>4, <2>1, <2>2, SchedulerStep
  <2>4. reported' \in [PID -> PID \cup {NONE}]
    BY <1>3, <2>1 DEF DataOK
  <2>5. DataOK'
    BY <1>1, <2>1, <2>4 DEF DataOK, timerVars, semVars, mailVars
  <2> QED
    BY <2>3, <2>5
<1> QED
  BY <1>1, <1>6, <1>8, <1>9
-----------------------------------------------------------------------------
\* The boot.
LEMMA InitPlaces == Init => Places /\ DataOK
<1> SUFFICES ASSUME Init PROVE Places /\ DataOK
  OBVIOUS
<1> USE ProcessAssumption, TimerAssumption, SemaphoreAssumption
<1>1. /\ run_pid = 0
      /\ proc_q = [i \in 1 .. NSYS-1 |-> i]
      /\ unused_q = [i \in 1 .. MAX_PROC-NSYS |-> NSYS + i - 1]
      /\ state = [p \in PID |->
               IF p = 0 THEN "RUN" ELSE IF p < NSYS THEN "READY" ELSE "UNUSED"]
      /\ sleep_q = <<>>
      /\ semaphore_q = [i \in 1 .. NSEM |-> i - 1]
      /\ sem_wait_q = [s \in SEM |-> <<>>]
      /\ mbox_wait_q = [p \in PID |-> <<>>]
  BY DEF Init, ProcInit, TimerInit, SemInit, MailInit
<1>2. ReadyOK(run_pid, proc_q, state)
  <2>1. proc_q \in Seq(PID) /\ IsInjective(proc_q)
    BY <1>1 DEF PID, IsInjective
  <2>2. \A p \in PID : p \in Range(proc_q) <=> p \in 1 .. NSYS-1
    BY <1>1 DEF PID, Range
  <2>3. state \in [PID -> State]
    BY <1>1 DEF State
  <2>4. \A p \in PID : state[p] \in Runnable <=> p < NSYS
    BY <1>1 DEF PID, Runnable
  <2>5. 0 \in PID /\ state[0] = "RUN"
    BY <1>1, PidFacts
  <2>6. \A p \in PID : p \in Range(proc_q) <=> p # run_pid /\ state[p] \in Runnable
    <3>1. \A p \in PID : p \in 1 .. NSYS-1 <=> p # 0 /\ p < NSYS
      BY DEF PID
    <3> QED
      BY <1>1, <2>2, <2>4, <3>1
  <2> QED
    BY <1>1, <2>1, <2>3, <2>5, <2>6 DEF ReadyOK, Runnable
<1>3. UnusedOK(unused_q, state)
  <2>1. unused_q \in Seq(PID) /\ IsInjective(unused_q)
    BY <1>1 DEF PID, IsInjective
  <2>2. \A p \in PID : p \in Range(unused_q) <=> p \in NSYS .. MAX_PROC-1
    <3>1. \A p \in PID : p \in NSYS .. MAX_PROC-1 =>
            p - NSYS + 1 \in DOMAIN unused_q /\ unused_q[p - NSYS + 1] = p
      BY <1>1 DEF PID
    <3>2. \A i \in DOMAIN unused_q : unused_q[i] \in NSYS .. MAX_PROC-1
      BY <1>1
    <3> QED
      BY <3>1, <3>2 DEF Range
  <2>3. \A p \in PID : state[p] = "UNUSED" <=> p \in NSYS .. MAX_PROC-1
    BY <1>1 DEF PID
  <2> QED
    BY <2>1, <2>2, <2>3 DEF UnusedOK
<1>4. Range(<<>>) = {} /\ <<>> \in Seq(PID) /\ IsInjective(<<>>)
  BY DEF Range, IsInjective
<1>5. \A p \in PID : state[p] # "SLEEP" /\ state[p] # "WAIT"
  BY <1>1
<1>6. AsleepOK(sleep_q, state)
  BY <1>1, <1>4, <1>5 DEF AsleepOK
<1>7. WaitOK(semaphore_q, sem_wait_q, mbox_wait_q, state)
  <2>1. semaphore_q \in Seq(SEM) /\ IsInjective(semaphore_q) /\ Range(semaphore_q) \subseteq SEM
    BY <1>1 DEF SEM, IsInjective, Range
  <2>2. /\ sem_wait_q \in [SEM -> Seq(PID)]
        /\ \A s \in SEM : sem_wait_q[s] = <<>>
        /\ mbox_wait_q \in [PID -> Seq(PID)]
        /\ \A x \in PID : mbox_wait_q[x] = <<>>
    BY <1>1, <1>4
  <2> QED
    BY <1>4, <1>5, <2>1, <2>2 DEF WaitOK
<1>8. Places
  BY <1>1, <1>2, <1>3, <1>6, <1>7, PidFacts DEF Places
<1>9. DataOK
  <2>1. 0 \in Time /\ 0 \in 0 .. T_SLICE-1
    BY DEF Time
  <2>2. \A k \in Page : k + 1 \in 0 .. NPAGES
    BY NPagesType DEF Page
  <2>3. <<>> \in Seq(Message)
    OBVIOUS
  <2> QED
    BY <2>1, <2>2, <2>3, PidFacts DEF Init, TimerInit, SemInit, MailInit, PageInit, DataOK
<1> QED
  BY <1>8, <1>9

\* A trap that leaves everything as it is.
LEMMA PlacesStutter ==
  ASSUME Places, DataOK, UNCHANGED vars
  PROVE  Places' /\ DataOK'
BY DEF vars, procVars, timerVars, semVars, mailVars, pageVars, Places, DataOK

LEMMA EveryStep ==
  ASSUME Places, DataOK, [Next]_vars
  PROVE  Places' /\ DataOK'
<1>1. CASE TimerIntr
  BY <1>1, TimerStep
<1>2. CASE SleepIntr
  BY <1>2, SleepStep
<1>3. CASE SemIntr
  <2>1. UNCHANGED <<mailVars, pageVars>>
    BY <1>3 DEF SemIntr
  <2>2. CASE SemGetISR
    BY <2>1, <2>2, SemGetStep
  <2>3. CASE \E s \in SEM : SemPost(s)
    BY <2>1, <2>3, PostStep DEF SemPost
  <2>4. CASE \E s \in SEM : SemWaitISR(s)
    BY <2>1, <2>4, SemWaitStep
  <2> QED
    BY <1>3, <2>2, <2>3, <2>4 DEF SemIntr
<1>4. CASE DeviceIntr
  BY <1>4, PostStep, SemaphoreAssumption DEF DeviceIntr, DevicePost
<1>5. CASE MsgSndIntr
  BY <1>5, MsgSndStep DEF MsgSndIntr
<1>6. CASE MsgRcvIntr
  BY <1>6, MsgRcvStep
<1>7. CASE ForkISR
  BY <1>7, ForkStep
<1>8. CASE WaitISR
  BY <1>8, WaitStep
<1>9. CASE ExitISR
  BY <1>9, ExitStep
<1>10. CASE UNCHANGED vars
  BY <1>10, PlacesStutter
<1> QED
  BY <1>1, <1>2, <1>3, <1>4, <1>5, <1>6, <1>7, <1>8, <1>9, <1>10 DEF Next

\* IInv, the conjunction of the three invariants, is inductive.
THEOREM IInvAlways == Spec => []IInv
<1>1. Init => IInv
  BY InitPlaces, IInvInParts
<1>2. IInv /\ [Next]_vars => IInv'
  <2>1. IInv' <=> Places' /\ DataOK'
    BY IInvInParts, PTL
  <2> QED
    BY <2>1, IInvInParts, EveryStep
<1> QED
  BY <1>1, <1>2, PTL DEF Spec

\* Every state is well-typed.
THEOREM TypeCorrect == Spec => []TypeOK
BY IInvAlways, PTL DEF IInv

\* No sequence of interrupts loses a PID or puts it in two places.
THEOREM PidsInOnePlace == Spec => []EveryPidInOnePlace
BY IInvAlways, PTL DEF IInv

\* Scheduler always finds a process.
THEOREM SchedulerNeverPanics == Spec => []NeverPanics
BY IInvAlways, PTL DEF IInv
-----------------------------------------------------------------------------
\* Nobody sleeps on mail.  Only five actions touch a mailbox.
LEMMA MailStep ==
  ASSUME Places, DataOK, NobodyWaitsOnMail, [Next]_vars
  PROVE  NobodyWaitsOnMail'
<1>1. mbox \in [PID -> Seq(Message)] /\ mbox_wait_q \in [PID -> Seq(PID)]
  BY DEF Places, WaitOK, DataOK
<1>2. run_pid \in PID
  BY RunningIsInNoQueue
<1>3. Range(<<>>) = {}
  BY DEF Range
<1>4. ASSUME NEW x \in PID, NEW d \in Data, MsgSndISR(x, d) PROVE NobodyWaitsOnMail'
  <2>1. CASE mbox_wait_q[x] = <<>>
    BY <1>1, <1>3, <1>4, <2>1 DEF MsgSndISR, Enqueue, HandOff, NobodyWaitsOnMail, OnMbox
  <2>2. CASE mbox_wait_q[x] # <<>>
    <3>1. Tail(mbox_wait_q[x]) = <<>>
      BY <2>2, MboxWaiters DEF Places
    <3>2. mbox_wait_q' = [mbox_wait_q EXCEPT ![x] = <<>>] /\ mbox' = mbox
      BY <1>4, <2>2, <3>1 DEF MsgSndISR, Enqueue, HandOff
    <3> QED
      BY <1>1, <1>3, <3>2 DEF NobodyWaitsOnMail, OnMbox
  <2> QED
    BY <2>1, <2>2
<1>5. CASE Receive(run_pid)
  <2>1. OnMbox(run_pid) = {} /\ mbox_wait_q' = mbox_wait_q
    BY <1>2, <1>5 DEF Receive, NobodyWaitsOnMail
  <2>2. \A x \in PID : x # run_pid => mbox'[x] = mbox[x]
    BY <1>1, <1>5 DEF Receive
  <2> QED
    BY <2>1, <2>2 DEF NobodyWaitsOnMail, OnMbox
<1>6. CASE AwaitMail(run_pid)
  <2>1. mbox' = mbox /\ mbox[run_pid] = <<>>
    BY <1>6 DEF AwaitMail
  <2>2. \A x \in PID : x # run_pid => mbox_wait_q'[x] = mbox_wait_q[x]
    BY <1>1, <1>6 DEF AwaitMail
  <2> QED
    BY <2>1, <2>2 DEF NobodyWaitsOnMail, OnMbox
<1>7. CASE ForkISR
  <2> DEFINE child == Head(unused_q)
  <2>1. /\ mbox' = [mbox EXCEPT ![child] = <<>>]
        /\ mbox_wait_q' = [mbox_wait_q EXCEPT ![child] = <<>>]
    BY <1>7 DEF ForkISR
  <2> QED
    BY <1>1, <1>3, <2>1 DEF NobodyWaitsOnMail, OnMbox
<1>8. CASE UNCHANGED mailVars
  BY <1>8 DEF mailVars, NobodyWaitsOnMail, OnMbox
<1>9. \/ UNCHANGED mailVars
      \/ MsgSndIntr \/ MsgRcvIntr \/ ForkISR
  BY DEF Next, TimerIntr, SleepIntr, SemIntr, DeviceIntr, WaitISR, ExitISR, vars
<1> QED
  BY <1>4, <1>5, <1>6, <1>7, <1>8, <1>9 DEF MsgSndIntr, MsgRcvIntr, MsgRcvISR

\* While a process waits on a mailbox, nothing is in that mailbox.
THEOREM NoSleepOnMail == Spec => []NobodyWaitsOnMail
<1>1. Init => NobodyWaitsOnMail
  BY DEF Init, MailInit, NobodyWaitsOnMail
<1>2. IInv /\ NobodyWaitsOnMail /\ [Next]_vars => NobodyWaitsOnMail'
  BY IInvInParts, MailStep
<1> QED
  BY <1>1, <1>2, IInvAlways, PTL DEF Spec
-----------------------------------------------------------------------------
\* NoLostExit for the states st that an ISR hands to Scheduler.
NoLost(st) ==
  \A p \in PID : st[p] = "WAIT4CHILD" =>
    ~ \E c \in PID : ppid'[c] = p /\ st[c] = "ZOMBIE"

LEMMA NoLostDispatch ==
  ASSUME NEW rp, NEW pq, NEW st, ReadyOK(rp, pq, st), Scheduler(rp, pq, st), NoLost(st)
  PROVE  NoLostExit'
<1>1. \A p \in PID : state'[p] = st[p] \/ {state'[p], st[p]} \subseteq Runnable
  BY SchedulerFacts
<1>2. \A p \in PID : /\ state'[p] = "WAIT4CHILD" => st[p] = "WAIT4CHILD"
                     /\ state'[p] = "ZOMBIE" => st[p] = "ZOMBIE"
  BY <1>1 DEF Runnable
<1> QED
  BY <1>2 DEF NoLost, NoLostExit

\* Handlers that neither end a process, nor block one in Wait, nor fork.
LEMMA NoLostElsewhere ==
  ASSUME NoLostExit, ppid' = ppid, NEW st,
         \A p \in PID : /\ st[p] = "WAIT4CHILD" => state[p] = "WAIT4CHILD"
                        /\ st[p] = "ZOMBIE" => state[p] = "ZOMBIE"
  PROVE  /\ NoLost(st)
         /\ state' = st => NoLostExit'
BY DEF NoLost, NoLostExit

LEMMA NoLostBlocked ==
  ASSUME Places, NoLostExit, ppid' = ppid, run_pid # 0, NEW v \in {"SLEEP", "WAIT"},
         Scheduler(NONE, proc_q, [state EXCEPT ![run_pid] = v])
  PROVE  NoLostExit'
<1> DEFINE st == [state EXCEPT ![run_pid] = v]
<1>1. ReadyOK(NONE, proc_q, st)
  BY RunningBlocks DEF State, Runnable
<1>2. \A p \in PID : st[p] = v \/ st[p] = state[p]
  BY RunningIsInNoQueue
<1> HIDE DEF st
<1>3. NoLost(st)
  BY <1>2, NoLostElsewhere
<1> SUFFICES ASSUME Scheduler(NONE, proc_q, st) PROVE NoLostExit'
  BY DEF st
<1> QED
  BY <1>1, <1>3, NoLostDispatch

LEMMA NoLostReady ==
  ASSUME Places, NoLostExit, ppid' = ppid, NEW p \in PID, NEW v \in Runnable, NEW pq,
         Scheduler(run_pid, pq, [state EXCEPT ![p] = v])
  PROVE  NoLostExit'
<1>1. run_pid # NONE /\ state \in [PID -> State]
  BY RunningIsInNoQueue, PidFacts
<1>2. state' = [state EXCEPT ![p] = v]
  BY <1>1 DEF Scheduler
<1>3. \A r \in PID : state'[r] = v \/ state'[r] = state[r]
  BY <1>1, <1>2
<1> QED
  BY <1>3, NoLostElsewhere DEF Runnable

LEMMA NoLostTimer ==
  ASSUME Places, DataOK, NoLostExit, TimerIntr
  PROVE  NoLostExit'
<1> DEFINE now == Wrap(system_time + 1)
           st == StateAfterTick(now)
           pq == EnQAll(Woken(now), proc_q)
           st2 == [st EXCEPT ![run_pid] = "READY"]
<1>1. now \in Int
  BY WrapInTime DEF DataOK, Time
<1>2. /\ sleep_q' = StillAsleep(now)
      /\ ppid' = ppid
  BY DEF TimerIntr, TimerISR, TickInSlice, EndOfSlice, Tick, pageVars
<1>3. ReadyOK(run_pid, pq, st)
  BY <1>1, <1>2, TickFacts
<1>4. run_pid \in PID
  BY RunningIsInNoQueue
<1>5. \A p \in PID : st[p] = "READY" \/ st[p] = state[p]
  BY DEF StateAfterTick
<1>6. \/ Scheduler(run_pid, pq, st)
      \/ Scheduler(NONE, EnQ(run_pid, pq), st2)
  BY DEF TimerIntr, TimerISR, TickInSlice, EndOfSlice
<1> HIDE DEF now, st, pq
<1>7. CASE Scheduler(run_pid, pq, st)
  <2>1. NoLost(st)
    BY <1>2, <1>5, NoLostElsewhere
  <2> QED
    BY <1>3, <1>7, <2>1, NoLostDispatch
<1>8. CASE Scheduler(NONE, EnQ(run_pid, pq), st2)
  <2>1. ReadyOK(NONE, EnQ(run_pid, pq), st2)
    BY <1>3, <1>4, Preempted
  <2>2. \A p \in PID : st2[p] = "READY" \/ st2[p] = state[p]
    BY <1>3, <1>4, <1>5 DEF ReadyOK
  <2> HIDE DEF st2
  <2>3. NoLost(st2)
    BY <1>2, <2>2, NoLostElsewhere
  <2> QED
    BY <1>8, <2>1, <2>3, NoLostDispatch
<1> QED
  BY <1>6, <1>7, <1>8

LEMMA NoLostFork ==
  ASSUME Places, DataOK, NoLostExit, ForkISR
  PROVE  NoLostExit'
<1> DEFINE child == Head(unused_q)
<1>1. /\ unused_q # <<>>
      /\ ppid' = [ppid EXCEPT ![child] = run_pid]
      /\ Scheduler(run_pid, EnQ(child, proc_q), [state EXCEPT ![child] = "READY"])
  BY DEF ForkISR
<1>2. child \in PID
  BY <1>1, HeadTailFacts DEF Places, UnusedOK
<1>3. run_pid # NONE /\ state \in [PID -> State] /\ ppid \in [PID -> PID]
  BY RunningIsInNoQueue, PidFacts DEF DataOK
<1>4. state' = [state EXCEPT ![child] = "READY"]
  BY <1>1, <1>3 DEF Scheduler
<1> HIDE DEF child
<1>5. state'[child] = "READY" /\ \A p \in PID : p # child => state'[p] = state[p]
  BY <1>2, <1>3, <1>4
<1>6. \A p \in PID : p # child => ppid'[p] = ppid[p]
  BY <1>1, <1>3
<1> QED
  BY <1>5, <1>6 DEF NoLostExit

LEMMA NoLostWait ==
  ASSUME Places, DataOK, NoLostExit, WaitISR
  PROVE  NoLostExit'
<1>1. run_pid # 0
  BY InitProcRuns DEF WaitISR, Blocking
<1>2. run_pid \in PID /\ state[run_pid] = "RUN" /\ state \in [PID -> State]
  BY RunningIsInNoQueue
<1>3. CASE WaitForChild
  <2> DEFINE st == [state EXCEPT ![run_pid] = "WAIT4CHILD"]
  <2>1. /\ Scheduler(NONE, proc_q, st)
        /\ ppid' = ppid
        /\ ChildrenExited = {}
    BY <1>3 DEF WaitForChild, pageVars
  <2>2. ReadyOK(NONE, proc_q, st)
    BY <1>1, RunningBlocks DEF State, Runnable
  <2>3. st[run_pid] = "WAIT4CHILD" /\ \A p \in PID : p # run_pid => st[p] = state[p]
    BY <1>2
  <2> HIDE DEF st
  <2>4. \A c \in PID : ppid[c] = run_pid => state[c] # "ZOMBIE"
    BY <2>1 DEF ChildrenExited
  <2>5. NoLost(st)
    BY <2>1, <2>3, <2>4 DEF NoLost, NoLostExit
  <2> QED
    BY <2>1, <2>2, <2>5, NoLostDispatch
<1>4. CASE ReapChild
  <2>1. /\ ppid' = ppid
        /\ state' = [state EXCEPT ![Min(ChildrenExited)] = "UNUSED"]
    BY <1>4 DEF ReapChild
  <2>2. \A p \in PID : state'[p] = "UNUSED" \/ state'[p] = state[p]
    BY <1>2, <2>1
  <2> QED
    BY <2>1, <2>2, NoLostElsewhere
<1>5. CASE ReportChildOnly
  BY <1>5 DEF ReportChildOnly, procVars, NoLostExit
<1> QED
  BY <1>3, <1>4, <1>5 DEF WaitISR

LEMMA NoLostEnd ==
  ASSUME Places, DataOK, NoLostExit, ExitISR
  PROVE  NoLostExit'
<1> DEFINE parent == ppid[run_pid]
<1>1. run_pid # 0
  BY InitProcRuns DEF ExitISR, Blocking
<1>2. run_pid \in PID /\ state[run_pid] = "RUN" /\ state \in [PID -> State]
  BY RunningIsInNoQueue
<1>3. parent \in PID
  BY <1>2 DEF DataOK
\* The parent, which is not in Wait, will find the zombie.
<1>4. CASE BecomeZombie
  <2> DEFINE st == [state EXCEPT ![run_pid] = "ZOMBIE"]
  <2>1. /\ Scheduler(NONE, proc_q, st)
        /\ ppid' = ppid
        /\ state[parent] # "WAIT4CHILD"
    BY <1>4 DEF BecomeZombie, pageVars
  <2>2. ReadyOK(NONE, proc_q, st)
    BY <1>1, RunningBlocks DEF State, Runnable
  <2>3. st[run_pid] = "ZOMBIE" /\ \A p \in PID : p # run_pid => st[p] = state[p]
    BY <1>2
  <2> HIDE DEF st
  <2>4. NoLost(st)
    BY <2>1, <2>3 DEF NoLost, NoLostExit
  <2> QED
    BY <2>1, <2>2, <2>4, NoLostDispatch
<1>5. CASE EndForParent
  <2> DEFINE st1 == [state EXCEPT ![parent] = "READY"]
             st2 == [st1 EXCEPT ![run_pid] = "UNUSED"]
  <2>1. /\ state[parent] = "WAIT4CHILD"
        /\ ppid' = ppid
        /\ Scheduler(NONE, EnQ(parent, proc_q), st2)
    BY <1>5 DEF EndForParent, ReleaseParent
  <2>2. ReadyOK(run_pid, EnQ(parent, proc_q), st1)
    BY <1>3, <2>1, BecomesReady DEF Places, Runnable
  <2>3. ReadyOK(NONE, EnQ(parent, proc_q), st2)
    <3> HIDE DEF st1, parent
    <3> QED
      BY <1>1, <1>2, <2>2, OffProcessor DEF State, Runnable
  <2>4. \A p \in PID : st2[p] \in {"READY", "UNUSED"} \/ st2[p] = state[p]
    BY <1>2, <1>3
  <2> HIDE DEF st2, st1, parent
  <2>5. NoLost(st2)
    BY <2>1, <2>4, NoLostElsewhere
  <2> QED
    BY <2>1, <2>3, <2>5, NoLostDispatch
<1>6. CASE RunOnAfterExit
  <2>1. /\ ppid' = ppid
        /\ Scheduler(run_pid, EnQ(parent, proc_q), [state EXCEPT ![parent] = "READY"])
    BY <1>6 DEF RunOnAfterExit, ReleaseParent
  <2> QED
    BY <1>3, <2>1, NoLostReady DEF Runnable
<1> QED
  BY <1>4, <1>5, <1>6 DEF ExitISR

LEMMA NoLostStep ==
  ASSUME Places, DataOK, NoLostExit, [Next]_vars
  PROVE  NoLostExit'
<1>1. CASE SleepIntr
  <2>1. PICK seconds \in SleepArgs : SleepISR(seconds)
    BY <1>1 DEF SleepIntr
  <2>2. run_pid # 0
    BY <2>1, InitProcRuns DEF SleepISR, Blocking
  <2>3. ppid' = ppid
    BY <1>1 DEF SleepIntr, pageVars
  <2> QED
    BY <2>1, <2>2, <2>3, NoLostBlocked DEF SleepISR
<1>2. ASSUME NEW s \in SEM, SemPostISR(s), ppid' = ppid PROVE NoLostExit'
  <2>1. CASE PostLeavesPass(s)
    BY <1>2, <2>1 DEF PostLeavesPass, procVars, NoLostExit
  <2>2. CASE PostWakes(s)
    <3>1. Head(sem_wait_q[s]) \in PID
      BY <2>2, HeadTailFacts DEF PostWakes, Places, WaitOK
    <3> QED
      BY <1>2, <2>2, <3>1, NoLostReady DEF PostWakes, Runnable
  <2> QED
    BY <1>2, <2>1, <2>2 DEF SemPostISR
<1>3. ASSUME NEW s \in SEM, SemWaitISR(s), ppid' = ppid PROVE NoLostExit'
  <2>1. run_pid # 0
    BY <1>3, InitProcRuns DEF SemWaitISR, Blocking
  <2>2. CASE WaitTakesPass(s)
    BY <1>3, <2>2 DEF WaitTakesPass, procVars, NoLostExit
  <2>3. CASE WaitBlocks(s)
    BY <1>3, <2>1, <2>3, NoLostBlocked DEF WaitBlocks
  <2> QED
    BY <1>3, <2>2, <2>3 DEF SemWaitISR
<1>4. CASE SemIntr
  <2>1. ppid' = ppid
    BY <1>4 DEF SemIntr, pageVars
  <2>2. CASE SemGetISR
    BY <2>1, <2>2 DEF SemGetISR, procVars, NoLostExit
  <2> QED
    BY <1>2, <1>3, <1>4, <2>1, <2>2 DEF SemIntr, SemPost
<1>5. CASE DeviceIntr
  BY <1>2, <1>5, SemaphoreAssumption DEF DeviceIntr, DevicePost, pageVars
<1>6. CASE MsgSndIntr
  <2>1. PICK x \in PID, d \in Data : MsgSndISR(x, d)
    BY <1>6 DEF MsgSndIntr
  <2> DEFINE m == [sender |-> run_pid, data |-> d]
  <2>2. ppid' = ppid
    BY <1>6 DEF MsgSndIntr, pageVars
  <2>3. CASE Enqueue(x, m)
    BY <2>2, <2>3 DEF Enqueue, procVars, NoLostExit
  <2>4. CASE HandOff(x, m)
    <3>1. Head(mbox_wait_q[x]) \in PID
      BY <2>4, HeadTailFacts DEF HandOff, Places, WaitOK
    <3> QED
      BY <2>2, <2>4, <3>1, NoLostReady DEF HandOff, Runnable
  <2> QED
    BY <2>1, <2>3, <2>4 DEF MsgSndISR
<1>7. CASE MsgRcvIntr
  <2>1. ppid' = ppid /\ MsgRcvISR
    BY <1>7 DEF MsgRcvIntr, pageVars
  <2>2. run_pid # 0
    BY <2>1, InitProcRuns DEF MsgRcvISR, Blocking
  <2>3. CASE Receive(run_pid)
    BY <2>1, <2>3 DEF Receive, procVars, NoLostExit
  <2>4. CASE AwaitMail(run_pid)
    BY <2>1, <2>2, <2>4, NoLostBlocked DEF AwaitMail
  <2> QED
    BY <2>1, <2>3, <2>4 DEF MsgRcvISR
<1>8. CASE UNCHANGED vars
  BY <1>8 DEF vars, procVars, pageVars, NoLostExit
<1> QED
  BY <1>1, <1>4, <1>5, <1>6, <1>7, <1>8, NoLostTimer, NoLostFork, NoLostWait,
     NoLostEnd DEF Next

\* Neither order of Wait and Exit loses the wake-up of the parent.
THEOREM ExitIsNeverLost == Spec => []NoLostExit
<1>1. Init => NoLostExit
  BY DEF Init, ProcInit, NoLostExit
<1>2. IInv /\ NoLostExit /\ [Next]_vars => NoLostExit'
  BY IInvInParts, NoLostStep
<1> QED
  BY <1>1, <1>2, IInvAlways, PTL DEF Spec
-----------------------------------------------------------------------------
\* The pool of pages.  Until the first Wait that reaps a child, the free pages
\* are those behind all used ones, with their frames.
PoolClean ==
  /\ \A k \in FreePages : page_addr[k] = k + 1
  /\ \A j \in Page \ FreePages, k \in FreePages : j < k
  /\ \A p \in Forked : \A f \in frames[p] : f - 1 \in Page \ FreePages

\* From then on one page at most is free, and those behind it belong to PID 0.
PoolDamaged ==
  \E m \in Page : /\ FreePages \subseteq {m}
                  /\ \A k \in Page : k > m => page_pid[k] = 0

PoolOK == PoolClean \/ PoolDamaged

\* In a clean pool Fork takes PAGES pages in a row.
LEMMA CleanPages ==
  ASSUME DataOK, PoolClean, Cardinality(FreePages) >= PAGES
  PROVE  \E u \in Page :
           /\ u + PAGES <= NPAGES
           /\ FreePages = u .. NPAGES-1
           /\ FirstPages(FreePages, PAGES) = u .. u + PAGES - 1
<1> DEFINE u == Min(FreePages)
<1>1. NPAGES \in Nat /\ PAGES \in Nat \ {0} /\ Page = 0 .. NPAGES-1
  BY NPagesType, PagesAssumption DEF Page
<1>2. FreePages \subseteq Page /\ IsFiniteSet(FreePages)
  <2>1. IsFiniteSet(Page)
    BY <1>1, FS_Interval
  <2> QED
    BY <2>1, FS_Subset DEF FreePages
<1>3. FreePages # {}
  BY <1>1, FS_EmptySet
<1>4. u \in FreePages /\ \A k \in FreePages : u <= k
  BY <1>1, <1>2, <1>3, MinFacts
<1> HIDE DEF u
<1>5. FreePages = u .. NPAGES-1
  <2>1. ASSUME NEW k \in u .. NPAGES-1 PROVE k \in FreePages
    BY <1>1, <1>2, <1>4, <2>1 DEF PoolClean
  <2>2. ASSUME NEW k \in FreePages PROVE k \in u .. NPAGES-1
    BY <1>1, <1>2, <1>4
  <2> QED
    BY <2>1, <2>2
<1>6. u + PAGES <= NPAGES
  <2>1. Cardinality(u .. NPAGES-1) = NPAGES - u
    BY <1>1, <1>2, <1>4, FS_Interval
  <2> QED
    BY <1>1, <1>2, <1>4, <1>5, <2>1
<1>7. ASSUME NEW k \in FreePages PROVE Cardinality({j \in FreePages : j < k}) = k - u
  <2>1. u \in Int /\ k \in Int /\ u <= k /\ k <= NPAGES-1
    BY <1>1, <1>2, <1>4
  <2>2. {j \in FreePages : j < k} = u .. k-1
    BY <1>1, <1>5, <2>1
  <2>3. Cardinality(u .. k-1) = k - u
    <3>1. k-1 \in Int
      BY <2>1
    <3>2. Cardinality(u .. k-1) = IF u > k-1 THEN 0 ELSE (k-1)-u+1
      BY <2>1, <3>1, FS_Interval
    <3> QED
      BY <2>1, <3>2
  <2> QED
    BY <2>2, <2>3, Zenon
<1>8. FirstPages(FreePages, PAGES) = u .. u + PAGES - 1
  BY <1>1, <1>2, <1>4, <1>5, <1>6, <1>7 DEF FirstPages
<1> QED
  BY <1>2, <1>4, <1>5, <1>6, <1>8

LEMMA PoolFork ==
  ASSUME PAGES >= 2, Places, Places', DataOK, PoolOK, MemoryIsolation, ForkISR
  PROVE  PoolOK' /\ MemoryIsolation'
<1> DEFINE child == Head(unused_q)
           pages == FirstPages(FreePages, PAGES)
<1>1. /\ unused_q # <<>> /\ unused_q' = Tail(unused_q)
      /\ Cardinality(FreePages) >= PAGES
      /\ page_pid' = [k \in Page |-> IF k \in pages THEN child ELSE page_pid[k]]
      /\ frames' = [frames EXCEPT ![child] = {page_addr[k] : k \in pages}]
      /\ page_addr' = page_addr
  BY DEF ForkISR
<1>2. child \in PID /\ Range(unused_q') = Range(unused_q) \ {child}
  BY <1>1, HeadTailFacts DEF Places, UnusedOK
<1>3. PoolClean
  <2>1. ASSUME NEW m \in Page, FreePages \subseteq {m} PROVE FALSE
    <3>1. FreePages = {} \/ FreePages = {m}
      BY <2>1
    <3>2. Cardinality(FreePages) = 0 \/ Cardinality(FreePages) = 1
      BY <3>1, FS_EmptySet, FS_Singleton, Zenon
    <3> QED
      BY <1>1, <3>2, PagesAssumption
  <2> QED
    BY <2>1 DEF PoolOK, PoolDamaged
<1>4. PICK u \in Page : /\ u + PAGES <= NPAGES
                        /\ FreePages = u .. NPAGES-1
                        /\ pages = u .. u + PAGES - 1
  BY <1>1, <1>3, CleanPages
<1>5. NPAGES \in Nat /\ PAGES \in Nat \ {0} /\ Page = 0 .. NPAGES-1 /\ u \in Nat
  BY NPagesType, PagesAssumption DEF Page
<1> HIDE DEF child, pages
<1>6. FreePages' = FreePages \ pages
  BY <1>1, <1>2, PidFacts DEF FreePages
<1>7. /\ frames'[child] = u + 1 .. u + PAGES
      /\ \A p \in PID : p # child => frames'[p] = frames[p]
  <2>1. {page_addr[k] : k \in pages} = {k + 1 : k \in pages}
    <3>1. \A k \in pages : page_addr[k] = k + 1
      BY <1>3, <1>4, <1>5 DEF PoolClean
    <3> QED
      BY <3>1
  <2>2. {k + 1 : k \in pages} = u + 1 .. u + PAGES
    <3>1. ASSUME NEW f \in u + 1 .. u + PAGES PROVE f \in {k + 1 : k \in pages}
      <4>1. f - 1 \in pages /\ f = (f - 1) + 1
        BY <1>4, <1>5
      <4> QED
        BY <4>1
    <3> QED
      BY <1>4, <1>5, <3>1
  <2> QED
    BY <1>1, <1>2, <2>1, <2>2 DEF DataOK
<1>8. \A p \in Forked' : p \in PID /\ (p # child => p \in Forked)
  BY <1>2 DEF Forked, Places, UnusedOK
<1>9. PoolClean'
  <2>1. \A k \in FreePages' : page_addr'[k] = k + 1
    BY <1>1, <1>3, <1>6 DEF PoolClean
  <2>2. \A j \in Page \ FreePages', k \in FreePages' : j < k
    BY <1>4, <1>5, <1>6
  <2>3. \A p \in Forked' : \A f \in frames'[p] : f - 1 \in Page \ FreePages'
    BY <1>3, <1>4, <1>5, <1>6, <1>7, <1>8 DEF PoolClean
  <2> QED
    BY <2>1, <2>2, <2>3 DEF PoolClean, Page
<1>10. MemoryIsolation'
  <2>1. Cardinality(frames'[child]) = PAGES /\ 0 \notin frames'[child]
    BY <1>5, <1>7, FS_Interval
  <2>2. \A p \in Forked : frames[p] \cap frames'[child] = {}
    <3> SUFFICES ASSUME NEW p \in Forked, NEW f \in frames[p],
                        f \in u + 1 .. u + PAGES
                 PROVE  FALSE
      BY <1>7
    <3>1. f - 1 \in Page \ FreePages
      BY <1>3 DEF PoolClean
    <3> QED
      BY <1>4, <1>5, <3>1
  <2>3. ASSUME NEW p \in Forked'
        PROVE  Cardinality(frames'[p]) = PAGES /\ 0 \notin frames'[p]
    <3>1. CASE p = child
      BY <2>1, <3>1
    <3>2. CASE p # child
      BY <1>7, <1>8, <3>2 DEF MemoryIsolation
    <3> QED
      BY <3>1, <3>2
  <2>4. ASSUME NEW p \in Forked', NEW r \in Forked', p # r
        PROVE  frames'[p] \cap frames'[r] = {}
    <3>1. CASE p = child
      BY <1>7, <1>8, <2>2, <2>4, <3>1
    <3>2. CASE r = child
      BY <1>7, <1>8, <2>2, <2>4, <3>2
    <3>3. CASE p # child /\ r # child
      BY <1>7, <1>8, <2>4, <3>3 DEF MemoryIsolation
    <3> QED
      BY <3>1, <3>2, <3>3
  <2> QED
    BY <2>3, <2>4 DEF MemoryIsolation
<1> QED
  BY <1>9, <1>10 DEF PoolOK

\* Where no process is forked and no page becomes free, both hold on.
LEMMA PoolKept ==
  ASSUME Places, Places', PoolOK, MemoryIsolation,
         Range(unused_q) \subseteq Range(unused_q'), frames' = frames
  PROVE  /\ \A p \in Forked' : p \in Forked
         /\ MemoryIsolation'
         /\ UNCHANGED <<page_pid, page_addr>> => PoolOK'
<1>1. \A p \in Forked' : p \in Forked
  BY DEF Forked, Places, UnusedOK
<1>2. MemoryIsolation'
  BY <1>1 DEF MemoryIsolation
<1>3. ASSUME UNCHANGED <<page_pid, page_addr>> PROVE PoolOK'
  BY <1>1, <1>3 DEF PoolOK, PoolClean, PoolDamaged, FreePages, Page
<1> QED
  BY <1>1, <1>2, <1>3

\* Wait gives back one page, and everything behind it to PID 0.
LEMMA PoolReap ==
  ASSUME Places, Places', DataOK, PoolOK, MemoryIsolation, ReapChild
  PROVE  PoolOK' /\ MemoryIsolation'
<1> DEFINE child == Min(ChildrenExited)
           page == Min(PagesOf(child))
<1>1. /\ ChildrenExited # {} /\ PagesOf(child) # {}
      /\ page_pid' = [k \in Page |->
           IF k = page THEN NONE ELSE IF k > page THEN 0 ELSE page_pid[k]]
      /\ unused_q' = EnQ(child, unused_q) /\ frames' = frames
  BY DEF ReapChild
<1>2. child \in ChildrenExited
  BY <1>1, PidSets DEF ChildrenExited
<1>3. child \in PID /\ child # 0 /\ state[child] = "ZOMBIE"
  BY <1>2 DEF ChildrenExited, Places, ReadyOK, Runnable
<1>4. page \in PagesOf(child)
  BY <1>1, PidSets DEF PagesOf
<1> HIDE DEF page
<1>5. page \in Page /\ page_pid[page] = child /\ page \in Int
  BY <1>4, NPagesType DEF PagesOf, Page
<1>6. Range(unused_q) \subseteq Range(unused_q')
  <2>1. child \notin Range(unused_q)
    BY <1>3 DEF Places, UnusedOK
  <2> QED
    BY <1>1, <1>3, <2>1, EnQFacts DEF Places, UnusedOK
<1> HIDE DEF child
<1>7. MemoryIsolation'
  BY <1>1, <1>6, PoolKept
<1>8. \A k \in Page : page_pid'[k] = NONE =>
        k = page \/ (k < page /\ page_pid[k] = NONE)
  BY <1>1, <1>5, PidFacts, NPagesType DEF Page
<1>9. \A k \in Page : k < page => page_pid[k] # NONE
  <2>1. CASE PoolClean
    BY <1>3, <1>5, <2>1, PidFacts, NPagesType DEF PoolClean, FreePages, Page
  <2>2. CASE PoolDamaged
    <3>1. PICK m \in Page : /\ FreePages \subseteq {m}
                            /\ \A k \in Page : k > m => page_pid[k] = 0
      BY <2>2 DEF PoolDamaged
    <3> QED
      BY <1>3, <1>5, <3>1, NPagesType DEF FreePages, Page
  <2> QED
    BY <2>1, <2>2 DEF PoolOK
<1>10. /\ \A k \in Page : page_pid'[k] = NONE => k = page
       /\ \A k \in Page : k > page => page_pid'[k] = 0
  BY <1>1, <1>5, <1>8, <1>9
<1>11. PoolDamaged'
  BY <1>5, <1>10 DEF PoolDamaged, FreePages, Page
<1> QED
  BY <1>7, <1>11 DEF PoolOK

\* Exit gives one page to PID 0.
LEMMA PoolEnd ==
  ASSUME Places, Places', DataOK, PoolOK, MemoryIsolation, ExitISR, EndForParent
  PROVE  PoolOK' /\ MemoryIsolation'
<1> DEFINE page == Min(PagesOf(run_pid))
<1>1. /\ PagesOf(run_pid) # {} /\ frames' = frames
      /\ page_pid' = [page_pid EXCEPT ![page] = 0]
      /\ page_addr' = [page_addr EXCEPT ![page] = 0]
      /\ unused_q' = EnQ(run_pid, unused_q)
  BY DEF EndForParent
<1>2. run_pid \in PID /\ state[run_pid] = "RUN"
  BY RunningIsInNoQueue
<1>3. page \in PagesOf(run_pid)
  BY <1>1, PidSets DEF PagesOf
<1> HIDE DEF page
<1>4. page \in Page /\ page_pid[page] = run_pid
  BY <1>3 DEF PagesOf
<1>5. Range(unused_q) \subseteq Range(unused_q')
  <2>1. run_pid \notin Range(unused_q)
    BY <1>2 DEF Places, UnusedOK
  <2> QED
    BY <1>1, <1>2, <2>1, EnQFacts DEF Places, UnusedOK
<1>6. MemoryIsolation' /\ \A p \in Forked' : p \in Forked
  BY <1>1, <1>5, PoolKept
<1>7. /\ page_pid'[page] = 0 /\ page \notin FreePages
      /\ \A k \in Page : k # page =>
           page_pid'[k] = page_pid[k] /\ page_addr'[k] = page_addr[k]
  BY <1>1, <1>2, <1>4, PidFacts DEF DataOK, FreePages
<1>8. FreePages' = FreePages
  BY <1>4, <1>7, PidFacts, NPagesType DEF FreePages, Page
<1>9. CASE PoolClean
  <2>1. \A k \in FreePages : k \in Page /\ page_addr'[k] = page_addr[k]
    BY <1>7 DEF FreePages
  <2>2. PoolClean'
    BY <1>1, <1>6, <1>8, <1>9, <2>1 DEF PoolClean, Page
  <2> QED
    BY <1>6, <2>2 DEF PoolOK
<1>10. CASE PoolDamaged
  BY <1>6, <1>7, <1>8, <1>10 DEF PoolOK, PoolDamaged, Page
<1> QED
  BY <1>9, <1>10 DEF PoolOK

LEMMA PoolStep ==
  ASSUME PAGES >= 2, Places, Places', DataOK, PoolOK, MemoryIsolation, [Next]_vars
  PROVE  PoolOK' /\ MemoryIsolation'
<1>1. ASSUME UNCHANGED <<unused_q, frames, page_pid, page_addr>>
      PROVE  PoolOK' /\ MemoryIsolation'
  BY <1>1, PoolKept
<1>2. CASE TimerIntr \/ SleepIntr
  BY <1>1, <1>2 DEF TimerIntr, TimerISR, TickInSlice, EndOfSlice, Tick,
    SleepIntr, SleepISR, pageVars
<1>3. CASE SemIntr \/ DeviceIntr
  BY <1>1, <1>3 DEF SemIntr, SemGetISR, SemPost, SemPostISR, PostLeavesPass,
    PostWakes, SemWaitISR, WaitTakesPass, WaitBlocks, DeviceIntr, DevicePost,
    procVars, pageVars
<1>4. CASE MsgSndIntr \/ MsgRcvIntr
  BY <1>1, <1>4 DEF MsgSndIntr, MsgSndISR, Enqueue, HandOff, MsgRcvIntr, MsgRcvISR,
    Receive, AwaitMail, procVars, pageVars
<1>5. CASE ForkISR
  BY <1>5, PoolFork
<1>6. CASE WaitISR
  BY <1>1, <1>6, PoolReap DEF WaitISR, WaitForChild, ReportChildOnly, procVars, pageVars
<1>7. CASE ExitISR
  BY <1>1, <1>7, PoolEnd DEF ExitISR, BecomeZombie, RunOnAfterExit, pageVars
<1>8. CASE UNCHANGED vars
  BY <1>1, <1>8 DEF vars, procVars, pageVars
<1> QED
  BY <1>2, <1>3, <1>4, <1>5, <1>6, <1>7, <1>8 DEF Next

\* With two pages per process or more (the code has five), Fork never hands
\* out a frame that another process uses, nor one whose address was wiped.
THEOREM MemoryIsIsolated ==
  ASSUME PAGES >= 2
  PROVE  Spec => []MemoryIsolation
<1>1. Init => PoolOK /\ MemoryIsolation
  <2> SUFFICES ASSUME Init PROVE PoolOK /\ MemoryIsolation
    OBVIOUS
  <2>1. /\ page_pid = [k \in Page |-> NONE] /\ page_addr = [k \in Page |-> k + 1]
        /\ Forked = {}
    BY ProcessAssumption DEF Init, PageInit, ProcInit, Forked, PID
  <2>2. PoolClean /\ MemoryIsolation
    BY <2>1 DEF PoolClean, FreePages, MemoryIsolation
  <2> QED
    BY <2>2 DEF PoolOK
<1>2. IInv /\ PoolOK /\ MemoryIsolation /\ [Next]_vars
        => PoolOK' /\ MemoryIsolation'
  BY IInvInParts, EveryStep, PoolStep
<1>3. Spec => [](PoolOK /\ MemoryIsolation)
  BY <1>1, <1>2, IInvAlways, PTL DEF Spec
<1> QED
  BY <1>3, PTL
-----------------------------------------------------------------------------
\* pq is proc_q, possibly with processes queued behind.
Extends(pq) ==
  /\ pq \in Seq(PID)
  /\ Len(proc_q) <= Len(pq)
  /\ \A i \in 1 .. Len(proc_q) : pq[i] = proc_q[i]
-----------------------------------------------------------------------------
LEMMA SameQueueExtends == ASSUME Places PROVE Extends(proc_q)
BY LenProperties DEF Places, ReadyOK, Extends

LEMMA EnQExtends ==
  ASSUME NEW pq, Extends(pq), proc_q \in Seq(PID), NEW p \in PID
  PROVE  Extends(EnQ(p, pq))
<1>1. Len(pq) \in Nat /\ Len(proc_q) \in Nat
  BY LenProperties DEF Extends
<1>2. CASE Len(pq) < Q_SIZE
  <2>1. /\ Append(pq, p) \in Seq(PID)
        /\ Len(Append(pq, p)) = Len(pq) + 1
        /\ \A i \in 1 .. Len(pq) : Append(pq, p)[i] = pq[i]
    BY AppendProperties DEF Extends
  <2> QED
    BY <1>1, <1>2, <2>1 DEF EnQ, Extends
<1>3. CASE ~ Len(pq) < Q_SIZE
  BY <1>3 DEF EnQ
<1> QED
  BY <1>2, <1>3

LEMMA EnQAllExtends ==
  ASSUME Places, NEW s \in Seq(PID)
  PROVE  Extends(EnQAll(s, proc_q))
<1>1. /\ proc_q \in Seq(PID)
      /\ Len(proc_q) \in Nat /\ Len(s) \in Nat
      /\ Len(proc_q) <= Q_SIZE
  BY LenProperties, QueueFits, ProcessAssumption DEF Places, ReadyOK
<1>2. /\ proc_q \o s \in Seq(PID)
      /\ Len(proc_q \o s) = Len(proc_q) + Len(s)
      /\ \A i \in 1 .. Len(proc_q) : (proc_q \o s)[i] = proc_q[i]
  BY <1>1, ConcatProperties
<1>3. CASE Len(proc_q) + Len(s) <= Q_SIZE
  BY <1>1, <1>2, <1>3 DEF EnQAll, Extends
<1>4. CASE ~ Len(proc_q) + Len(s) <= Q_SIZE
  <2> DEFINE r == SubSeq(proc_q \o s, 1, Q_SIZE)
  <2>1. Q_SIZE \in Nat /\ Q_SIZE <= Len(proc_q \o s)
    BY <1>1, <1>2, <1>4, ProcessAssumption
  <2>2. /\ r \in Seq(PID)
        /\ Len(r) = Q_SIZE
        /\ \A i \in 1 .. Q_SIZE : r[i] = (proc_q \o s)[i]
    BY <1>2, <2>1
  <2>3. \A i \in 1 .. Len(proc_q) : r[i] = proc_q[i]
    BY <1>1, <1>2, <2>2, ProcessAssumption
  <2> HIDE DEF r
  <2>4. Extends(r)
    BY <1>1, <2>2, <2>3 DEF Extends
  <2> QED
    BY <1>4, <2>4 DEF EnQAll, r
<1> QED
  BY <1>3, <1>4

\* Scheduler takes the first of proc_q, and the others move up.
LEMMA SchedulerInOrder ==
  ASSUME Places, NEW rp \in {run_pid, NONE}, NEW pq, Extends(pq), NEW st,
         Scheduler(rp, pq, st)
  PROVE  InOrder
<1>1. /\ proc_q \in Seq(PID) /\ pq \in Seq(PID)
      /\ Len(proc_q) \in Nat /\ Len(pq) \in Nat
      /\ DOMAIN proc_q = 1 .. Len(proc_q) /\ DOMAIN pq = 1 .. Len(pq)
      /\ Len(proc_q) <= Len(pq)
      /\ \A i \in 1 .. Len(proc_q) : pq[i] = proc_q[i]
  BY LenProperties DEF Places, ReadyOK, Extends
<1>2. CASE rp = NONE /\ pq # <<>>
  <2>1. /\ run_pid' = Head(pq) /\ proc_q' = Tail(pq)
        /\ Head(pq) = pq[1]
        /\ DOMAIN Tail(pq) = 1 .. Len(pq) - 1
        /\ \A j \in 1 .. Len(pq) - 1 : Tail(pq)[j] = pq[j + 1]
    BY <1>1, <1>2, HeadTailProperties DEF Scheduler
  <2>2. ASSUME NEW i \in 1 .. Len(proc_q), i # 1
        PROVE  \E j \in DOMAIN proc_q' : proc_q'[j] = proc_q[i] /\ j < i /\ j <= i
    <3>1. i - 1 \in 1 .. Len(pq) - 1 /\ proc_q'[i - 1] = proc_q[i]
      BY <1>1, <2>1, <2>2
    <3> QED
      BY <2>1, <3>1
  <2>3. ASSUME NEW i \in 1 .. Len(proc_q), i = 1 PROVE run_pid' = proc_q[i]
    BY <1>1, <2>1, <2>3
  <2> QED
    BY <1>1, <2>2, <2>3 DEF InOrder
<1>3. CASE ~ (rp = NONE /\ pq # <<>>)
  <2>1. run_pid' = rp /\ proc_q' = pq
    BY <1>3 DEF Scheduler
  <2>2. CASE rp = NONE
    <3>1. Len(proc_q) = 0
      BY <1>1, <1>3, <2>2, EmptySeq
    <3> QED
      BY <1>1, <3>1 DEF InOrder
  <2>3. CASE rp = run_pid
    BY <1>1, <2>1, <2>3 DEF InOrder
  <2> QED
    BY <2>2, <2>3
<1> QED
  BY <1>2, <1>3

LEMMA StayInOrder ==
  ASSUME Places, UNCHANGED <<run_pid, proc_q>>
  PROVE  InOrder
BY LenProperties DEF InOrder, Places, ReadyOK
-----------------------------------------------------------------------------
LEMMA TimerInOrder == ASSUME Places, DataOK, TimerISR PROVE InOrder
<1> DEFINE now == Wrap(system_time + 1)
           pq == EnQAll(Woken(now), proc_q)
<1>1. now \in Int
  BY WrapInTime DEF Time, DataOK
<1>2. Extends(pq)
  BY <1>1, TickSplitsSleepers, EnQAllExtends
<1> HIDE DEF now
<1>3. CASE TickInSlice
  BY <1>2, <1>3, SchedulerInOrder DEF TickInSlice, now
<1>4. CASE EndOfSlice
  <2>1. Extends(EnQ(run_pid, pq))
    BY <1>2, EnQExtends, RunningIsInNoQueue DEF Places, ReadyOK
  <2> QED
    BY <1>4, <2>1, SchedulerInOrder DEF EndOfSlice, now
<1> QED
  BY <1>3, <1>4 DEF TimerISR

\* A post, a message and the end of a child queue the process they free.
LEMMA FreedInOrder ==
  ASSUME Places, NEW rp \in {run_pid, NONE}, NEW freed \in PID, NEW st,
         Scheduler(rp, EnQ(freed, proc_q), st)
  PROVE  InOrder
BY SameQueueExtends, EnQExtends, SchedulerInOrder DEF Places, ReadyOK

LEMMA BlocksInOrder ==
  ASSUME Places, NEW st, Scheduler(NONE, proc_q, st)
  PROVE  InOrder
BY SameQueueExtends, SchedulerInOrder

LEMMA PostInOrder == ASSUME Places, NEW s \in SEM, SemPostISR(s) PROVE InOrder
<1>1. CASE PostLeavesPass(s)
  BY <1>1, StayInOrder DEF PostLeavesPass, procVars
<1>2. CASE PostWakes(s)
  <2>1. Head(sem_wait_q[s]) \in PID
    BY <1>2, HeadTailFacts DEF PostWakes, Places, WaitOK
  <2> QED
    BY <1>2, <2>1, FreedInOrder DEF PostWakes
<1> QED
  BY <1>1, <1>2 DEF SemPostISR

LEMMA SemInOrder == ASSUME Places, SemIntr PROVE InOrder
<1>1. CASE SemGetISR
  BY <1>1, StayInOrder DEF SemGetISR, procVars
<1>2. ASSUME NEW s \in SEM, SemWaitISR(s) PROVE InOrder
  BY <1>2, StayInOrder, BlocksInOrder
    DEF SemWaitISR, WaitTakesPass, WaitBlocks, procVars
<1> QED
  BY <1>1, <1>2, PostInOrder DEF SemIntr, SemPost

LEMMA MailInOrder == ASSUME Places, MsgSndIntr \/ MsgRcvIntr PROVE InOrder
<1>1. ASSUME NEW x \in PID, NEW m, HandOff(x, m) PROVE InOrder
  <2>1. Head(mbox_wait_q[x]) \in PID
    BY <1>1, HeadTailFacts DEF HandOff, Places, WaitOK
  <2> QED
    BY <1>1, <2>1, FreedInOrder DEF HandOff
<1>2. CASE MsgSndIntr
  BY <1>1, <1>2, StayInOrder DEF MsgSndIntr, MsgSndISR, Enqueue, procVars
<1>3. CASE MsgRcvIntr
  BY <1>3, StayInOrder, BlocksInOrder
    DEF MsgRcvIntr, MsgRcvISR, Receive, AwaitMail, procVars
<1> QED
  BY <1>2, <1>3

LEMMA ForkInOrder == ASSUME Places, ForkISR PROVE InOrder
<1>1. Head(unused_q) \in PID
  BY HeadTailFacts DEF ForkISR, Places, UnusedOK
<1> QED
  BY <1>1, FreedInOrder DEF ForkISR

LEMMA WaitInOrder == ASSUME Places, WaitISR PROVE InOrder
BY StayInOrder, BlocksInOrder
  DEF WaitISR, WaitForChild, ReapChild, ReportChildOnly, procVars

LEMMA ExitInOrder == ASSUME Places, DataOK, ExitISR PROVE InOrder
<1>1. ppid[run_pid] \in PID
  BY RunningIsInNoQueue DEF DataOK
<1>2. CASE BecomeZombie
  BY <1>2, BlocksInOrder DEF BecomeZombie
<1>3. CASE EndForParent
  BY <1>1, <1>3, FreedInOrder DEF EndForParent
<1>4. CASE RunOnAfterExit
  BY <1>1, <1>4, FreedInOrder DEF RunOnAfterExit
<1> QED
  BY <1>2, <1>3, <1>4 DEF ExitISR

LEMMA StepInOrder == ASSUME Places, DataOK, [Next]_vars PROVE InOrder
<1>1. CASE TimerIntr
  BY <1>1, TimerInOrder DEF TimerIntr
<1>2. CASE SleepIntr
  BY <1>2, BlocksInOrder DEF SleepIntr, SleepISR
<1>3. CASE DeviceIntr
  BY <1>3, PostInOrder, SemaphoreAssumption DEF DeviceIntr, DevicePost
<1>4. CASE UNCHANGED vars
  BY <1>4, StayInOrder DEF vars, procVars
<1> QED
  BY <1>1, <1>2, <1>3, <1>4, SemInOrder, MailInOrder, ForkInOrder,
     WaitInOrder, ExitInOrder DEF Next

\* Whatever interrupts come, a process in proc_q is not overtaken.
THEOREM NobodyIsOvertaken == Spec => NobodyOvertakes
<1>1. IInv /\ [Next]_vars => InOrder
  BY IInvInParts, StepInOrder
<1> QED
  BY <1>1, IInvAlways, PTL DEF Spec, NobodyOvertakes
-----------------------------------------------------------------------------
\* A semaphore with waiters has no pass to give.
NoPassLeft == \A s \in SEM : sem_wait_q[s] # <<>> => pass_count[s] = 0

\* The values that PassesConserved gives to the abstract variables.
Value == [s \in SEM |-> pass_count[s] - Len(sem_wait_q[s])]
Blocked == [s \in SEM |-> Range(sem_wait_q[s])]

LEMMA SemShape ==
  ASSUME Places, DataOK, NEW s \in SEM
  PROVE  /\ pass_count \in [SEM -> Nat] /\ pass_count[s] \in Nat
         /\ sem_wait_q \in [SEM -> Seq(PID)] /\ sem_wait_q[s] \in Seq(PID)
         /\ IsInjective(sem_wait_q[s])
         /\ Len(sem_wait_q[s]) \in Nat
         /\ sem_wait_q[s] = <<>> <=> Len(sem_wait_q[s]) = 0
BY LenProperties, EmptySeq DEF Places, DataOK, WaitOK

LEMMA PostCounts ==
  ASSUME Places, DataOK, NoPassLeft, NEW s \in SEM, SemPostISR(s)
  PROVE  NoPassLeft' /\ Counting!Post(s)
<1> DEFINE n == [t \in SEM |-> Len(sem_wait_q[t])]
<1>3. /\ pass_count \in [SEM -> Nat]
      /\ \A t \in SEM : n[t] \in Nat
      /\ Value = [t \in SEM |-> pass_count[t] - n[t]]
  BY SemShape DEF Value
<1> HIDE DEF n
<1>1. CASE PostLeavesPass(s)
  <2>1. /\ pass_count' = [pass_count EXCEPT ![s] = @ + 1]
        /\ sem_wait_q' = sem_wait_q /\ sem_wait_q[s] = <<>>
    BY <1>1 DEF PostLeavesPass
  <2>2. Value' = [t \in SEM |-> pass_count'[t] - n[t]]
    BY <2>1 DEF Value, n
  <2>4. n[s] = 0
    BY <2>1, SemShape DEF n
  <2>7. Value[s] \in Nat
    BY <1>3, <2>4
  <2>8. \A t \in SEM : pass_count'[t] - n[t]
                        = IF t = s THEN Value[t] + 1 ELSE Value[t]
    BY <1>3, <2>1
  <2>5. Value' = [Value EXCEPT ![s] = @ + 1] /\ Value[s] \in Nat
    BY <1>3, <2>2, <2>7, <2>8
  <2>6. Blocked' = Blocked
    BY <2>1 DEF Blocked
  <2>3. NoPassLeft'
    BY <2>1, SemShape DEF NoPassLeft
  <2> QED
    BY <2>3, <2>5, <2>6 DEF Counting!Post, Value, Blocked
<1>2. CASE PostWakes(s)
  <2> DEFINE q == sem_wait_q[s]
  <2>1. /\ pass_count' = pass_count /\ q # <<>> /\ pass_count[s] = 0
        /\ sem_wait_q' = [sem_wait_q EXCEPT ![s] = Tail(q)]
    BY <1>2 DEF PostWakes, NoPassLeft
  <2>2. /\ Len(Tail(q)) = Len(q) - 1 /\ Len(q) \in Nat /\ Len(q) > 0
        /\ Head(q) \in Range(q)
        /\ Range(Tail(q)) = Range(q) \ {Head(q)}
    BY <2>1, SemShape, HeadTailFacts, HeadTailProperties
  <2> HIDE DEF q
  <2>6. Value' = [t \in SEM |-> pass_count[t] - IF t = s THEN n[s] - 1 ELSE n[t]]
    BY <2>1, <2>2, SemShape DEF Value, n, q
  <2>7. n[s] > 0
    BY <2>2 DEF n, q
  <2>8. \A t \in SEM : pass_count[t] - (IF t = s THEN n[s] - 1 ELSE n[t])
                        = IF t = s THEN Value[t] + 1 ELSE Value[t]
    BY <1>3
  <2>9. Value[s] < 0
    BY <1>3, <2>1, <2>7
  <2>3. Value' = [Value EXCEPT ![s] = @ + 1] /\ Value[s] < 0
    BY <1>3, <2>6, <2>8, <2>9
  <2>4. Blocked' = [Blocked EXCEPT ![s] = @ \ {Head(q)}] /\ Head(q) \in Blocked[s]
    BY <2>1, <2>2, SemShape DEF Blocked, q
  <2>5. NoPassLeft'
    BY <2>1, SemShape DEF NoPassLeft
  <2> QED
    BY <2>3, <2>4, <2>5 DEF Counting!Post, Value, Blocked
<1> QED
  BY <1>1, <1>2 DEF SemPostISR
LEMMA WaitCounts ==
  ASSUME Places, DataOK, NoPassLeft, NEW s \in SEM, SemWaitISR(s)
  PROVE  NoPassLeft' /\ \E p \in PID : Counting!Wait(s, p)
<1> DEFINE n == [t \in SEM |-> Len(sem_wait_q[t])]
<1>1. /\ pass_count \in [SEM -> Nat]
      /\ \A t \in SEM : n[t] \in Nat
      /\ Value = [t \in SEM |-> pass_count[t] - n[t]]
  BY SemShape DEF Value
<1>2. run_pid \in PID /\ \A t \in SEM : run_pid \notin Blocked[t]
  BY RunningIsInNoQueue DEF Blocked
<1>3. ASSUME Value' = [Value EXCEPT ![s] = @ - 1],
             IF Value[s] > 0 THEN UNCHANGED Blocked
             ELSE Blocked' = [Blocked EXCEPT ![s] = @ \cup {run_pid}]
      PROVE  \E p \in PID : Counting!Wait(s, p)
  BY <1>2, <1>3 DEF Counting!Wait, Value, Blocked
<1> HIDE DEF n
<1>4. CASE WaitTakesPass(s)
  <2>1. /\ pass_count' = [pass_count EXCEPT ![s] = @ - 1]
        /\ pass_count[s] > 0 /\ sem_wait_q' = sem_wait_q /\ sem_wait_q[s] = <<>>
    BY <1>4, SemShape DEF WaitTakesPass, NoPassLeft
  <2>2. n[s] = 0
    BY <2>1, SemShape DEF n
  <2>3. Value' = [t \in SEM |-> pass_count'[t] - n[t]]
    BY <2>1 DEF Value, n
  <2>4. \A t \in SEM : pass_count'[t] - n[t]
                        = IF t = s THEN Value[t] - 1 ELSE Value[t]
    BY <1>1, <2>1
  <2>5. Value[s] > 0
    BY <1>1, <2>1, <2>2
  <2>6. Value' = [Value EXCEPT ![s] = @ - 1]
    BY <1>1, <2>3, <2>4
  <2>7. Blocked' = Blocked
    BY <2>1 DEF Blocked
  <2>8. NoPassLeft'
    BY <2>1, SemShape DEF NoPassLeft
  <2> QED
    BY <1>3, <2>5, <2>6, <2>7, <2>8
<1>5. CASE WaitBlocks(s)
  <2> DEFINE q == sem_wait_q[s]
  <2>1. /\ pass_count' = pass_count /\ pass_count[s] = 0
        /\ sem_wait_q' = [sem_wait_q EXCEPT ![s] = EnQ(run_pid, q)]
    BY <1>5, SemShape DEF WaitBlocks
  <2>2. /\ EnQ(run_pid, q) = Append(q, run_pid)
        /\ Range(EnQ(run_pid, q)) = Range(q) \cup {run_pid}
        /\ Len(EnQ(run_pid, q)) = Len(q) + 1 /\ Len(q) \in Nat
    BY RunningIsInNoQueue, SemShape, EnQFacts, AppendProperties
  <2> HIDE DEF q
  <2>3. Value' = [t \in SEM |-> pass_count[t] - IF t = s THEN n[s] + 1 ELSE n[t]]
    BY <2>1, <2>2, SemShape DEF Value, n, q
  <2>4. \A t \in SEM : pass_count[t] - (IF t = s THEN n[s] + 1 ELSE n[t])
                        = IF t = s THEN Value[t] - 1 ELSE Value[t]
    BY <1>1
  <2>5. ~ Value[s] > 0
    BY <1>1, <2>1
  <2>6. Value' = [Value EXCEPT ![s] = @ - 1]
    BY <1>1, <2>3, <2>4
  <2>7. Blocked' = [Blocked EXCEPT ![s] = @ \cup {run_pid}]
    BY <2>1, <2>2, SemShape DEF Blocked, q
  <2>8. NoPassLeft'
    BY <2>1, SemShape DEF NoPassLeft
  <2> QED
    BY <1>3, <2>5, <2>6, <2>7, <2>8
<1> QED
  BY <1>4, <1>5 DEF SemWaitISR

LEMMA GetCounts ==
  ASSUME Places, DataOK, NoPassLeft, SemGetISR
  PROVE  NoPassLeft' /\ \E s \in SEM : Counting!Obtain(s)
<1> DEFINE s == Head(semaphore_q)
<1>1. s \in SEM /\ Range(sem_wait_q[s]) = {}
  BY HeadTailFacts DEF SemGetISR, Places, WaitOK
<1>2. /\ pass_count' = [pass_count EXCEPT ![s] = 0]
      /\ sem_wait_q' = [sem_wait_q EXCEPT ![s] = <<>>]
  BY DEF SemGetISR
<1> HIDE DEF s
<1>3. sem_wait_q[s] = <<>>
  BY <1>1, EmptyRange, SemShape
<1>4. sem_wait_q' = sem_wait_q /\ Len(sem_wait_q[s]) = 0
  BY <1>1, <1>2, <1>3, SemShape
<1> DEFINE n == [t \in SEM |-> Len(sem_wait_q[t])]
<1>7. /\ pass_count \in [SEM -> Nat] /\ \A t \in SEM : n[t] \in Nat
      /\ Value = [t \in SEM |-> pass_count[t] - n[t]]
      /\ Value' = [t \in SEM |-> pass_count'[t] - n[t]]
      /\ n[s] = 0
  BY <1>1, <1>4, SemShape DEF Value
<1> HIDE DEF n
<1>8. \A t \in SEM : pass_count'[t] - n[t] = IF t = s THEN 0 ELSE Value[t]
  BY <1>1, <1>2, <1>7
<1>9. Value' = [Value EXCEPT ![s] = 0]
  BY <1>1, <1>7, <1>8
<1>5. Value' = [Value EXCEPT ![s] = 0] /\ Blocked' = Blocked /\ Blocked[s] = {}
  BY <1>1, <1>4, <1>9 DEF Blocked
<1>6. NoPassLeft'
  BY <1>2, <1>4, SemShape DEF NoPassLeft
<1> QED
  BY <1>1, <1>5, <1>6 DEF Counting!Obtain, Value, Blocked

LEMMA SemaphoreStep ==
  ASSUME Places, DataOK, NoPassLeft, [Next]_vars
  PROVE  NoPassLeft' /\ [Counting!Next]_Counting!vars
<1>1. CASE SemIntr
  BY <1>1, GetCounts, PostCounts, WaitCounts
    DEF SemIntr, SemPost, Counting!Next
<1>2. CASE DeviceIntr
  BY <1>2, PostCounts, SemaphoreAssumption DEF DeviceIntr, DevicePost, Counting!Next
<1>3. CASE UNCHANGED semVars
  BY <1>3 DEF semVars, NoPassLeft, Counting!vars
<1>4. TimerIntr \/ SleepIntr \/ MsgSndIntr \/ MsgRcvIntr \/ ForkISR \/ WaitISR
        \/ ExitISR \/ UNCHANGED vars => UNCHANGED semVars
  BY DEF TimerIntr, SleepIntr, MsgSndIntr, MsgSndISR, MsgRcvIntr, MsgRcvISR,
    ForkISR, WaitISR, ExitISR, vars
<1> QED
  BY <1>1, <1>2, <1>3, <1>4 DEF Next

\* The semaphores of the kernel implement the abstract counting semaphore.
THEOREM SemaphoresCount == Spec => PassesConserved
<1>1. Init => NoPassLeft /\ Counting!Init
  BY DEF Init, SemInit, NoPassLeft, Counting!Init, Range
<1>2. IInv /\ NoPassLeft /\ [Next]_vars
        => NoPassLeft' /\ [Counting!Next]_Counting!vars
  BY IInvInParts, SemaphoreStep
<1> QED
  BY <1>1, <1>2, IInvAlways, PTL DEF Spec, PassesConserved, Counting!Spec
-----------------------------------------------------------------------------
\* 2^n is the number of subsets of 1 .. n: what the provers know of powers.
LEMMA PowerIsSubsets ==
  ASSUME NEW n \in Nat
  PROVE  /\ IsFiniteSet(SUBSET (1 .. n))
         /\ 2^n = Cardinality(SUBSET (1 .. n))
         /\ 2^n \in Nat
<1>1. IsFiniteSet(1 .. n) /\ Cardinality(1 .. n) = n
  BY FS_Interval
<1>2. IsFiniteSet(SUBSET (1 .. n)) /\ Cardinality(SUBSET (1 .. n)) = 2^n
  BY <1>1, FS_SUBSET
<1> QED
  BY <1>2, FS_CardinalityType

\* Subsets of 1 .. n+1 come in pairs, without and with n+1.
LEMMA PowerDoubles ==
  ASSUME NEW n \in Nat
  PROVE  2^(n+1) = 2 * 2^n
<1> DEFINE A == SUBSET (1 .. n)
           B == {T \cup {n+1} : T \in A}
           f == [T \in A |-> T \cup {n+1}]
<1>1. /\ IsFiniteSet(A) /\ 2^n = Cardinality(A) /\ 2^n \in Nat
      /\ 2^(n+1) = Cardinality(SUBSET (1 .. n+1)) /\ 2^(n+1) \in Nat
  <2>1. n + 1 \in Nat
    OBVIOUS
  <2>2. IsFiniteSet(A) /\ 2^n = Cardinality(A) /\ 2^n \in Nat
    BY PowerIsSubsets
  <2>3. 2^(n+1) = Cardinality(SUBSET (1 .. n+1)) /\ 2^(n+1) \in Nat
    BY <2>1, PowerIsSubsets
  <2> QED
    BY <2>2, <2>3
<1>2. \A T \in A : n+1 \notin T
  OBVIOUS
<1>3. f \in Bijection(A, B)
  <2>1. f \in [A -> B]
    OBVIOUS
  <2>2. ASSUME NEW S \in A, NEW T \in A, f[S] = f[T] PROVE S = T
    <3>1. S \cup {n+1} = T \cup {n+1}
      BY <2>2
    <3> QED
      BY <1>2, <3>1
  <2>3. \A T \in B : \E S \in A : f[S] = T
    OBVIOUS
  <2> HIDE DEF A, B, f
  <2> QED
    BY <2>1, <2>2, <2>3 DEF Bijection, Injection, Surjection, IsInjective
<1>4. IsFiniteSet(B) /\ Cardinality(B) = Cardinality(A)
  BY <1>1, <1>3, FS_Bijection DEF ExistsBijection
<1>5. A \cap B = {}
  BY <1>2
<1>6. SUBSET (1 .. n+1) = A \cup B
  <2>1. 1 .. n+1 = (1 .. n) \cup {n+1}
    OBVIOUS
  <2>2. ASSUME NEW T \in SUBSET (1 .. n+1) PROVE T \in A \cup B
    <3>1. CASE n+1 \in T
      <4>1. T \ {n+1} \in A /\ T = (T \ {n+1}) \cup {n+1}
        BY <2>1, <3>1
      <4> QED
        BY <4>1
    <3>2. CASE n+1 \notin T
      BY <2>1, <3>2
    <3> QED
      BY <3>1, <3>2
  <2>3. ASSUME NEW T \in A \cup B PROVE T \in SUBSET (1 .. n+1)
    BY <2>1
  <2> QED
    BY <2>2, <2>3
<1>7. Cardinality(A \cup B) = Cardinality(A) + Cardinality(B) - Cardinality({})
  <2> HIDE DEF A, B
  <2> QED
    BY <1>1, <1>4, <1>5, FS_Union
<1>8. Cardinality({}) = 0
  BY FS_EmptySet
<1> DEFINE a == Cardinality(A)
<1>9. Cardinality(A \cup B) = a + a - 0
  BY <1>4, <1>7, <1>8
<1>10. 2^(n+1) = a + a - 0 /\ 2^n = a /\ a \in Nat
  BY <1>1, <1>6, <1>9
<1> HIDE DEF a
<1>11. a + a - 0 = 2 * a
  BY <1>10
<1> QED
  BY <1>10, <1>11

\* No sum up to TIME_MAX wraps.
LEMMA WrapIsIdentity ==
  ASSUME NEW t \in 0 .. TIME_MAX
  PROVE  Wrap(t) = t
<1> DEFINE m == 2 * TIME_MAX + 2
           x == t + TIME_MAX + 1
<1>1. TIME_MAX \in Nat /\ m \in Nat /\ m > 0 /\ x \in 0 .. m - 1
  BY TimerAssumption
<1>2. x % m = x
  BY <1>1
<1> QED
  BY <1>1, <1>2 DEF Wrap

\* What Pick puts at each position.
LEMMA PickLength ==
  ASSUME NEW q \in Seq(PID), IsInjective(q), NEW S \in SUBSET DOMAIN q,
         Cardinality(S) \in Nat
  PROVE  /\ Pick(q, S) \in Seq(PID)
         /\ Len(Pick(q, S)) = Cardinality(S)
         /\ \A i \in 1 .. Cardinality(S) : Pick(q, S)[i] = q[Nth(S, i)]
<1> DEFINE r == Pick(q, S)
           c == Cardinality(S)
<1>1. r \in Seq(PID)
  BY PickFacts
<1>2. r = [i \in 1 .. c |-> q[Nth(S, i)]]
  BY DEF Pick
<1>3. DOMAIN r = 1 .. c /\ \A i \in 1 .. c : r[i] = q[Nth(S, i)]
  BY <1>2
<1> HIDE DEF r, c
<1>4. Len(r) = c
  BY <1>1, <1>3, LenProperties DEF c
<1> QED
  BY <1>1, <1>3, <1>4 DEF r, c

\* TimerSub halves the position of a sleeper it should have woken: those
\* skipped come to the front, and there are at most as many of them as it
\* examined.
LEMMA SkippedMoveForward ==
  ASSUME Places, NEW now \in Int,
         NEW k \in DOMAIN StillAsleep(now),
         now >= wake_time[StillAsleep(now)[k]]
  PROVE  /\ k \in Nat
         /\ \E j \in DOMAIN sleep_q :
              j \in Nat /\ sleep_q[j] = StillAsleep(now)[k] /\ 2 * k <= j
<1> DEFINE n == Len(sleep_q)
           U == DOMAIN sleep_q \ Examined(now)
           kept == Examined(now) \ WokenAt(now)
           c == Cardinality(U)
           pu == Pick(sleep_q, U)
           pk == Pick(sleep_q, kept)
<1>1. sleep_q \in Seq(PID) /\ IsInjective(sleep_q)
  BY DEF Places, AsleepOK
<1>2. n \in Nat /\ DOMAIN sleep_q = 1 .. n
  BY <1>1, LenProperties
<1>3. U \in SUBSET DOMAIN sleep_q /\ kept \in SUBSET DOMAIN sleep_q
  BY DEF Examined
<1>4. ASSUME NEW S \in SUBSET DOMAIN sleep_q
      PROVE  S \in SUBSET Int /\ IsFiniteSet(S)
  <2>1. IsFiniteSet(1 .. n)
    BY <1>2, FS_Interval
  <2> QED
    BY <1>2, <2>1, FS_Subset
<1>5. /\ c \in Nat
      /\ \A i \in 1 .. c :
           Nth(U, i) \in U /\ Cardinality({x \in U : x <= Nth(U, i)}) = i
  <2>1. U \in SUBSET Int /\ IsFiniteSet(U)
    BY <1>3, <1>4
  <2> HIDE DEF U
  <2> QED
    BY <2>1, NthFacts
<1>6. /\ Cardinality(kept) \in Nat
      /\ \A i \in 1 .. Cardinality(kept) : Nth(kept, i) \in kept
  <2>1. kept \in SUBSET Int /\ IsFiniteSet(kept)
    BY <1>3, <1>4
  <2> HIDE DEF kept
  <2> QED
    BY <2>1, NthFacts
<1>7. /\ pu \in Seq(PID) /\ Len(pu) = c
      /\ \A i \in 1 .. c : pu[i] = sleep_q[Nth(U, i)]
  <2> HIDE DEF U
  <2> QED
    BY <1>1, <1>3, <1>5, PickLength
<1>8. /\ pk \in Seq(PID) /\ Len(pk) = Cardinality(kept)
      /\ \A i \in 1 .. Cardinality(kept) : pk[i] = sleep_q[Nth(kept, i)]
  <2> HIDE DEF kept
  <2> QED
    BY <1>1, <1>3, <1>6, PickLength
<1>9. StillAsleep(now) = pu \o pk
  BY DEF StillAsleep
<1>10. \A i \in kept : ~ Due(now, i)
  BY DEF WokenAt
<1> HIDE DEF pu, pk, kept, U, c, n
<1>11. /\ DOMAIN StillAsleep(now) = 1 .. c + Cardinality(kept)
       /\ \A i \in 1 .. c + Cardinality(kept) :
            StillAsleep(now)[i] = IF i <= c THEN pu[i] ELSE pk[i - c]
  <2>1. /\ pu \o pk \in Seq(PID)
        /\ Len(pu \o pk) = Len(pu) + Len(pk)
        /\ \A i \in 1 .. Len(pu) + Len(pk) :
             (pu \o pk)[i] = IF i <= Len(pu) THEN pu[i] ELSE pk[i - Len(pu)]
    BY <1>7, <1>8, ConcatProperties
  <2>2. DOMAIN (pu \o pk) = 1 .. Len(pu \o pk)
    BY <2>1, LenProperties
  <2> QED
    BY <1>7, <1>8, <1>9, <2>1, <2>2
<1>12. k \in 1 .. c + Cardinality(kept) /\ k \in Nat
  BY <1>5, <1>6, <1>11
<1>13. k <= c
  <2> SUFFICES ASSUME ~ (k <= c) PROVE FALSE
    OBVIOUS
  <2>1. k - c \in 1 .. Cardinality(kept)
    BY <1>5, <1>6, <1>12
  <2>2. StillAsleep(now)[k] = sleep_q[Nth(kept, k - c)]
    BY <1>8, <1>11, <1>12, <2>1
  <2> QED
    BY <1>6, <1>10, <2>1, <2>2 DEF Due
<1> DEFINE j == Nth(U, k)
           V == {x \in U : x <= j}
           u == Min(U)
           D == Cardinality({x \in 1 .. u-1 : Due(now, x)})
<1>14. k \in 1 .. c
  BY <1>5, <1>12, <1>13
<1>15. j \in U /\ Cardinality(V) = k /\ StillAsleep(now)[k] = sleep_q[j]
  BY <1>5, <1>7, <1>11, <1>12, <1>13, <1>14
<1>16. u \in U /\ \A y \in U : u <= y
  BY <1>3, <1>4, <1>15, MinFacts
<1>17. j \in 1 .. n /\ u \in 1 .. n
  BY <1>2, <1>3, <1>15, <1>16
<1>18. n - D <= u - 1 /\ D <= u - 1 /\ D \in Int
  <2>1. IsFiniteSet(1 .. u-1) /\ Cardinality(1 .. u-1) = u - 1
    BY <1>2, <1>17, FS_Interval
  <2>2. {x \in 1 .. u-1 : Due(now, x)} \in SUBSET (1 .. u-1)
    OBVIOUS
  <2>3. /\ IsFiniteSet({x \in 1 .. u-1 : Due(now, x)})
        /\ D <= u - 1
    BY <2>1, <2>2, FS_Subset
  <2>4. D \in Nat
    BY <2>3, FS_CardinalityType
  <2>5. ~ (u - 1 < n - D)
    BY <1>16 DEF U, n, Examined
  <2> HIDE DEF D, u
  <2> QED
    BY <1>2, <1>17, <2>3, <2>4, <2>5
<1>19. k <= j - u + 1
  <2>1. u <= j
    BY <1>15, <1>16
  <2>2. V \in SUBSET (u .. j)
    BY <1>2, <1>3, <1>16, <1>17
  <2>3. IsFiniteSet(u .. j) /\ Cardinality(u .. j) = j - u + 1
    BY <1>2, <1>17, <2>1, FS_Interval
  <2>4. Cardinality(V) <= Cardinality(u .. j)
    BY <2>2, <2>3, FS_Subset
  <2> QED
    BY <1>15, <2>3, <2>4
<1>20. j \in DOMAIN sleep_q /\ j \in Nat
  BY <1>2, <1>17
<1> HIDE DEF D, u, j
<1>21. 2 * k <= j
  BY <1>2, <1>12, <1>17, <1>18, <1>19
<1> QED
  BY <1>12, <1>15, <1>20, <1>21
-----------------------------------------------------------------------------
\* PID 0 never sleeps, so sleep_q has fewer than MAX_PROC entries.
LEMMA SleepQueueNotFull ==
  ASSUME Places
  PROVE  /\ Len(sleep_q) \in Nat /\ DOMAIN sleep_q = 1 .. Len(sleep_q)
         /\ Len(sleep_q) < MAX_PROC
         /\ \A k \in DOMAIN sleep_q : sleep_q[k] \in PID
<1>1. sleep_q \in Seq(PID) /\ IsInjective(sleep_q)
  BY DEF Places, AsleepOK
<1>2. 0 \in PID \ Range(sleep_q)
  BY PidFacts DEF Places, AsleepOK, ReadyOK, Runnable
<1>3. Len(sleep_q) < MAX_PROC
  BY <1>1, <1>2, QueueFits
<1> QED
  BY <1>1, <1>3, LenProperties

\* LatenessBounded for one sleeper.
OnTime(k, late) == late >= 0 => k * 2^(late + 1) < MAX_PROC

\* One tick later, at half the position.
LEMMA HalfwayThere ==
  ASSUME NEW k \in Nat, NEW j \in Nat, NEW late \in Int,
         2 * k <= j, j < MAX_PROC, OnTime(j, late)
  PROVE  OnTime(k, late + 1)
<1>1. MAX_PROC \in Nat
  BY ProcessAssumption
<1> SUFFICES ASSUME late + 1 >= 0 PROVE k * 2^(late + 1 + 1) < MAX_PROC
  BY DEF OnTime
<1>2. CASE late + 1 = 0
  <2>1. late + 1 + 1 = 1
    BY <1>2
  <2>2. 2^(late + 1 + 1) = 2
    <3>1. 2^1 = 2
      OBVIOUS
    <3> QED
      BY <2>1, <3>1, Zenon
  <2>3. k * 2 < MAX_PROC
    BY <1>1
  <2> QED
    BY <2>2, <2>3
<1>3. CASE late >= 0
  <2> DEFINE e == late + 1
  <2>1. e \in Nat
    BY <1>3
  <2>2. j * 2^e < MAX_PROC
    BY <1>3 DEF OnTime
  <2> HIDE DEF e
  <2>3. 2^e \in Nat /\ 2^(e + 1) = 2 * 2^e
    BY <2>1, PowerIsSubsets, PowerDoubles
  <2> DEFINE b == 2^e
  <2>4. j * b < MAX_PROC /\ b \in Nat /\ 2^(e + 1) = 2 * b
    BY <2>2, <2>3
  <2> HIDE DEF b
  <2>5. k * (2 * b) <= j * b
    BY <2>4
  <2>6. k * (2 * b) < MAX_PROC
    BY <1>1, <2>4, <2>5
  <2> QED
    BY <2>4, <2>6 DEF e
<1> QED
  BY <1>2, <1>3

\* Inductive with IInv while system_time stays below the wrap.
TimeInv == system_time \in 0 .. LAST_TICK /\ LatenessBounded

LEMMA TimeInvParts ==
  LatenessBounded <=> \A k \in DOMAIN sleep_q :
                        OnTime(k, system_time - wake_time[sleep_q[k]])
BY DEF LatenessBounded, OnTime

\* A tick: those skipped halve their position, the others are not late.
LEMMA TickOnTime ==
  ASSUME LAST_TICK \in Nat, LAST_TICK <= TIME_MAX, Places, DataOK, TimeInv,
         TimerISR
  PROVE  TimeInv'
<1> DEFINE now == system_time + 1
<1>1. /\ system_time \in 0 .. LAST_TICK /\ system_time # LAST_TICK
      /\ Tick(Wrap(system_time + 1))
  BY DEF TimerISR, TickInSlice, EndOfSlice, Tick, TimeInv
<1>2. now \in 0 .. LAST_TICK /\ now \in 0 .. TIME_MAX /\ TIME_MAX \in Nat
  BY <1>1, TimerAssumption
<1>3. Wrap(now) = now
  BY <1>2, WrapIsIdentity
<1>4. system_time' = now /\ sleep_q' = StillAsleep(now) /\ wake_time' = wake_time
  BY <1>1, <1>3 DEF Tick
<1>5. LatenessBounded'
  <2> SUFFICES ASSUME NEW k \in DOMAIN StillAsleep(now)
               PROVE  OnTime(k, now - wake_time[StillAsleep(now)[k]])
    BY <1>4, TimeInvParts DEF LatenessBounded, OnTime
  <2> DEFINE w == wake_time[StillAsleep(now)[k]]
  <2> SUFFICES ASSUME now - w >= 0 PROVE OnTime(k, now - w)
    BY DEF OnTime
  <2>1. w \in Int
    <3>1. StillAsleep(now) \in Seq(PID)
      BY <1>2, TickSplitsSleepers
    <3>2. StillAsleep(now)[k] \in PID
      BY <3>1
    <3> QED
      BY <3>2, TimerAssumption DEF DataOK, Time
  <2>2. now >= w
    BY <1>2, <2>1
  <2>3. /\ k \in Nat
        /\ \E j \in DOMAIN sleep_q :
             j \in Nat /\ sleep_q[j] = StillAsleep(now)[k] /\ 2 * k <= j
    BY <1>2, <2>2, SkippedMoveForward
  <2>4. PICK j \in DOMAIN sleep_q :
             j \in Nat /\ sleep_q[j] = StillAsleep(now)[k] /\ 2 * k <= j
    BY <2>3
  <2>5. OnTime(j, system_time - w)
    BY <2>4, TimeInvParts DEF TimeInv
  <2>6. j < MAX_PROC
    BY <2>4, SleepQueueNotFull, ProcessAssumption
  <2>7. system_time - w \in Int /\ system_time - w + 1 = now - w
    BY <1>1, <2>1
  <2> HIDE DEF w, now
  <2>8. OnTime(k, system_time - w + 1)
    BY <2>3, <2>4, <2>5, <2>6, <2>7, HalfwayThere
  <2> QED
    BY <2>7, <2>8
<1> QED
  BY <1>2, <1>4, <1>5 DEF TimeInv

\* Sleep queues a process that is not due yet.
LEMMA SleepOnTime ==
  ASSUME LAST_TICK \in Nat, LAST_TICK <= TIME_MAX, Places, DataOK, TimeInv,
         NEW seconds \in SleepArgs, SleepISR(seconds),
         seconds * TICKS >= 1, LAST_TICK + seconds * TICKS <= TIME_MAX
  PROVE  TimeInv'
<1> DEFINE w == system_time + seconds * TICKS
<1>1. system_time \in 0 .. LAST_TICK /\ seconds * TICKS \in Int /\ TIME_MAX \in Nat
  BY TimerAssumption DEF TimeInv
<1>2. w \in 0 .. TIME_MAX /\ system_time < w
  BY <1>1
<1>3. Wrap(w) = w
  BY <1>2, WrapIsIdentity
<1>4. /\ run_pid \in PID /\ run_pid \notin Range(sleep_q)
      /\ sleep_q \in Seq(PID) /\ IsInjective(sleep_q)
  BY RunningIsInNoQueue DEF Places, AsleepOK
<1>5. sleep_q' = Append(sleep_q, run_pid)
  BY <1>4, EnQFacts DEF SleepISR
<1>6. /\ system_time' = system_time
      /\ wake_time' = [wake_time EXCEPT ![run_pid] = w]
      /\ wake_time \in [PID -> Time]
  BY <1>3 DEF SleepISR, DataOK
<1> HIDE DEF w
<1>7. /\ wake_time'[run_pid] = w
      /\ \A p \in PID : p # run_pid => wake_time'[p] = wake_time[p]
  BY <1>4, <1>6
<1>8. ASSUME NEW k \in DOMAIN sleep_q'
      PROVE  OnTime(k, system_time' - wake_time'[sleep_q'[k]])
  <2>1. CASE k \in DOMAIN sleep_q
    <3>1. sleep_q'[k] = sleep_q[k]
      BY <1>4, <1>5, <2>1, AppendProperties, LenProperties
    <3>2. sleep_q[k] \in PID /\ sleep_q[k] # run_pid
      BY <1>4, <2>1, SleepQueueNotFull DEF Range
    <3> QED
      BY <1>6, <1>7, <2>1, <3>1, <3>2, TimeInvParts DEF TimeInv
  <2>2. CASE k \notin DOMAIN sleep_q
    <3>1. sleep_q'[k] = run_pid
      BY <1>4, <1>5, <1>8, <2>2, AppendProperties, LenProperties
    <3>2. wake_time'[sleep_q'[k]] = w /\ ~ (system_time' - w >= 0)
      BY <1>1, <1>2, <1>6, <1>7, <3>1
    <3> QED
      BY <3>2 DEF OnTime
  <2> QED
    BY <2>1, <2>2
<1>9. LatenessBounded'
  BY <1>8 DEF LatenessBounded, OnTime
<1> QED
  BY <1>1, <1>6, <1>9 DEF TimeInv

\* The other handlers touch neither the time nor the sleepers.
LEMMA NextAndTime ==
  ASSUME [Next]_vars
  PROVE  \/ TimerISR
         \/ \E seconds \in SleepArgs : SleepISR(seconds)
         \/ UNCHANGED <<system_time, wake_time, sleep_q>>
BY DEF Next, TimerIntr, SleepIntr, SemIntr, DeviceIntr, MsgSndIntr, MsgRcvIntr,
  SemGetISR, SemPost, SemPostISR, SemWaitISR, DevicePost, MsgSndISR, MsgRcvISR,
  ForkISR, WaitISR, ExitISR, vars, timerVars

\* As long as system_time does not wrap, and Sleep is for at least one tick, a
\* sleeper at position k of sleep_q that TimerSub keeps skipping is late by d
\* ticks only while k * 2^(d+1) < MAX_PROC.
THEOREM SleepersAreHardlyLate ==
  ASSUME LAST_TICK \in Nat, LAST_TICK <= TIME_MAX,
         \A seconds \in SleepArgs :
           seconds * TICKS >= 1 /\ LAST_TICK + seconds * TICKS <= TIME_MAX
  PROVE  Spec => []LatenessBounded
<1>1. Init => TimeInv
  BY DEF Init, TimerInit, TimeInv, LatenessBounded
<1>2. IInv /\ TimeInv /\ [Next]_vars => TimeInv'
  <2> SUFFICES ASSUME Places, DataOK, TimeInv, [Next]_vars PROVE TimeInv'
    BY IInvInParts
  <2>1. CASE TimerISR
    BY <2>1, TickOnTime
  <2>2. CASE \E seconds \in SleepArgs : SleepISR(seconds)
    BY <2>2, SleepOnTime
  <2>3. CASE UNCHANGED <<system_time, wake_time, sleep_q>>
    BY <2>3 DEF TimeInv, LatenessBounded
  <2> QED
    BY <2>1, <2>2, <2>3, NextAndTime
<1>3. TimeInv => LatenessBounded
  BY DEF TimeInv
<1> QED
  BY <1>1, <1>2, <1>3, IInvAlways, PTL DEF Spec
-----------------------------------------------------------------------------
\* The members of S below j tell the rank of j.
LEMMA NthIs ==
  ASSUME NEW S \in SUBSET Int, IsFiniteSet(S), NEW j \in S
  PROVE  /\ Cardinality({k \in S : k <= j}) \in 1 .. Cardinality(S)
         /\ Nth(S, Cardinality({k \in S : k <= j})) = j
<1>1. /\ \A i \in 1 .. Cardinality(S) :
           Nth(S, i) \in S /\ Cardinality({k \in S : k <= Nth(S, i)}) = i
      /\ \E i \in 1 .. Cardinality(S) : Nth(S, i) = j
  BY NthFacts
<1>2. PICK i \in 1 .. Cardinality(S) : Nth(S, i) = j
  BY <1>1
<1>3. Cardinality({k \in S : k <= j}) = i
  BY <1>1, <1>2
<1> QED
  BY <1>2, <1>3

\* Pick in front of all other positions, and behind them.
LEMMA PickFirst ==
  ASSUME NEW q \in Seq(PID), IsInjective(q), NEW T \in SUBSET DOMAIN q,
         NEW a \in DOMAIN q, \A t \in T : a < t
  PROVE  /\ Pick(q, T \cup {a}) # <<>>
         /\ Head(Pick(q, T \cup {a})) = q[a]
         /\ Tail(Pick(q, T \cup {a})) = Pick(q, T)
<1> DEFINE U == T \cup {a}
           c == Cardinality(T)
           pu == Pick(q, U)
           pt == Pick(q, T)
<1>1. DOMAIN q = 1 .. Len(q) /\ Len(q) \in Nat
  BY LenProperties
<1>2. /\ T \in SUBSET Int /\ IsFiniteSet(T)
      /\ U \in SUBSET Int /\ IsFiniteSet(U)
      /\ U \in SUBSET DOMAIN q
      /\ a \in Int /\ a \notin T
  <2>1. IsFiniteSet(1 .. Len(q))
    BY <1>1, FS_Interval
  <2>2. T \in SUBSET (1 .. Len(q)) /\ U \in SUBSET (1 .. Len(q)) /\ a \in 1 .. Len(q)
    BY <1>1
  <2>3. IsFiniteSet(T) /\ IsFiniteSet(U)
    BY <2>1, <2>2, FS_Subset
  <2> QED
    BY <1>1, <2>2, <2>3
<1>3. c \in Nat /\ Cardinality(U) = c + 1
  BY <1>2, FS_AddElement, FS_CardinalityType
<1>4. Nth(U, 1) = a
  <2>1. {k \in U : k <= a} = {a}
    BY <1>2
  <2>2. Cardinality({a}) = 1
    BY FS_Singleton
  <2>3. a \in U
    OBVIOUS
  <2> HIDE DEF U
  <2> QED
    BY <1>2, <2>1, <2>2, <2>3, NthIs
<1>5. ASSUME NEW i \in 1 .. c PROVE Nth(U, i + 1) = Nth(T, i)
  <2> DEFINE j == Nth(T, i)
             V == {k \in T : k <= j}
  <2>1. j \in T /\ Cardinality(V) = i
    BY <1>2, NthFacts
  <2>2. j \in Int /\ a < j /\ j \in U
    BY <1>2, <2>1
  <2>3. {k \in U : k <= j} = V \cup {a}
    BY <1>2, <2>2
  <2>4. IsFiniteSet(V) /\ a \notin V
    BY <1>2, FS_Subset
  <2>5. Cardinality({k \in U : k <= j}) = i + 1
    BY <2>1, <2>3, <2>4, FS_AddElement
  <2> HIDE DEF U, j, V
  <2>6. Nth(U, Cardinality({k \in U : k <= j})) = j
    BY <1>2, <2>2, NthIs
  <2> QED
    BY <2>5, <2>6 DEF j
<1>6. /\ pu \in Seq(PID) /\ Len(pu) = c + 1
      /\ \A i \in 1 .. c + 1 : pu[i] = q[Nth(U, i)]
  <2>1. Cardinality(U) \in Nat /\ U \in SUBSET DOMAIN q
    BY <1>2, <1>3
  <2> HIDE DEF U
  <2>2. /\ pu \in Seq(PID) /\ Len(pu) = Cardinality(U)
        /\ \A i \in 1 .. Cardinality(U) : pu[i] = q[Nth(U, i)]
    BY <2>1, PickLength
  <2> QED
    BY <1>3, <2>2
<1>7. /\ pt \in Seq(PID) /\ Len(pt) = c
      /\ \A i \in 1 .. c : pt[i] = q[Nth(T, i)]
  BY <1>3, PickLength
<1> HIDE DEF pu, pt, U, c
<1>8. pu # <<>>
  BY <1>3, <1>6, EmptySeq
<1>9. Head(pu) = q[a]
  BY <1>3, <1>4, <1>6, <1>8
<1>10. Tail(pu) \in Seq(PID) /\ Len(Tail(pu)) = c /\ \A i \in 1 .. c : Tail(pu)[i] = pu[i + 1]
  BY <1>3, <1>6, <1>8, HeadTailProperties
<1>11. \A i \in 1 .. c : Tail(pu)[i] = pt[i]
  BY <1>3, <1>5, <1>6, <1>7, <1>10
<1>12. Tail(pu) = pt
  BY <1>7, <1>10, <1>11, SeqEqual
<1> QED
  BY <1>8, <1>9, <1>12 DEF pu, pt, U

LEMMA PickLast ==
  ASSUME NEW q \in Seq(PID), IsInjective(q), NEW T \in SUBSET DOMAIN q,
         NEW a \in DOMAIN q, \A t \in T : t < a
  PROVE  Pick(q, T \cup {a}) = Append(Pick(q, T), q[a])
<1> DEFINE U == T \cup {a}
           c == Cardinality(T)
           pu == Pick(q, U)
           pt == Pick(q, T)
<1>1. DOMAIN q = 1 .. Len(q) /\ Len(q) \in Nat /\ q[a] \in PID
  BY LenProperties
<1>2. /\ T \in SUBSET Int /\ IsFiniteSet(T)
      /\ U \in SUBSET Int /\ IsFiniteSet(U)
      /\ U \in SUBSET DOMAIN q
      /\ a \in Int /\ a \notin T
  <2>1. IsFiniteSet(1 .. Len(q))
    BY <1>1, FS_Interval
  <2>2. T \in SUBSET (1 .. Len(q)) /\ U \in SUBSET (1 .. Len(q)) /\ a \in 1 .. Len(q)
    BY <1>1
  <2>3. IsFiniteSet(T) /\ IsFiniteSet(U)
    BY <2>1, <2>2, FS_Subset
  <2> QED
    BY <1>1, <2>2, <2>3
<1>3. c \in Nat /\ Cardinality(U) = c + 1
  BY <1>2, FS_AddElement, FS_CardinalityType
<1>4. Nth(U, c + 1) = a
  <2>1. {k \in U : k <= a} = U
    BY <1>2
  <2>2. a \in U
    OBVIOUS
  <2> HIDE DEF U
  <2>3. Nth(U, Cardinality({k \in U : k <= a})) = a
    BY <1>2, <2>2, NthIs
  <2> QED
    BY <1>3, <2>1, <2>3
<1>5. ASSUME NEW i \in 1 .. c PROVE Nth(U, i) = Nth(T, i)
  <2> DEFINE j == Nth(T, i)
             V == {k \in T : k <= j}
  <2>1. j \in T /\ Cardinality(V) = i
    BY <1>2, NthFacts
  <2>2. j \in Int /\ j < a /\ j \in U
    BY <1>2, <2>1
  <2>3. {k \in U : k <= j} = V
    BY <1>2, <2>2
  <2> HIDE DEF U, j, V
  <2>4. Nth(U, Cardinality({k \in U : k <= j})) = j
    BY <1>2, <2>2, NthIs
  <2> QED
    BY <2>1, <2>3, <2>4 DEF j
<1>6. /\ pu \in Seq(PID) /\ Len(pu) = c + 1
      /\ \A i \in 1 .. c + 1 : pu[i] = q[Nth(U, i)]
  <2>1. Cardinality(U) \in Nat /\ U \in SUBSET DOMAIN q
    BY <1>2, <1>3
  <2> HIDE DEF U
  <2>2. /\ pu \in Seq(PID) /\ Len(pu) = Cardinality(U)
        /\ \A i \in 1 .. Cardinality(U) : pu[i] = q[Nth(U, i)]
    BY <2>1, PickLength
  <2> QED
    BY <1>3, <2>2
<1>7. /\ pt \in Seq(PID) /\ Len(pt) = c
      /\ \A i \in 1 .. c : pt[i] = q[Nth(T, i)]
  BY <1>3, PickLength
<1> HIDE DEF pu, pt, U, c
<1>8. /\ Append(pt, q[a]) \in Seq(PID) /\ Len(Append(pt, q[a])) = c + 1
      /\ \A i \in 1 .. c + 1 : Append(pt, q[a])[i] = IF i <= c THEN pt[i] ELSE q[a]
  BY <1>1, <1>3, <1>7, AppendProperties
<1>9. \A i \in 1 .. c + 1 : pu[i] = Append(pt, q[a])[i]
  BY <1>3, <1>4, <1>5, <1>6, <1>7, <1>8
<1>10. pu = Append(pt, q[a])
  BY <1>6, <1>8, <1>9, SeqEqual
<1> QED
  BY <1>10 DEF pu, pt, U
-----------------------------------------------------------------------------
\* Head, Tail and Append of two queues one behind the other.
LEMMA ConcatEnds ==
  ASSUME NEW s \in Seq(PID), NEW t \in Seq(PID), NEW x \in PID
  PROVE  /\ Append(s \o t, x) = s \o Append(t, x)
         /\ s # <<>> => Head(s \o t) = Head(s) /\ Tail(s \o t) = Tail(s) \o t
<1> DEFINE m == Len(s)
           n == Len(t)
           st == s \o t
           l == Append(st, x)
           tx == Append(t, x)
           r == s \o tx
<1>1. m \in Nat /\ n \in Nat
  BY LenProperties
<1>2. /\ st \in Seq(PID) /\ Len(st) = m + n
      /\ \A i \in 1 .. m + n : st[i] = IF i <= m THEN s[i] ELSE t[i - m]
  BY ConcatProperties
<1>3. /\ tx \in Seq(PID) /\ Len(tx) = n + 1
      /\ \A i \in 1 .. n + 1 : tx[i] = IF i <= n THEN t[i] ELSE x
  BY AppendProperties, LenProperties
<1>4. l = r
  <2> HIDE DEF st, tx
  <2>1. /\ l \in Seq(PID) /\ Len(l) = m + n + 1
        /\ \A i \in 1 .. m + n + 1 : l[i] = IF i <= m + n THEN st[i] ELSE x
    BY <1>1, <1>2, AppendProperties
  <2>2. /\ r \in Seq(PID) /\ Len(r) = m + (n + 1)
        /\ \A i \in 1 .. m + (n + 1) : r[i] = IF i <= m THEN s[i] ELSE tx[i - m]
    BY <1>3, ConcatProperties
  <2> HIDE DEF l, r, m, n
  <2>3. ASSUME NEW i \in 1 .. m + n + 1 PROVE l[i] = r[i]
    <3>1. CASE i <= m
      BY <1>1, <1>2, <2>1, <2>2, <3>1
    <3>2. CASE m < i /\ i <= m + n
      <4>1. l[i] = t[i - m] /\ i - m \in 1 .. n
        BY <1>1, <1>2, <2>1, <3>2
      <4>2. r[i] = tx[i - m]
        BY <1>1, <2>2, <3>2
      <4> QED
        BY <1>1, <1>3, <4>1, <4>2
    <3>3. CASE i = m + n + 1
      <4>1. l[i] = x /\ i - m = n + 1 /\ ~ (i <= m)
        BY <1>1, <2>1, <3>3
      <4>2. r[i] = tx[n + 1]
        BY <1>1, <2>2, <4>1
      <4> QED
        BY <1>1, <1>3, <4>1, <4>2
    <3> QED
      BY <1>1, <3>1, <3>2, <3>3
  <2>4. Len(l) = Len(r)
    BY <1>1, <2>1, <2>2
  <2> QED
    BY <2>1, <2>2, <2>3, <2>4, SeqEqual
<1>5. ASSUME s # <<>> PROVE Head(st) = Head(s) /\ Tail(st) = Tail(s) \o t
  <2> DEFINE ts == Tail(s)
             a == Tail(st)
             b == ts \o t
  <2>1. m >= 1
    BY <1>1, <1>5, EmptySeq
  <2>2. st # <<>>
    <3> HIDE DEF st, m, n
    <3> QED
      BY <1>1, <1>2, <2>1, EmptySeq
  <2>3. Head(st) = Head(s)
    <3> HIDE DEF st
    <3> QED
      BY <1>1, <1>2, <1>5, <2>1, <2>2
  <2>4. /\ ts \in Seq(PID) /\ Len(ts) = m - 1
        /\ \A i \in 1 .. m - 1 : ts[i] = s[i + 1]
    BY <1>5, HeadTailProperties
  <2> HIDE DEF st, ts
  <2>5. /\ a \in Seq(PID) /\ Len(a) = m + n - 1
        /\ \A i \in 1 .. m + n - 1 : a[i] = st[i + 1]
    BY <1>2, <2>2, HeadTailProperties
  <2>6. /\ b \in Seq(PID) /\ Len(b) = (m - 1) + n
        /\ \A i \in 1 .. (m - 1) + n : b[i] = IF i <= m - 1 THEN ts[i] ELSE t[i - (m - 1)]
    <3>1. /\ b \in Seq(PID) /\ Len(b) = Len(ts) + n
          /\ \A i \in 1 .. Len(ts) + n : b[i] = IF i <= Len(ts) THEN ts[i] ELSE t[i - Len(ts)]
      BY <2>4, ConcatProperties
    <3> HIDE DEF b, n, m
    <3> QED
      BY <2>4, <3>1
  <2> HIDE DEF a, b, m, n
  <2>7. ASSUME NEW i \in 1 .. m + n - 1 PROVE a[i] = b[i]
    <3>1. a[i] = st[i + 1]
      BY <2>5
    <3>2. CASE i <= m - 1
      <4>1. i + 1 <= m /\ i + 1 \in 1 .. m + n /\ i \in 1 .. m - 1
        BY <1>1, <2>1, <3>2
      <4>2. st[i + 1] = s[i + 1]
        BY <1>2, <4>1
      <4>3. b[i] = ts[i]
        BY <1>1, <2>6, <3>2
      <4> QED
        BY <2>4, <3>1, <4>1, <4>2, <4>3
    <3>3. CASE ~ (i <= m - 1)
      <4>1. st[i + 1] = t[i + 1 - m]
        BY <1>1, <1>2, <2>1, <3>3
      <4>2. b[i] = t[i - (m - 1)]
        BY <1>1, <2>1, <2>6, <3>3
      <4>3. i + 1 - m = i - (m - 1)
        BY <1>1
      <4> QED
        BY <3>1, <4>1, <4>2, <4>3
    <3> QED
      BY <3>2, <3>3
  <2>8. Len(a) = Len(b)
    BY <1>1, <2>5, <2>6
  <2>9. a = b
    BY <2>5, <2>6, <2>7, <2>8, SeqEqual
  <2> QED
    BY <2>3, <2>9 DEF a, b, ts
<1> QED
  BY <1>4, <1>5 DEF l, r, st, tx

\* Pick of all positions.
LEMMA PickAll ==
  ASSUME NEW q \in Seq(PID), IsInjective(q)
  PROVE  Pick(q, DOMAIN q) = q
<1> DEFINE n == Len(q)
           S == DOMAIN q
           p == Pick(q, S)
<1>1. n \in Nat /\ S = 1 .. n
  BY LenProperties
<1>2. IsFiniteSet(S) /\ Cardinality(S) = n /\ S \in SUBSET Int
  BY <1>1, FS_Interval
<1>3. p \in Seq(PID) /\ Len(p) = n /\ \A i \in 1 .. n : p[i] = q[Nth(S, i)]
  <2> HIDE DEF n
  <2> QED
    BY <1>1, <1>2, PickLength
<1>4. ASSUME NEW i \in 1 .. n PROVE Nth(S, i) = i
  <2>1. {k \in S : k <= i} = 1 .. i
    BY <1>1
  <2>2. Cardinality(1 .. i) = i
    BY <1>1, FS_Interval
  <2>3. i \in S
    BY <1>1
  <2> HIDE DEF S
  <2>4. Nth(S, Cardinality({k \in S : k <= i})) = i
    BY <1>2, <2>3, NthIs
  <2> QED
    BY <2>1, <2>2, <2>4
<1> HIDE DEF p, n, S
<1>5. \A i \in 1 .. n : p[i] = q[i]
  BY <1>3, <1>4
<1>6. p = q
  BY <1>3, <1>5, SeqEqual DEF n
<1> QED
  BY <1>6 DEF p, S

\* One more EnQ, of a sleeper, behind those already woken.
LEMMA EnQBehind ==
  ASSUME Places, NEW W \in SUBSET DOMAIN sleep_q, NEW a \in DOMAIN sleep_q, a \notin W,
         NEW w \in Seq(PID), IsInjective(w), Range(w) = {sleep_q[j] : j \in W}
  PROVE  EnQ(sleep_q[a], EnQAll(w, proc_q)) = EnQAll(Append(w, sleep_q[a]), proc_q)
<1> DEFINE x == sleep_q[a]
           wx == Append(w, x)
<1>1. /\ sleep_q \in Seq(PID) /\ IsInjective(sleep_q)
      /\ proc_q \in Seq(PID) /\ IsInjective(proc_q)
      /\ x \in PID /\ x \in Range(sleep_q)
  BY SleepQueueNotFull DEF Places, AsleepOK, ReadyOK, Range
<1>2. Range(sleep_q) \cap Range(proc_q) = {}
  <2>1. Range(proc_q) \subseteq PID
    BY <1>1, RangeIsSubset
  <2> QED
    BY <2>1 DEF Places, ReadyOK, AsleepOK, Runnable
<1>3. x \notin Range(w) /\ Range(w) \subseteq Range(sleep_q)
  BY <1>1 DEF IsInjective, Range
<1> HIDE DEF x
<1>4. wx \in Seq(PID) /\ IsInjective(wx) /\ Range(wx) = Range(w) \cup {x}
  BY <1>1, <1>3, AppendFacts
<1> HIDE DEF wx
<1>5. EnQAll(w, proc_q) = proc_q \o w /\ EnQAll(wx, proc_q) = proc_q \o wx
  <2>1. ASSUME NEW s \in Seq(PID), IsInjective(s), Range(proc_q) \cap Range(s) = {}
        PROVE  EnQAll(s, proc_q) = proc_q \o s
    <3>1. proc_q \o s \in Seq(PID) /\ IsInjective(proc_q \o s)
      BY <1>1, <2>1, ConcatFacts
    <3>2. Len(proc_q \o s) <= MAX_PROC /\ Len(proc_q \o s) = Len(proc_q) + Len(s)
      BY <1>1, <3>1, QueueFits, ConcatProperties
    <3>3. Len(proc_q) \in Nat /\ Len(s) \in Nat
      BY <1>1, LenProperties
    <3>4. Len(proc_q) + Len(s) <= Q_SIZE
      BY <3>2, <3>3, ProcessAssumption
    <3> QED
      BY <3>4 DEF EnQAll
  <2> QED
    BY <1>1, <1>2, <1>3, <1>4, <2>1
<1>6. EnQ(x, proc_q \o w) = Append(proc_q \o w, x)
  <2>1. proc_q \o w \in Seq(PID) /\ IsInjective(proc_q \o w) /\ x \notin Range(proc_q \o w)
    BY <1>1, <1>2, <1>3, ConcatFacts
  <2> QED
    BY <1>1, <2>1, EnQFacts
<1>7. Append(proc_q \o w, x) = proc_q \o wx
  BY <1>1, ConcatEnds DEF wx
<1> QED
  BY <1>5, <1>6, <1>7 DEF x, wx
-----------------------------------------------------------------------------
\* The positions TimerSub has examined after i iterations, those among them
\* it has put back, and what it has made of the queues and the states.
Reached(now, i) == {j \in Examined(now) : j <= i}

PutBack(now, i) == {j \in Reached(now, i) : ~ Due(now, j)}

WokenBy(now, i) == {j \in Reached(now, i) : Due(now, j)}

LoopAt(now, i) ==
  [sleepers |-> Pick(sleep_q, DOMAIN sleep_q \ Reached(now, i))
                  \o Pick(sleep_q, PutBack(now, i)),
   ready |-> EnQAll(Pick(sleep_q, WokenBy(now, i)), proc_q),
   states |-> [p \in PID |->
                 IF \E j \in WokenBy(now, i) : sleep_q[j] = p THEN "READY" ELSE state[p]]]

\* Examined is a prefix of the positions.
LEMMA ExaminedIsPrefix ==
  ASSUME NEW now, Places, NEW j \in Examined(now), NEW i \in 1 .. j
  PROVE  i \in Examined(now)
<1> DEFINE n == Len(sleep_q)
           W(k) == {x \in 1 .. k - 1 : Due(now, x)}
           di == Cardinality(W(i))
           dj == Cardinality(W(j))
<1>1. n \in Nat /\ DOMAIN sleep_q = 1 .. n
  BY SleepQueueNotFull
<1>2. j \in 1 .. n /\ j - 1 < n - dj
  BY <1>1 DEF Examined
<1>3. IsFiniteSet(1 .. j - 1)
  BY <1>1, <1>2, FS_Interval
<1>4. W(j) \in SUBSET (1 .. j - 1) /\ W(i) \in SUBSET W(j)
  BY <1>1, <1>2
<1>5. IsFiniteSet(W(j))
  BY <1>3, <1>4, FS_Subset
<1>6. IsFiniteSet(W(i)) /\ di <= dj
  BY <1>4, <1>5, FS_Subset
<1>7. di \in Nat /\ dj \in Nat
  BY <1>5, <1>6, FS_CardinalityType
<1>8. i \in DOMAIN sleep_q /\ i <= j /\ i \in Int /\ j \in Int
  BY <1>1, <1>2
<1> HIDE DEF di, dj, n
<1>9. i - 1 < n - di
  BY <1>1, <1>2, <1>6, <1>7, <1>8
<1> QED
  BY <1>8, <1>9 DEF Examined, di, n

\* While all positions so far are examined, the test of the loop succeeds if
\* and only if the next one is examined.
LEMMA TestOfLoop ==
  ASSUME NEW now \in Int, Places, NEW i \in 0 .. Len(sleep_q) - 1,
         Reached(now, i) = 1 .. i
  PROVE  i < Len(LoopAt(now, i).sleepers) <=> i + 1 \in Examined(now)
<1> DEFINE n == Len(sleep_q)
           W == {k \in 1 .. i : Due(now, k)}
           B == {k \in 1 .. i : ~ Due(now, k)}
           w == Cardinality(W)
           b == Cardinality(B)
           rest == DOMAIN sleep_q \ Reached(now, i)
           l == Len(LoopAt(now, i).sleepers)
<1>1. n \in Nat /\ DOMAIN sleep_q = 1 .. n /\ i \in Nat /\ i + 1 \in 1 .. n
  BY SleepQueueNotFull
<1>2. IsFiniteSet(1 .. i) /\ Cardinality(1 .. i) = i
  BY <1>1, FS_Interval
<1>3. IsFiniteSet(W) /\ IsFiniteSet(B)
  BY <1>2, FS_Subset
<1>4. 1 .. i = W \cup B /\ W \cap B = {}
  OBVIOUS
<1>5. w \in Nat /\ b \in Nat
  BY <1>3, FS_CardinalityType
<1>6. i = w + b
  <2>1. Cardinality({}) = 0
    BY FS_EmptySet
  <2>2. Cardinality(W \cup B) = w + b - Cardinality(W \cap B)
    <3> HIDE DEF W, B
    <3> QED
      BY <1>3, FS_Union
  <2>3. Cardinality(W \cup B) = i /\ Cardinality(W \cap B) = 0
    <3> HIDE DEF W, B
    <3> QED
      BY <1>2, <1>4, <2>1
  <2> HIDE DEF w, b
  <2> QED
    BY <1>1, <1>5, <2>2, <2>3
<1>7. i + 1 \in Examined(now) <=> i < n - w
  <2>1. i + 1 - 1 = i
    BY <1>1
  <2>2. i + 1 \in DOMAIN sleep_q
    BY <1>1
  <2>3. i + 1 \in Examined(now)
          <=> i + 1 - 1 < n - Cardinality({k \in 1 .. i + 1 - 1 : Due(now, k)})
    BY <2>2 DEF Examined
  <2> QED
    BY <2>1, <2>3
<1>8. l = n - i + b
  <2>1. sleep_q \in Seq(PID) /\ IsInjective(sleep_q)
    BY DEF Places, AsleepOK
  <2>2. rest = i + 1 .. n /\ PutBack(now, i) = B
    BY <1>1 DEF PutBack
  <2>3. Cardinality(i + 1 .. n) = n - i
    <3>1. Cardinality(i + 1 .. n) = n - (i + 1) + 1
      BY <1>1, FS_Interval
    <3> QED
      BY <1>1, <3>1
  <2>4. B \in SUBSET DOMAIN sleep_q /\ i + 1 .. n \in SUBSET DOMAIN sleep_q /\ n - i \in Nat
    BY <1>1
  <2> HIDE DEF B, rest, n
  <2>5. Pick(sleep_q, i + 1 .. n) \in Seq(PID) /\ Len(Pick(sleep_q, i + 1 .. n)) = n - i
    BY <2>1, <2>3, <2>4, PickLength
  <2>6. Pick(sleep_q, B) \in Seq(PID) /\ Len(Pick(sleep_q, B)) = b
    BY <1>5, <2>1, <2>4, PickLength
  <2>7. Len(Pick(sleep_q, i + 1 .. n) \o Pick(sleep_q, B)) = n - i + b
    BY <2>5, <2>6, ConcatProperties
  <2> QED
    BY <2>2, <2>7 DEF LoopAt, rest
<1> HIDE DEF n, w, b, l
<1>9. i < l <=> i < n - w
  BY <1>1, <1>5, <1>6, <1>8
<1> QED
  BY <1>7, <1>9 DEF l

\* An iteration, if the next position is examined.
LEMMA BodyOfLoop ==
  ASSUME NEW now \in Int, Places, NEW i \in 0 .. Len(sleep_q) - 1,
         i + 1 \in Examined(now)
  PROVE  Iterate(now, i, LoopAt(now, i)) = LoopAt(now, i + 1)
<1> DEFINE n == Len(sleep_q)
           a == i + 1
           x == sleep_q[a]
           R == DOMAIN sleep_q \ Reached(now, a)
           P == PutBack(now, i)
           W == WokenBy(now, i)
           r == Pick(sleep_q, R)
           p == Pick(sleep_q, P)
           w == Pick(sleep_q, W)
           at == LoopAt(now, i)
<1>1. n \in Nat /\ DOMAIN sleep_q = 1 .. n /\ i \in Nat /\ a \in 1 .. n /\ x \in PID
  BY SleepQueueNotFull
<1>2. sleep_q \in Seq(PID) /\ IsInjective(sleep_q)
  BY DEF Places, AsleepOK
<1>3. Reached(now, i) = 1 .. i /\ Reached(now, a) = 1 .. a
  <2>1. \A j \in 1 .. a : j \in Examined(now)
    BY ExaminedIsPrefix
  <2>2. \A j \in Examined(now) : j \in 1 .. n
    BY <1>1 DEF Examined
  <2>3. \A j \in 1 .. i : j \in 1 .. a
    BY <1>1
  <2> QED
    BY <1>1, <2>1, <2>2, <2>3 DEF Reached
<1>4. i < Len(at.sleepers)
  BY <1>3, TestOfLoop
<1>5. /\ R \in SUBSET DOMAIN sleep_q /\ P \in SUBSET DOMAIN sleep_q
      /\ W \in SUBSET DOMAIN sleep_q
      /\ \A j \in R : a < j
      /\ \A j \in P : j < a
      /\ \A j \in W : j < a
  BY <1>1, <1>3 DEF PutBack, WokenBy
<1>6. DOMAIN sleep_q \ Reached(now, i) = R \cup {a}
  BY <1>1, <1>3
<1> HIDE DEF R, P, W
<1>7. /\ Pick(sleep_q, R \cup {a}) # <<>>
      /\ Head(Pick(sleep_q, R \cup {a})) = x
      /\ Tail(Pick(sleep_q, R \cup {a})) = r
  BY <1>1, <1>2, <1>5, PickFirst
<1>8. /\ r \in Seq(PID) /\ IsInjective(r) /\ Range(r) = {sleep_q[j] : j \in R}
      /\ p \in Seq(PID) /\ IsInjective(p) /\ Range(p) = {sleep_q[j] : j \in P}
      /\ w \in Seq(PID) /\ IsInjective(w) /\ Range(w) = {sleep_q[j] : j \in W}
  BY <1>2, <1>5, PickFacts
<1>9. Pick(sleep_q, R \cup {a}) \in Seq(PID)
  BY <1>1, <1>2, <1>5, PickFacts
<1> HIDE DEF r, p, w
<1>10. /\ Head(at.sleepers) = x
       /\ Tail(at.sleepers) = r \o p
  <2>1. at.sleepers = Pick(sleep_q, R \cup {a}) \o p
    BY <1>6 DEF LoopAt, p, P
  <2>2. /\ Head(Pick(sleep_q, R \cup {a}) \o p) = Head(Pick(sleep_q, R \cup {a}))
        /\ Tail(Pick(sleep_q, R \cup {a}) \o p) = Tail(Pick(sleep_q, R \cup {a})) \o p
    BY <1>1, <1>7, <1>8, <1>9, ConcatEnds
  <2> QED
    BY <1>7, <2>1, <2>2
<1>11. Iterate(now, i, at) = Body(now, at)
  BY <1>4 DEF Iterate
<1>12. Due(now, a) <=> now >= wake_time[x]
  BY DEF Due
<1>13. \A j, k \in DOMAIN sleep_q : sleep_q[j] = sleep_q[k] => j = k
  BY <1>2 DEF IsInjective
<1>14. at.ready = EnQAll(w, proc_q)
  BY DEF LoopAt, w, W
<1>15. LoopAt(now, a) =
         [sleepers |-> r \o Pick(sleep_q, PutBack(now, a)),
          ready |-> EnQAll(Pick(sleep_q, WokenBy(now, a)), proc_q),
          states |-> LoopAt(now, a).states]
  BY DEF LoopAt, r, R
<1>16. CASE Due(now, a)
  <2>1. PutBack(now, a) = P /\ WokenBy(now, a) = W \cup {a}
    <3>1. \A j \in 1 .. a : j \in 1 .. i \/ j = a
      BY <1>1
    <3>2. \A j \in 1 .. i : j \in 1 .. a /\ j # a
      BY <1>1
    <3> QED
      BY <1>1, <1>3, <1>16, <3>1, <3>2 DEF PutBack, WokenBy, P, W
  <2>2. Pick(sleep_q, W \cup {a}) = Append(w, x)
    BY <1>1, <1>2, <1>5, PickLast DEF w
  <2>3. EnQ(x, EnQAll(w, proc_q)) = EnQAll(Append(w, x), proc_q)
    <3>1. a \in DOMAIN sleep_q /\ a \notin W
      BY <1>1, <1>5
    <3> HIDE DEF a
    <3> QED
      BY <1>5, <1>8, <3>1, EnQBehind DEF x
  <2>4. [at.states EXCEPT ![x] = "READY"] = LoopAt(now, a).states
    <3>1. LoopAt(now, a).states =
            [p2 \in PID |-> IF \E j \in W \cup {a} : sleep_q[j] = p2 THEN "READY" ELSE state[p2]]
      BY <2>1 DEF LoopAt
    <3>2. at.states =
            [p2 \in PID |-> IF \E j \in W : sleep_q[j] = p2 THEN "READY" ELSE state[p2]]
      BY DEF LoopAt, W
    <3> QED
      BY <1>1, <3>1, <3>2
  <2>5. Body(now, at) = [sleepers |-> r \o p,
                         ready |-> EnQ(x, EnQAll(w, proc_q)),
                         states |-> LoopAt(now, a).states]
    BY <1>10, <1>12, <1>14, <1>16, <2>4 DEF Body
  <2> QED
    BY <1>11, <1>15, <2>1, <2>2, <2>3, <2>5 DEF p
<1>17. CASE ~ Due(now, a)
  <2>1. PutBack(now, a) = P \cup {a} /\ WokenBy(now, a) = W
    <3>1. \A j \in 1 .. a : j \in 1 .. i \/ j = a
      BY <1>1
    <3>2. \A j \in 1 .. i : j \in 1 .. a /\ j # a
      BY <1>1
    <3> QED
      BY <1>1, <1>3, <1>17, <3>1, <3>2 DEF PutBack, WokenBy, P, W
  <2>2. Pick(sleep_q, P \cup {a}) = Append(p, x)
    BY <1>1, <1>2, <1>5, PickLast DEF p
  <2>3. x \notin Range(r) /\ x \notin Range(p) /\ Range(r) \cap Range(p) = {}
    <3>1. a \notin R /\ a \notin P /\ R \cap P = {}
      BY <1>1, <1>5
    <3> QED
      BY <1>1, <1>5, <1>8, <1>13, <3>1
  <2>4. EnQ(x, r \o p) = Append(r \o p, x)
    <3>1. r \o p \in Seq(PID) /\ IsInjective(r \o p) /\ x \notin Range(r \o p)
      <4>1. /\ r \o p \in Seq(PID) /\ Range(r \o p) = Range(r) \cup Range(p)
            /\ IsInjective(r \o p)
        <5>1. /\ r \in Seq(PID) /\ p \in Seq(PID) /\ IsInjective(r) /\ IsInjective(p)
              /\ Range(r) \cap Range(p) = {}
          BY <1>8, <2>3
        <5> QED
          BY <5>1, ConcatFacts
      <4> HIDE DEF x
      <4> QED
        BY <2>3, <4>1
    <3> HIDE DEF x
    <3> QED
      BY <1>1, <3>1, EnQFacts
  <2>5. Append(r \o p, x) = r \o Append(p, x)
    BY <1>1, <1>8, ConcatEnds
  <2>6. at.states = LoopAt(now, a).states
    BY <2>1 DEF LoopAt, W
  <2>7. at = [sleepers |-> at.sleepers, ready |-> at.ready, states |-> at.states]
    BY DEF LoopAt
  <2>8. Body(now, at) = [sleepers |-> EnQ(x, r \o p),
                         ready |-> EnQAll(w, proc_q),
                         states |-> LoopAt(now, a).states]
    <3> HIDE DEF at
    <3> QED
      BY <1>10, <1>12, <1>14, <1>17, <2>6, <2>7 DEF Body
  <2> QED
    BY <1>11, <1>15, <2>1, <2>2, <2>4, <2>5, <2>8 DEF w
<1> QED
  BY <1>16, <1>17

\* An iteration after the last one: the test fails.
LEMMA LoopIsOver ==
  ASSUME NEW now \in Int, Places, NEW i \in 0 .. Len(sleep_q) - 1,
         i + 1 \notin Examined(now)
  PROVE  Iterate(now, i, LoopAt(now, i)) = LoopAt(now, i + 1)
<1> DEFINE n == Len(sleep_q)
           U == DOMAIN sleep_q \ Examined(now)
           u == Min(U)
           m == u - 1
<1>1. n \in Nat /\ DOMAIN sleep_q = 1 .. n /\ i \in Nat /\ i + 1 \in 1 .. n
  BY SleepQueueNotFull
<1>2. i + 1 \in U
  BY <1>1
<1>3. U \in SUBSET (1 .. n) /\ IsFiniteSet(1 .. n)
  BY <1>1, FS_Interval
<1>4. U \in SUBSET Int /\ IsFiniteSet(U) /\ U # {}
  <2> HIDE DEF U, n
  <2>1. U \in SUBSET Int
    BY <1>1, <1>3
  <2>2. IsFiniteSet(U)
    BY <1>3, FS_Subset
  <2> QED
    BY <1>2, <2>1, <2>2
<1>5. u \in U /\ \A y \in U : u <= y
  BY <1>4, MinFacts
<1> HIDE DEF u
<1>6. u \in 1 .. n /\ u <= i + 1 /\ m \in 0 .. n - 1 /\ m + 1 = u
  BY <1>1, <1>2, <1>3, <1>5
<1>7. \A j \in Examined(now) : j \in 1 .. n /\ j < u
  <2> SUFFICES ASSUME NEW j \in Examined(now) PROVE j \in 1 .. n /\ j < u
    OBVIOUS
  <2>1. j \in 1 .. n
    BY <1>1 DEF Examined
  <2>2. ASSUME u <= j PROVE FALSE
    <3>1. u \in 1 .. j
      BY <1>1, <1>6, <2>1, <2>2
    <3>2. u \in Examined(now)
      BY <3>1, ExaminedIsPrefix
    <3> QED
      BY <1>5, <3>2
  <2> QED
    BY <1>1, <1>6, <2>1, <2>2
<1>8. /\ Reached(now, i) = Examined(now)
      /\ Reached(now, i + 1) = Examined(now)
      /\ Reached(now, m) = Examined(now)
  BY <1>1, <1>6, <1>7 DEF Reached
<1>9. Examined(now) = 1 .. m
  <2>1. \A j \in 1 .. m : j \in 1 .. n /\ j < u
    BY <1>1, <1>6
  <2>2. \A j \in 1 .. m : j \in Examined(now)
    BY <1>1, <1>5, <1>6, <2>1
  <2>3. ASSUME NEW j \in Examined(now) PROVE j \in 1 .. m
    <3>1. j \in 1 .. n /\ j < u
      BY <1>7
    <3> QED
      BY <1>1, <1>6, <3>1
  <2> QED
    BY <2>2, <2>3
<1>10. LoopAt(now, i) = LoopAt(now, m) /\ LoopAt(now, i + 1) = LoopAt(now, i)
  BY <1>8 DEF LoopAt, PutBack, WokenBy
<1> DEFINE l == Len(LoopAt(now, i).sleepers)
<1>11. ~ (m < l)
  <2>1. m \in 0 .. Len(sleep_q) - 1 /\ Reached(now, m) = 1 .. m
    BY <1>6, <1>8, <1>9
  <2>2. m + 1 \notin Examined(now)
    BY <1>5, <1>6
  <2> HIDE DEF m
  <2> QED
    BY <1>10, <2>1, <2>2, TestOfLoop
<1>12. l \in Int
  <2>1. sleep_q \in Seq(PID) /\ IsInjective(sleep_q)
    BY DEF Places, AsleepOK
  <2>2. /\ Pick(sleep_q, DOMAIN sleep_q \ Reached(now, i)) \in Seq(PID)
        /\ Pick(sleep_q, PutBack(now, i)) \in Seq(PID)
    BY <2>1, PickFacts DEF PutBack, Reached, Examined
  <2>3. LoopAt(now, i).sleepers \in Seq(PID)
    BY <2>2, ConcatProperties DEF LoopAt
  <2> QED
    BY <2>3, LenProperties
<1> HIDE DEF l
<1>13. ~ (i < l)
  BY <1>1, <1>6, <1>11, <1>12
<1> QED
  BY <1>10, <1>13 DEF Iterate, l

\* The loop, iteration by iteration.
LEMMA LoopIsLoopAt ==
  ASSUME NEW now \in Int, Places
  PROVE  Loop(now) = LoopAt(now, Len(sleep_q))
<1> DEFINE n == Len(sleep_q)
           after[i \in 0 .. n] ==
             IF i = 0 THEN AtStart ELSE Iterate(now, i-1, after[i-1])
           closed == [i \in 0 .. n |-> LoopAt(now, i)]
<1>1. n \in Nat
  BY SleepQueueNotFull
<1>2. LoopAt(now, 0) = AtStart
  <2>1. Reached(now, 0) = {}
    BY SleepQueueNotFull DEF Reached, Examined
  <2>2. PutBack(now, 0) = {} /\ WokenBy(now, 0) = {}
    BY <2>1 DEF PutBack, WokenBy
  <2>3. sleep_q \in Seq(PID) /\ IsInjective(sleep_q) /\ proc_q \in Seq(PID)
        /\ state \in [PID -> State]
    BY DEF Places, AsleepOK, ReadyOK
  <2>4. Pick(sleep_q, {}) = <<>>
    <3>1. Cardinality({}) = 0
      BY FS_EmptySet
    <3>2. Pick(sleep_q, {}) \in Seq(PID) /\ Len(Pick(sleep_q, {})) = 0
      BY <2>3, <3>1, PickLength
    <3> QED
      BY <3>2, EmptySeq
  <2>5. Pick(sleep_q, DOMAIN sleep_q) = sleep_q
    BY <2>3, PickAll
  <2>6. sleep_q \o <<>> = sleep_q
    BY <2>3, ConcatEmptySeq
  <2>7. EnQAll(<<>>, proc_q) = proc_q
    <3>1. Len(proc_q) <= MAX_PROC /\ Len(proc_q) \in Nat /\ Len(<<>>) = 0
      BY <2>3, QueueFits, LenProperties, EmptySeq DEF Places, ReadyOK
    <3>2. proc_q \o <<>> = proc_q
      BY <2>3, ConcatEmptySeq
    <3> QED
      BY <3>1, <3>2, ProcessAssumption DEF EnQAll
  <2>8. LoopAt(now, 0).states = state
    BY <2>2, <2>3 DEF LoopAt
  <2>9. LoopAt(now, 0) = [sleepers |-> sleep_q, ready |-> proc_q,
                          states |-> LoopAt(now, 0).states]
    BY <2>1, <2>2, <2>4, <2>5, <2>6, <2>7 DEF LoopAt
  <2> QED
    BY <2>8, <2>9 DEF AtStart
<1>3. ASSUME NEW i \in 0 .. n - 1
      PROVE  Iterate(now, i, LoopAt(now, i)) = LoopAt(now, i + 1)
  BY BodyOfLoop, LoopIsOver
<1>4. closed = [i \in 0 .. n |->
                  IF i = 0 THEN AtStart ELSE Iterate(now, i-1, closed[i-1])]
  <2>1. \A i \in 0 .. n : i # 0 => i-1 \in 0 .. n-1 /\ i-1 \in 0 .. n /\ i-1+1 = i
    BY <1>1
  <2> HIDE DEF n
  <2>2. \A i \in 0 .. n : i # 0 => LoopAt(now, i) = Iterate(now, i-1, closed[i-1])
    BY <1>3, <2>1
  <2> QED
    BY <1>2, <2>2
<1>5. after = [i \in 0 .. n |->
                 IF i = 0 THEN AtStart ELSE Iterate(now, i-1, after[i-1])]
  <2> HIDE DEF closed, n
  <2> QED
    BY <1>4
<1>6. Loop(now) = after[n]
  BY DEF Loop
<1> HIDE DEF after
<1>7. \A i \in 0 .. n : after[i] = LoopAt(now, i)
  <2> DEFINE C == {i \in 0 .. n : after[i] # LoopAt(now, i)}
             c == Min(C)
  <2> SUFFICES ASSUME C # {} PROVE FALSE
    OBVIOUS
  <2>1. C \in SUBSET (0 .. n) /\ IsFiniteSet(0 .. n)
    BY <1>1, FS_Interval
  <2>2. C \in SUBSET Int /\ IsFiniteSet(C)
    <3> HIDE DEF C, n
    <3>1. C \in SUBSET Int
      BY <1>1, <2>1
    <3>2. IsFiniteSet(C)
      BY <2>1, FS_Subset
    <3> QED
      BY <3>1, <3>2
  <2>3. c \in C /\ \A y \in C : c <= y
    <3> HIDE DEF C
    <3> QED
      BY <2>2, MinFacts
  <2> HIDE DEF c
  <2>4. c \in 0 .. n /\ after[c] # LoopAt(now, c)
    BY <2>3
  <2>5. c # 0
    BY <1>1, <1>2, <1>5, <2>4
  <2>6. c-1 \in 0 .. n-1 /\ c-1 \in 0 .. n /\ c-1+1 = c /\ ~ (c <= c-1)
    BY <1>1, <2>4, <2>5
  <2>7. after[c-1] = LoopAt(now, c-1)
    BY <2>3, <2>6
  <2>8. after[c] = Iterate(now, c-1, after[c-1])
    BY <1>5, <2>4, <2>5
  <2> QED
    BY <1>3, <2>4, <2>6, <2>7, <2>8
<1>8. n \in 0 .. n
  BY <1>1
<1> QED
  BY <1>6, <1>7, <1>8

\* The loop of TimerSub has exactly the effect that Timer states in closed
\* form: the positions examined, the order of both queues and the states.
THEOREM ClosedFormIsTheLoop == Spec => []TimerSubIsLoop
<1>1. IInv => TimerSubIsLoop
  <2> SUFFICES ASSUME Places, DataOK PROVE TimerSubIsLoop
    BY IInvInParts
  <2> DEFINE now == Wrap(system_time + 1)
             n == Len(sleep_q)
  <2>1. now \in Int
    <3>1. system_time + 1 \in Int
      BY TimerAssumption DEF DataOK, Time
    <3> QED
      BY <3>1, WrapInTime, TimerAssumption DEF Time
  <2> HIDE DEF now
  <2>2. Reached(now, n) = Examined(now)
    BY SleepQueueNotFull DEF Reached, Examined
  <2>3. PutBack(now, n) = Examined(now) \ WokenAt(now) /\ WokenBy(now, n) = WokenAt(now)
    BY <2>2 DEF PutBack, WokenBy, WokenAt
  <2>4. LoopAt(now, n).states = StateAfterTick(now)
    <3>1. Range(Woken(now)) = {sleep_q[j] : j \in WokenAt(now)}
      <4>1. sleep_q \in Seq(PID) /\ IsInjective(sleep_q)
        BY DEF Places, AsleepOK
      <4>2. WokenAt(now) \in SUBSET DOMAIN sleep_q
        BY DEF WokenAt, Examined
      <4> QED
        BY <4>1, <4>2, PickFacts DEF Woken
    <3> QED
      BY <2>3, <3>1 DEF LoopAt, StateAfterTick
  <2>5. LoopAt(now, n) = [sleepers |-> StillAsleep(now),
                          ready |-> EnQAll(Woken(now), proc_q),
                          states |-> LoopAt(now, n).states]
    BY <2>2, <2>3 DEF LoopAt, StillAsleep, Woken
  <2>6. Loop(now) = LoopAt(now, n)
    BY <2>1, LoopIsLoopAt
  <2> QED
    BY <2>4, <2>5, <2>6 DEF TimerSubIsLoop, now
<1> QED
  BY <1>1, IInvAlways, PTL
-----------------------------------------------------------------------------
\* Mail.  The behaviours of MailHistory are behaviours of Kernel, so the
\* invariants of Kernel hold in them; with those DeliveredInOrder is inductive.
LEMMA HistoryNextIsNext == [HistoryNext]_withHistory => [Next]_vars
<1>1. HistoryNext => Next
  BY DEF HistoryNext, Next, SendToWaiter, SendToRing, SendIsDropped, Receivers,
    ReceiveNow, ReceiveLater, ForkClearsMail, MsgSndIntr, MsgRcvIntr
<1> QED
  BY <1>1 DEF withHistory, vars

LEMMA KernelInvariants == HistorySpec => [](IInv /\ NobodyWaitsOnMail)
<1>1. HistoryInit => Init
  BY DEF HistoryInit
<1>2. HistorySpec => Spec
  BY <1>1, HistoryNextIsNext, PTL DEF HistorySpec, Spec
<1> QED
  BY <1>2, IInvAlways, NoSleepOnMail, PTL

\* What a send does to the mailbox of x.
LEMMA SendDelivers ==
  ASSUME Places, DataOK, NobodyWaitsOnMail, DeliveredInOrder,
         NEW x \in PID, NEW d \in Data,
         SendToWaiter(x, d) \/ SendToRing(x, d) \/ SendIsDropped(x, d)
  PROVE  DeliveredInOrder'
<1> DEFINE m == [sender |-> run_pid, data |-> d]
<1>1. /\ m \in Message
      /\ mbox \in [PID -> Seq(Message)] /\ owed = mbox /\ cheated = {}
      /\ buf \in [PID -> Message \cup {NoMessage}]
  BY RunningIsInNoQueue DEF Message, DataOK, DeliveredInOrder
<1> HIDE DEF m
<1>2. CASE SendToWaiter(x, d)
  <2>1. HandOff(x, m) /\ mbox_wait_q[x] # <<>>
    BY <1>2 DEF SendToWaiter, MsgSndISR, Enqueue, m
  <2>2. Head(mbox_wait_q[x]) = x /\ mbox[x] = <<>>
    BY <2>1, MboxWaiters DEF Places, NobodyWaitsOnMail, OnMbox
  <2>3. mbox' = mbox /\ buf'[x] = m
    BY <1>1, <2>1, <2>2 DEF HandOff
  <2>4. Receives(x, <<m>>)
    <3>1. Append(owed[x], m) = <<m>>
      BY <1>1, <2>2
    <3> QED
      BY <1>2, <2>2, <3>1 DEF SendToWaiter, m
  <2>5. Head(<<m>>) = m /\ Tail(<<m>>) = <<>>
    BY <1>1
  <2>6. owed' = owed /\ cheated' = cheated
    BY <1>1, <2>2, <2>3, <2>4, <2>5 DEF Receives
  <2> QED
    BY <1>1, <2>3, <2>6 DEF DeliveredInOrder
<1>3. CASE SendToRing(x, d)
  <2>1. Enqueue(x, m) /\ Len(mbox[x]) < MBOX_SIZE
    BY <1>1, <1>3 DEF SendToRing, MsgSndISR, HandOff, m
  <2>2. mbox' = [mbox EXCEPT ![x] = Append(@, m)]
    BY <2>1 DEF Enqueue, MsgEnQ
  <2> QED
    BY <1>1, <1>3, <2>2 DEF SendToRing, DeliveredInOrder, m
<1>4. CASE SendIsDropped(x, d)
  <2>1. Enqueue(x, m) /\ ~ Len(mbox[x]) < MBOX_SIZE
    BY <1>1, <1>4, LenProperties, MailboxAssumption
      DEF SendIsDropped, MsgSndISR, HandOff, m
  <2>2. mbox' = mbox
    BY <1>1, <2>1 DEF Enqueue, MsgEnQ
  <2> QED
    BY <1>1, <1>4, <2>2 DEF SendIsDropped, historyVars, DeliveredInOrder
<1> QED
  BY <1>2, <1>3, <1>4

LEMMA ReceiveDelivers ==
  ASSUME Places, DataOK, DeliveredInOrder, ReceiveNow \/ ReceiveLater
  PROVE  DeliveredInOrder'
<1>1. /\ mbox \in [PID -> Seq(Message)] /\ owed = mbox /\ cheated = {}
      /\ buf \in [PID -> Message \cup {NoMessage}] /\ run_pid \in PID
  BY RunningIsInNoQueue DEF DataOK, DeliveredInOrder
<1>2. ASSUME AwaitMail(run_pid) PROVE run_pid' # run_pid /\ mbox' = mbox
  <2>1. Scheduler(NONE, proc_q, [state EXCEPT ![run_pid] = "WAIT"]) /\ mbox' = mbox
    BY <1>2 DEF AwaitMail
  <2>2. CASE proc_q # <<>>
    BY <2>1, <2>2, HeadTailFacts, RunningIsInNoQueue DEF Scheduler, Places, ReadyOK
  <2>3. CASE proc_q = <<>>
    BY <1>1, <2>1, <2>3, PidFacts DEF Scheduler
  <2> QED
    BY <2>1, <2>2, <2>3
<1>3. CASE ReceiveNow
  <2>1. Receive(run_pid) /\ Receives(run_pid, owed[run_pid])
    BY <1>2, <1>3 DEF ReceiveNow, MsgRcvISR
  <2>2. /\ mbox' = [mbox EXCEPT ![run_pid] = Tail(@)]
        /\ buf'[run_pid] = Head(owed[run_pid])
    BY <1>1, <2>1 DEF Receive
  <2> QED
    BY <1>1, <2>1, <2>2 DEF Receives, DeliveredInOrder
<1>4. CASE ReceiveLater
  <2>1. AwaitMail(run_pid)
    BY <1>4 DEF ReceiveLater, MsgRcvISR, Receive, procVars
  <2> QED
    BY <1>1, <1>2, <1>4, <2>1 DEF ReceiveLater, historyVars, DeliveredInOrder
<1> QED
  BY <1>3, <1>4

LEMMA DeliveryStep ==
  ASSUME Places, DataOK, NobodyWaitsOnMail, DeliveredInOrder, [HistoryNext]_withHistory
  PROVE  DeliveredInOrder'
<1>1. CASE ForkClearsMail
  BY <1>1 DEF ForkClearsMail, ForkISR, DeliveredInOrder
<1>2. CASE UNCHANGED <<mbox, historyVars>>
  BY <1>2 DEF historyVars, DeliveredInOrder
<1>3. CASE UNCHANGED withHistory
  BY <1>2, <1>3 DEF withHistory, vars, mailVars
<1>6. CASE /\ TimerIntr \/ SleepIntr \/ SemIntr \/ DeviceIntr \/ WaitISR \/ ExitISR
           /\ UNCHANGED historyVars
  BY <1>2, <1>6 DEF mailVars, TimerIntr, SleepIntr, SemIntr, DeviceIntr,
    WaitISR, ExitISR
<1>4. CASE \E x \in Receivers, d \in Data :
             SendToWaiter(x, d) \/ SendToRing(x, d) \/ SendIsDropped(x, d)
  <2>1. PICK x \in Receivers, d \in Data :
          SendToWaiter(x, d) \/ SendToRing(x, d) \/ SendIsDropped(x, d)
    BY <1>4
  <2>2. x \in PID
    BY DEF Receivers
  <2> QED
    BY <2>1, <2>2, SendDelivers
<1>5. CASE ReceiveNow \/ ReceiveLater
  BY <1>5, ReceiveDelivers
<1> QED
  BY <1>1, <1>3, <1>4, <1>5, <1>6 DEF HistoryNext

\* Messages accepted are received once and in order, whatever interrupts.
THEOREM MailIsDelivered == HistorySpec => []DeliveredInOrder
<1>1. HistoryInit => DeliveredInOrder
  BY DEF HistoryInit, Init, MailInit, DeliveredInOrder
<1>2. IInv /\ NobodyWaitsOnMail /\ DeliveredInOrder /\ [HistoryNext]_withHistory
        => DeliveredInOrder'
  BY IInvInParts, DeliveryStep
<1> QED
  BY <1>1, <1>2, KernelInvariants, PTL DEF HistorySpec
=============================================================================
