-------------------------- MODULE Terminal_proofs --------------------------
(***************************************************************************)
(* For every size of the queues, every workload and every interleaving of  *)
(* the two processes and the handler: the UART is never written to while   *)
(* it sends, and, where size++ is one instruction, the queues are not      *)
(* spoiled, out_q_sem counts the space, and the UART is left idle only     *)
(* when there is nothing to send.                                          *)
(*                                                                         *)
(* IInv is inductive.  It says what is so in the middle of EnQ and DeQ:    *)
(* after TerminalOut has put a character and before it counts it (Owed),   *)
(* and after TerminalIn has taken one and before it counts that (InHolds). *)
(* The handler is one operator, applied to the state by TerminalIntr and   *)
(* by OutTrip: the lemmas about TerminalISR serve both.                    *)
(***************************************************************************)
EXTENDS Terminal, TLAPS, SequenceTheorems

\* The provers do not know that a literal is a string.
Char == STRING \cup {NUL, CR, NL, JUNK}

Ring == [q : [1 .. N -> Char], tail : 0 .. N-1, size : Int]

Term ==
  [given : Workloads, in_q : Ring, out_q : Ring, echo_q : Seq(Char),
   in_q_sem : Int, out_q_sem : Int, flag : {0, 1}, out_extra : {0, 1},
   rx : Char, tx : BOOLEAN, busy : BOOLEAN, overrun : BOOLEAN,
   unsent : Seq(Char), untaken : Seq(Char), garbled : BOOLEAN]

TypeOK ==
  /\ term \in Term
  /\ pc_in \in {"idle", "wait", "deq", "load", "dec", "got"}
  /\ ch \in Char /\ in_size \in Int
  /\ pc_out \in {"idle", "next", "enq", "load", "inc", "put"}
  /\ text \in Seq(Char) /\ out_size \in Int
  /\ pc_out \in {"enq", "load", "inc", "put"} => text # <<>>
  /\ \A i \in 1 .. Len(text) : text[i] # NUL /\ (i > 1 => text[i] # CR)

\* The UART and out_extra.
UartOK(t) ==
  /\ t.tx \/ t.out_extra = 1 => ~ t.busy
  /\ ~ t.busy /\ ~ t.tx => t.out_extra = 1
  /\ ~ t.overrun

\* The cells of r from head on are those of s, whatever r.size says.
Holds(r, s) ==
  /\ Len(s) <= N
  /\ r.tail = IF Len(s) = N THEN 0 ELSE Len(s)
  /\ \A i \in 1 .. Len(s) : r.q[i] = s[i]

\* TerminalOut and the handler on out_q: owed is 1 while TerminalOut has put
\* c but not counted it; k is the space and what is counted.
OutHolds(t, owed, c, k) ==
  /\ ~ t.garbled
  /\ Holds(t.out_q, t.unsent)
  /\ t.out_q.size = Len(t.unsent) - owed /\ t.out_q.size >= 0
  /\ \A i \in 1 .. Len(t.unsent) : t.unsent[i] # NUL
  /\ owed = 1 => t.unsent[Len(t.unsent)] = c
  /\ t.out_q_sem + t.out_q.size = k

\* TerminalIn and the handler on in_q: in "dec" TerminalIn has taken c but not
\* counted it.
InHolds(t, pc, c) ==
  /\ pc # "load"
  /\ t.in_q.size = Len(t.untaken)
  /\ IF pc = "dec"
     THEN t.untaken # <<>> /\ c = Head(t.untaken) /\ Holds(t.in_q, Tail(t.untaken))
     ELSE Holds(t.in_q, t.untaken)

\* The handler leaves the UART idle only when there is nothing to send.
Drained(t) == t.busy \/ (t.echo_q = <<>> /\ t.out_q.size = 0)

\* What waits in out_q while the UART is idle: at most the carriage return that
\* is not followed by TripTerminal, and nothing before that is queued.
LittleLeft(t) ==
  t.out_q.size = 0 \/ (t.out_q.size = 1 /\ t.unsent[1] = CR)

AddedCR(s) == s # <<>> /\ Head(s) = CR

IdleOK(t, pc, s) ==
  ~ t.busy /\ ~ t.tx =>
    /\ t.echo_q = <<>>
    /\ pc # "put" \/ AddedCR(s) => LittleLeft(t)
    /\ pc # "put" /\ AddedCR(s) => t.out_q.size = 0

Owed(pc) == IF pc = "inc" THEN 1 ELSE 0

Space(pc) == IF pc \in {"enq", "inc"} THEN N - 1 ELSE N

AtomicInv ==
  /\ OutHolds(term, Owed(pc_out), Head(text), Space(pc_out))
  /\ pc_out # "load"
  /\ InHolds(term, pc_in, ch)
  /\ IdleOK(term, pc_out, text)

IInv == TypeOK /\ UartOK(term) /\ (term.given.atomic => AtomicInv)

\* The cursor of a ring that holds n elements, before and after one more.
LEMMA StepBack ==
  ASSUME NEW n \in 1 .. N, NEW t, t = IF n = N THEN 0 ELSE n
  PROVE  (t - 1) % N = n - 1
BY TerminalAssumption

LEMMA StepOn ==
  ASSUME NEW n \in 0 .. N-1, NEW t, t = n
  PROVE  (t + 1) % N = IF n + 1 = N THEN 0 ELSE n + 1
BY TerminalAssumption

LEMMA TailFacts ==
  ASSUME NEW s \in Seq(Char), s # <<>>
  PROVE  /\ Len(s) \in Nat \ {0}
         /\ Head(s) = s[1] /\ Head(s) \in Char
         /\ Tail(s) \in Seq(Char)
         /\ Len(Tail(s)) = Len(s) - 1
         /\ \A i \in 1 .. Len(s) - 1 : Tail(s)[i] = s[i+1]
BY EmptySeq, HeadTailProperties

LEMMA AppendFacts ==
  ASSUME NEW s \in Seq(Char), NEW x \in Char
  PROVE  /\ Len(s) \in Nat
         /\ Append(s, x) \in Seq(Char)
         /\ Append(s, x) # <<>>
         /\ Len(Append(s, x)) = Len(s) + 1
         /\ \A i \in 1 .. Len(s) : Append(s, x)[i] = s[i]
         /\ Append(s, x)[Len(s) + 1] = x
<1>0. Len(s) \in Nat
  BY LenProperties
<1>1. /\ Append(s, x) \in Seq(Char) /\ Append(s, x) # <<>>
      /\ Len(Append(s, x)) = Len(s) + 1
  BY AppendProperties
<1>2. \A i \in 1 .. Len(s) : Append(s, x)[i] = s[i]
  BY AppendProperties
<1>3. Append(s, x)[Len(s) + 1] = x
  BY AppendProperties
<1> QED
  BY <1>0, <1>1, <1>2, <1>3

LEMMA TakeFacts ==
  ASSUME NEW r \in Ring
  PROVE  /\ TakeCell(r) \in Ring
         /\ TakeCell(r).size = r.size
         /\ TakeCell(r).tail = (r.tail - 1) % N
         /\ \A i \in 1 .. N-1 : TakeCell(r).q[i] = r.q[i+1]
         /\ First(r) = r.q[1] /\ First(r) \in Char
<1> USE TerminalAssumption
<1>1. r.q \in Seq(Char) /\ Len(r.q) = N /\ r.q # <<>>
  <2>1. r.q \in [1 .. N -> Char]
    BY DEF Ring
  <2>2. r.q \in Seq(Char) /\ Len(r.q) = N
    BY <2>1
  <2> QED
    BY <2>2, EmptySeq
<1>2. /\ Tail(r.q) \in Seq(Char) /\ Len(Tail(r.q)) = N-1
      /\ Head(r.q) \in Char /\ Head(r.q) = r.q[1]
      /\ \A i \in 1 .. N-1 : Tail(r.q)[i] = r.q[i+1]
  BY <1>1, TailFacts
<1> DEFINE a == Append(Tail(r.q), Head(r.q))
<1>3. /\ a \in Seq(Char) /\ Len(a) = N
      /\ \A i \in 1 .. N-1 : a[i] = r.q[i+1]
  BY <1>2, AppendFacts
<1>4. a \in [1 .. N -> Char]
  BY <1>3, LenProperties
<1>5. (r.tail - 1) % N \in 0 .. N-1
  BY DEF Ring
<1>6. TakeCell(r) = [r EXCEPT !.q = a, !.tail = (r.tail - 1) % N]
  BY DEF TakeCell, Ring
<1> HIDE DEF a
<1> QED
  BY <1>2, <1>3, <1>4, <1>5, <1>6 DEF First, Ring

LEMMA PutFacts ==
  ASSUME NEW r \in Ring, NEW x \in Char
  PROVE  PutCell(x, r) \in Ring
<1>1. (r.tail + 1) % N \in 0 .. N-1
  BY TerminalAssumption DEF Ring
<1> QED
  BY <1>1, TerminalAssumption DEF PutCell, Ring

LEMMA RingTake ==
  ASSUME NEW r \in Ring, NEW s \in Seq(Char), Holds(r, s), s # <<>>
  PROVE  Holds(TakeCell(r), Tail(s)) /\ First(r) = Head(s)
<1> USE TerminalAssumption
<1>1. /\ Len(s) \in 1 .. N /\ Len(Tail(s)) = Len(s) - 1 /\ Head(s) = s[1]
      /\ \A i \in 1 .. Len(s) - 1 : Tail(s)[i] = s[i+1]
  BY TailFacts DEF Holds
<1>2. (r.tail - 1) % N = Len(s) - 1
  BY <1>1, StepBack DEF Holds
<1>3. /\ TakeCell(r).tail = Len(s) - 1
      /\ \A i \in 1 .. N-1 : TakeCell(r).q[i] = r.q[i+1]
      /\ First(r) = r.q[1]
  BY <1>2, TakeFacts
<1>4. \A i \in 1 .. Len(Tail(s)) : TakeCell(r).q[i] = Tail(s)[i]
  <2> SUFFICES ASSUME NEW i \in 1 .. Len(Tail(s)) PROVE TakeCell(r).q[i] = Tail(s)[i]
    OBVIOUS
  <2>1. i + 1 \in 1 .. Len(s) /\ i \in 1 .. N-1 /\ i \in 1 .. Len(s) - 1
    BY <1>1
  <2>2. r.q[i+1] = s[i+1]
    BY <2>1 DEF Holds
  <2> QED
    BY <1>1, <1>3, <2>1, <2>2
<1>5. First(r) = Head(s)
  <2>1. 1 \in 1 .. Len(s)
    BY <1>1
  <2>2. r.q[1] = s[1]
    BY <2>1 DEF Holds
  <2> QED
    BY <1>1, <1>3, <2>2
<1>6. Len(Tail(s)) <= N /\ Len(Tail(s)) # N
  <2> DEFINE n == Len(s)  m == Len(Tail(s))
  <2>1. n \in 1 .. N /\ m = n - 1
    BY <1>1
  <2> HIDE DEF n, m
  <2>2. m <= N /\ m # N
    BY <2>1
  <2> QED
    BY <2>2 DEF m
<1>7. TakeCell(r).tail = IF Len(Tail(s)) = N THEN 0 ELSE Len(Tail(s))
  BY <1>1, <1>3, <1>6
<1> QED
  BY <1>4, <1>5, <1>6, <1>7, Zenon DEF Holds

LEMMA RingPut ==
  ASSUME NEW r \in Ring, NEW s \in Seq(Char), NEW x \in Char,
         Holds(r, s), Len(s) < N, r.size = 0 => s = <<>>
  PROVE  Holds(PutCell(x, r), Append(s, x)) /\ PutCell(x, r).size = r.size
<1> USE TerminalAssumption
<1>1. r.tail = Len(s) /\ Len(s) \in Nat
  BY LenProperties DEF Holds
<1>2. (r.tail + 1) % N = IF Len(s) + 1 = N THEN 0 ELSE Len(s) + 1
  BY <1>1, StepOn
<1>3. PutCell(x, r) = [r EXCEPT !.q[Len(s) + 1] = x,
         !.tail = IF Len(s) + 1 = N THEN 0 ELSE Len(s) + 1]
  <2>1. (IF r.size = 0 THEN 1 ELSE r.tail + 1) = Len(s) + 1
    BY <1>1, EmptySeq
  <2> QED
    BY <1>2, <2>1, Zenon DEF PutCell
<1> QED
  BY <1>1, <1>3, AppendFacts DEF Ring, Holds
----------------------------------------------------------------------------
\* Fields that no step of the handler on the transmitter changes.
Same(t, u) ==
  /\ u.given = t.given /\ u.in_q = t.in_q /\ u.untaken = t.untaken
  /\ u.rx = t.rx /\ u.in_q_sem = t.in_q_sem /\ u.flag = t.flag

Output(t, u) ==
  /\ u.out_q = t.out_q /\ u.out_q_sem = t.out_q_sem
  /\ u.unsent = t.unsent /\ u.garbled = t.garbled

LEMMA TransmitFacts ==
  ASSUME NEW t \in Term
  PROVE  LET u == Transmit(t) IN
         /\ u \in Term /\ Same(t, u) /\ Output(t, u)
         /\ u.echo_q = t.echo_q
         /\ u.busy /\ ~ u.tx /\ u.out_extra = 0
         /\ ~ t.overrun /\ ~ t.busy => ~ u.overrun
BY DEF Transmit, Term, Same, Output

LEMMA TakeEchoFacts ==
  ASSUME NEW t \in Term, t.echo_q # <<>>
  PROVE  LET u == TakeEcho(t) IN
         /\ u \in Term /\ Same(t, u) /\ Output(t, u)
         /\ u.busy = t.busy /\ u.tx = t.tx /\ u.out_extra = t.out_extra
         /\ u.overrun = t.overrun
<1>1. Tail(t.echo_q) \in Seq(Char)
  BY TailFacts DEF Term
<1> QED
  BY <1>1 DEF TakeEcho, Term, Same, Output

LEMMA TakeOutFacts ==
  ASSUME NEW t \in Term
  PROVE  LET u == TakeOut(t) IN
         /\ u \in Term /\ Same(t, u)
         /\ u.busy = t.busy /\ u.tx = t.tx /\ u.out_extra = t.out_extra
         /\ u.overrun = t.overrun /\ u.echo_q = t.echo_q
         /\ u.out_q = DeQ(t.out_q) /\ u.out_q_sem = t.out_q_sem + 1
         /\ u.unsent = Rest(t.unsent)
         /\ u.garbled = (t.garbled \/ NotNext(First(t.out_q), t.unsent))
<1>1. Rest(t.unsent) \in Seq(Char)
  BY TailFacts DEF Rest, Term
<1>2. DeQ(t.out_q) \in Ring
  <2>1. t.out_q \in Ring
    BY DEF Term
  <2>2. TakeCell(t.out_q) \in Ring
    BY <2>1, TakeFacts
  <2> QED
    BY <2>2 DEF DeQ, Ring
<1>3. NotNext(First(t.out_q), t.unsent) \in BOOLEAN
  BY DEF NotNext
<1>4. t.out_q_sem + 1 \in Int
  BY DEF Term
<1> QED
  BY <1>1, <1>2, <1>3, <1>4 DEF TakeOut, Term, Same

LEMMA SetExtraFacts ==
  ASSUME NEW t \in Term
  PROVE  LET u == [t EXCEPT !.out_extra = 1] IN
         /\ u \in Term /\ Same(t, u) /\ Output(t, u)
         /\ u.busy = t.busy /\ u.tx = t.tx /\ u.out_extra = 1
         /\ u.overrun = t.overrun /\ u.echo_q = t.echo_q
BY DEF Term, Same, Output

\* A character more to send, or the flag; the queue loses at most its first.
LEMMA ISRoutFacts ==
  ASSUME NEW t \in Term
  PROVE  LET u == TerminalISRout(t) IN
         /\ u \in Term /\ Same(t, u)
         /\ ~ t.busy /\ ~ t.overrun => UartOK(u)
         /\ \/ u.busy /\ Output(t, u)
            \/ u.echo_q = <<>> /\ t.out_q.size = 0 /\ Output(t, u)
            \/ /\ t.out_q.size # 0
               /\ u.busy \/ First(t.out_q) = NUL
               /\ u.out_q = DeQ(t.out_q) /\ u.out_q_sem = t.out_q_sem + 1
               /\ u.unsent = Rest(t.unsent)
               /\ u.garbled = (t.garbled \/ NotNext(First(t.out_q), t.unsent))
<1>1. CASE t.echo_q # <<>>
  <2> DEFINE e == TakeEcho(t)  u == Transmit(e)
  <2>1. TerminalISRout(t) = u
    BY <1>1 DEF TerminalISRout
  <2>2. /\ e \in Term /\ Same(t, e) /\ Output(t, e)
        /\ e.busy = t.busy /\ e.overrun = t.overrun
    BY <1>1, TakeEchoFacts
  <2>3. /\ u \in Term /\ Same(e, u) /\ Output(e, u)
        /\ u.busy /\ ~ u.tx /\ u.out_extra = 0
        /\ ~ e.overrun /\ ~ e.busy => ~ u.overrun
    BY <2>2, TransmitFacts
  <2> HIDE DEF e, u
  <2>4. ~ t.busy /\ ~ t.overrun => UartOK(u)
    BY <2>2, <2>3 DEF UartOK
  <2> QED
    BY <2>1, <2>2, <2>3, <2>4 DEF Same, Output
<1>2. CASE t.echo_q = <<>> /\ t.out_q.size = 0
  <2>1. TerminalISRout(t) = [t EXCEPT !.out_extra = 1]
    BY <1>2 DEF TerminalISRout
  <2> QED
    BY <1>2, <2>1, SetExtraFacts DEF UartOK
<1>3. CASE t.echo_q = <<>> /\ t.out_q.size # 0
  <2> DEFINE o == TakeOut(t)
  <2>1. /\ o \in Term /\ Same(t, o)
        /\ o.busy = t.busy /\ o.tx = t.tx /\ o.overrun = t.overrun
        /\ o.out_q = DeQ(t.out_q) /\ o.out_q_sem = t.out_q_sem + 1
        /\ o.unsent = Rest(t.unsent)
        /\ o.garbled = (t.garbled \/ NotNext(First(t.out_q), t.unsent))
    BY TakeOutFacts
  <2>2. TerminalISRout(t) = IF First(t.out_q) = NUL THEN [o EXCEPT !.out_extra = 1]
                            ELSE Transmit(o)
    BY <1>3 DEF TerminalISRout
  <2> HIDE DEF o
  <2>3. CASE First(t.out_q) = NUL
    <3> DEFINE u == [o EXCEPT !.out_extra = 1]
    <3>1. /\ u \in Term /\ Same(o, u) /\ Output(o, u)
          /\ u.busy = o.busy /\ u.tx = o.tx /\ u.out_extra = 1
          /\ u.overrun = o.overrun
      BY <2>1, SetExtraFacts
    <3> HIDE DEF u
    <3>2. TerminalISRout(t) = u
      BY <2>2, <2>3 DEF u
    <3> QED
      BY <1>3, <2>1, <2>3, <3>1, <3>2 DEF UartOK, Same, Output
  <2>4. CASE First(t.out_q) # NUL
    <3> DEFINE u == Transmit(o)
    <3>1. /\ u \in Term /\ Same(o, u) /\ Output(o, u)
          /\ u.busy /\ ~ u.tx /\ u.out_extra = 0
          /\ ~ o.overrun /\ ~ o.busy => ~ u.overrun
      BY <2>1, TransmitFacts
    <3> HIDE DEF u
    <3>2. TerminalISRout(t) = u
      BY <2>2, <2>4 DEF u
    <3>3. ~ t.busy /\ ~ t.overrun => UartOK(u)
      BY <2>1, <3>1 DEF UartOK
    <3> QED
      BY <1>3, <2>1, <3>1, <3>2, <3>3 DEF Same, Output
  <2> QED
    BY <2>3, <2>4
<1> QED
  BY <1>1, <1>2, <1>3

LEMMA ISRoutHolds ==
  ASSUME NEW t \in Term, NEW owed \in {0, 1}, NEW c, NEW k, OutHolds(t, owed, c, k)
  PROVE  /\ OutHolds(TerminalISRout(t), owed, c, k)
         /\ Drained(TerminalISRout(t))
<1> DEFINE u == TerminalISRout(t)
<1>1. /\ t.out_q \in Ring /\ t.unsent \in Seq(Char) /\ Len(t.unsent) \in Nat
      /\ t.out_q.size \in Int /\ t.out_q_sem \in Int
  BY LenProperties DEF Term, Ring
<1>2. \/ u.busy /\ Output(t, u)
      \/ u.echo_q = <<>> /\ t.out_q.size = 0 /\ Output(t, u)
      \/ /\ t.out_q.size # 0
         /\ u.busy \/ First(t.out_q) = NUL
         /\ u.out_q = DeQ(t.out_q) /\ u.out_q_sem = t.out_q_sem + 1
         /\ u.unsent = Rest(t.unsent)
         /\ u.garbled = (t.garbled \/ NotNext(First(t.out_q), t.unsent))
  BY ISRoutFacts
<1> HIDE DEF u
<1>3. ASSUME Output(t, u) PROVE OutHolds(u, owed, c, k) /\ u.out_q.size = t.out_q.size
  BY <1>3 DEF Output, OutHolds
<1>4. ASSUME t.out_q.size # 0, u.busy \/ First(t.out_q) = NUL,
             u.out_q = DeQ(t.out_q), u.out_q_sem = t.out_q_sem + 1,
             u.unsent = Rest(t.unsent),
             u.garbled = (t.garbled \/ NotNext(First(t.out_q), t.unsent))
      PROVE  OutHolds(u, owed, c, k) /\ Drained(u)
  <2> DEFINE s == t.unsent  n == Len(s)
  <2>1. n \in Nat \ {0} /\ s # <<>> /\ s \in Seq(Char) /\ n - owed >= 1
    BY <1>1, <1>4, EmptySeq DEF OutHolds
  <2>2. /\ Len(Tail(s)) = n - 1 /\ Head(s) = s[1]
        /\ \A i \in 1 .. n - 1 : Tail(s)[i] = s[i+1]
    BY <2>1, TailFacts
  <2>3. /\ Holds(TakeCell(t.out_q), Tail(s)) /\ First(t.out_q) = Head(s)
        /\ TakeCell(t.out_q) \in Ring /\ TakeCell(t.out_q).size = t.out_q.size
    BY <1>1, <2>1, RingTake, TakeFacts DEF OutHolds
  <2>0. u.unsent = Tail(s) /\ Len(u.unsent) = n - 1
    BY <1>4, <2>1, <2>2 DEF Rest
  <2>31. ~ NotNext(First(t.out_q), s)
    BY <2>1, <2>3 DEF NotNext
  <2>32. ~ u.garbled
    BY <1>4, <2>31 DEF OutHolds
  <2>33. First(t.out_q) # NUL
    BY <2>1, <2>2, <2>3 DEF OutHolds
  <2>4. u.unsent = Tail(s) /\ Len(u.unsent) = n - 1 /\ ~ u.garbled /\ First(t.out_q) # NUL
    BY <2>0, <2>32, <2>33
  <2>5. u.out_q.size = t.out_q.size - 1 /\ Holds(u.out_q, u.unsent)
    BY <1>1, <1>4, <2>3, <2>4 DEF DeQ, Holds, Ring
  <2>6. /\ n = Len(t.unsent) /\ t.out_q.size = n - owed
        /\ \A i \in 1 .. n : s[i] # NUL
        /\ owed = 1 => s[n] = c
        /\ t.out_q_sem + t.out_q.size = k
    BY DEF OutHolds
  <2> HIDE DEF s, n
  <2>7. \A i \in 1 .. Len(u.unsent) : u.unsent[i] # NUL
    BY <2>1, <2>2, <2>4, <2>6
  <2>8. owed = 1 => u.unsent[Len(u.unsent)] = c
    BY <2>1, <2>2, <2>4, <2>6
  <2>9. /\ u.out_q.size = Len(u.unsent) - owed /\ u.out_q.size >= 0
        /\ u.out_q_sem + u.out_q.size = k
    <3>1. u.out_q_sem = t.out_q_sem + 1 /\ t.out_q.size # 0
      BY <1>4
    <3>2. /\ n \in Nat /\ t.out_q.size \in Nat /\ t.out_q_sem \in Int
      BY <1>1, <2>1 DEF OutHolds
    <3> DEFINE l == Len(u.unsent)  z == u.out_q.size  y == t.out_q.size
    <3>3. l = n - 1 /\ z = y - 1 /\ y = n - owed /\ t.out_q_sem + y = k
      BY <2>4, <2>5, <2>6
    <3>4. n - owed >= 1
      BY <2>1
    <3>5. y \in Nat
      BY <3>2
    <3> HIDE DEF l, z, y
    <3>6. z = l - owed /\ z >= 0 /\ t.out_q_sem + 1 + z = k
      BY <3>2, <3>3, <3>4, <3>5
    <3> QED
      BY <3>1, <3>6 DEF l, z
  <2>10. OutHolds(u, owed, c, k)
    BY <2>4, <2>5, <2>7, <2>8, <2>9 DEF OutHolds
  <2>11. Drained(u)
    BY <1>4, <2>4, Zenon DEF Drained
  <2> QED
    BY <2>10, <2>11
<1>5. OutHolds(u, owed, c, k) /\ Drained(u)
  <2>1. CASE u.busy /\ Output(t, u)
    BY <1>3, <2>1, Zenon DEF Drained
  <2>2. CASE u.echo_q = <<>> /\ t.out_q.size = 0 /\ Output(t, u)
    BY <1>3, <2>2 DEF Drained
  <2> QED
    BY <1>2, <1>4, <2>1, <2>2
<1> QED
  BY <1>5 DEF u

----------------------------------------------------------------------------
\* A character that the handler takes from the UART.
LEMMA EnQRing ==
  ASSUME NEW r \in Ring, NEW x \in Char PROVE EnQ(x, r) \in Ring
<1>1. PutCell(x, r) \in Ring
  BY PutFacts
<1> QED
  BY <1>1 DEF EnQ, Ring

LEMMA EchoType ==
  ASSUME NEW t \in Term PROVE Echo(t.rx, t) \in Seq(Char)
<1>1. t.echo_q \in Seq(Char) /\ t.rx \in Char
  BY DEF Term
<1>2. ASSUME NEW s \in Seq(Char), NEW x \in Char PROVE EchoQ(x, s) \in Seq(Char)
  BY AppendFacts DEF EchoQ
<1>3. CR \in Char /\ NL \in Char
  BY DEF Char
<1> QED
  BY <1>1, <1>2, <1>3 DEF Echo

LEMMA ISRinFacts ==
  ASSUME NEW t \in Term
  PROVE  LET u == TerminalISRin(t) IN
         /\ u \in Term /\ u.given = t.given /\ Output(t, u)
         /\ u.busy = t.busy /\ u.tx = t.tx /\ u.out_extra = t.out_extra
         /\ u.overrun = t.overrun
         /\ u.in_q = EnQ(t.rx, t.in_q)
         /\ u.untaken = IF t.in_q.size < N THEN Append(t.untaken, t.rx) ELSE t.untaken
<1>1. EnQ(t.rx, t.in_q) \in Ring /\ Echo(t.rx, t) \in Seq(Char)
  BY EnQRing, EchoType DEF Term
<1>2. t.untaken \in Seq(Char) /\ t.rx \in Char /\ t.in_q_sem + 1 \in Int
  BY DEF Term
<1>3. Append(t.untaken, t.rx) \in Seq(Char) /\ NUL \in Char
  BY <1>2, AppendFacts DEF Char
<1> QED
  BY <1>1, <1>2, <1>3 DEF TerminalISRin, Term, Output

LEMMA ISRinHolds ==
  ASSUME NEW t \in Term, NEW pc, NEW c, InHolds(t, pc, c)
  PROVE  InHolds(TerminalISRin(t), pc, c)
<1> DEFINE u == TerminalISRin(t)
<1> USE TerminalAssumption
<1>1. /\ u.in_q = EnQ(t.rx, t.in_q)
      /\ u.untaken = IF t.in_q.size < N THEN Append(t.untaken, t.rx) ELSE t.untaken
  BY ISRinFacts
<1>2. /\ t.untaken \in Seq(Char) /\ Len(t.untaken) \in Nat /\ t.rx \in Char
      /\ t.in_q \in Ring /\ t.in_q.size = Len(t.untaken) /\ pc # "load"
  BY LenProperties DEF Term, InHolds
<1> HIDE DEF u
<1>3. ASSUME ~ t.in_q.size < N PROVE InHolds(u, pc, c)
  <2>1. u.in_q = t.in_q /\ u.untaken = t.untaken
    BY <1>1, <1>3 DEF EnQ
  <2> QED
    BY <2>1 DEF InHolds
<1>4. ASSUME t.in_q.size < N PROVE InHolds(u, pc, c)
  <2> DEFINE s == IF pc = "dec" THEN Tail(t.untaken) ELSE t.untaken
             v == Append(t.untaken, t.rx)
  <2>1. /\ s \in Seq(Char) /\ Holds(t.in_q, s) /\ Len(s) < N
        /\ t.in_q.size = 0 => s = <<>>
    <3>1. CASE pc = "dec"
      <4>1. t.untaken # <<>> /\ Holds(t.in_q, Tail(t.untaken))
        BY <3>1 DEF InHolds
      <4>2. /\ Len(t.untaken) \in Nat \ {0} /\ Tail(t.untaken) \in Seq(Char)
            /\ Len(Tail(t.untaken)) = Len(t.untaken) - 1
        BY <1>2, <4>1, TailFacts
      <4> QED
        BY <1>2, <1>4, <3>1, <4>1, <4>2
    <3>2. CASE pc # "dec"
      BY <1>2, <1>4, <3>2, EmptySeq DEF InHolds
    <3> QED
      BY <3>1, <3>2
  <2>2. /\ Holds(PutCell(t.rx, t.in_q), Append(s, t.rx))
        /\ PutCell(t.rx, t.in_q).size = t.in_q.size
        /\ PutCell(t.rx, t.in_q) \in Ring
    BY <1>2, <2>1, RingPut, PutFacts
  <2>3. u.in_q = [PutCell(t.rx, t.in_q) EXCEPT !.size = @ + 1] /\ u.untaken = v
    BY <1>1, <1>4 DEF EnQ
  <2>4. u.in_q.size = t.in_q.size + 1 /\ Holds(u.in_q, Append(s, t.rx))
    BY <2>2, <2>3 DEF Holds, Ring
  <2>5. Len(v) = Len(t.untaken) + 1 /\ v # <<>>
    BY <1>2, AppendFacts
  <2>6. pc = "dec" => Head(v) = c /\ Tail(v) = Append(s, t.rx)
    BY <1>2, HeadTailAppend DEF InHolds
  <2>7. pc # "dec" => v = Append(s, t.rx)
    OBVIOUS
  <2> HIDE DEF s, v
  <2> QED
    BY <1>2, <2>3, <2>4, <2>5, <2>6, <2>7 DEF InHolds
<1> QED
  BY <1>3, <1>4 DEF u
----------------------------------------------------------------------------
LEMMA ServedFacts ==
  ASSUME NEW t \in Term, UartOK(t)
  PROVE  /\ Served(t) \in Term /\ Served(t).given = t.given /\ UartOK(Served(t))
         /\ \A owed \in {0, 1} : \A c, k :
              OutHolds(t, owed, c, k) => OutHolds(Served(t), owed, c, k)
         /\ \A pc, c : InHolds(t, pc, c) => InHolds(Served(t), pc, c)
<1> DEFINE u == Served(t)
           Kept(v) ==
             /\ v \in Term /\ v.given = t.given /\ UartOK(v)
             /\ \A owed \in {0, 1} : \A c, k :
                  OutHolds(t, owed, c, k) => OutHolds(v, owed, c, k)
             /\ \A pc, c : InHolds(t, pc, c) => InHolds(v, pc, c)
<1>1. CASE t.rx # NUL
  <2> DEFINE v == TerminalISRin(t)
  <2>1. /\ v \in Term /\ v.given = t.given /\ Output(t, v)
        /\ v.busy = t.busy /\ v.tx = t.tx /\ v.out_extra = t.out_extra
        /\ v.overrun = t.overrun
    BY ISRinFacts
  <2>2. \A pc, c : InHolds(t, pc, c) => InHolds(v, pc, c)
    BY ISRinHolds
  <2> HIDE DEF v
  <2>3. \A owed \in {0, 1} : \A c, k :
          OutHolds(t, owed, c, k) => OutHolds(v, owed, c, k)
    BY <2>1 DEF OutHolds, Output
  <2>4. UartOK(v)
    BY <2>1 DEF UartOK
  <2>5. u = v
    BY <1>1 DEF Served, v
  <2> QED
    BY <2>1, <2>2, <2>3, <2>4, <2>5
<1>2. CASE t.rx = NUL /\ t.tx
  <2> DEFINE a == [t EXCEPT !.tx = FALSE]  v == TerminalISRout(a)
  <2>1. /\ a \in Term /\ Same(t, a) /\ Output(t, a)
        /\ a.busy = t.busy /\ a.overrun = t.overrun
    BY DEF Term, Same, Output
  <2> HIDE DEF a
  <2>2. /\ v \in Term /\ Same(a, v)
        /\ ~ a.busy /\ ~ a.overrun => UartOK(v)
    BY <2>1, ISRoutFacts
  <2>3. \A owed \in {0, 1} : \A c, k :
          OutHolds(a, owed, c, k) => OutHolds(v, owed, c, k)
    BY <2>1, ISRoutHolds
  <2> HIDE DEF v
  <2>4. \A owed \in {0, 1} : \A c, k :
          OutHolds(t, owed, c, k) => OutHolds(v, owed, c, k)
    BY <2>1, <2>3 DEF OutHolds, Output
  <2>5. \A pc, c : InHolds(t, pc, c) => InHolds(v, pc, c)
    BY <2>1, <2>2 DEF InHolds, Same
  <2>6. v.given = t.given /\ UartOK(v)
    BY <1>2, <2>1, <2>2 DEF UartOK, Same
  <2>7. u = v
    BY <1>2 DEF Served, a, v
  <2> QED
    BY <2>2, <2>4, <2>5, <2>6, <2>7
<1>3. CASE t.rx = NUL /\ ~ t.tx
  <2>1. u = t
    BY <1>3 DEF Served
  <2> QED
    BY <2>1
<1> QED
  BY <1>1, <1>2, <1>3

\* What a run of the handler keeps, and that it does not leave the UART idle
\* with something to send.
LEMMA ISRFacts ==
  ASSUME NEW t \in Term, UartOK(t)
  PROVE  LET u == TerminalISR(t) IN
         /\ u \in Term /\ u.given = t.given /\ UartOK(u)
         /\ \A owed \in {0, 1} : \A c, k :
              OutHolds(t, owed, c, k) => OutHolds(u, owed, c, k) /\ (u.tx \/ Drained(u))
         /\ \A pc, c : InHolds(t, pc, c) => InHolds(u, pc, c)
<1> DEFINE s == Served(t)  u == TerminalISR(t)
<1>1. /\ s \in Term /\ s.given = t.given /\ UartOK(s)
      /\ \A owed \in {0, 1} : \A c, k :
           OutHolds(t, owed, c, k) => OutHolds(s, owed, c, k)
      /\ \A pc, c : InHolds(t, pc, c) => InHolds(s, pc, c)
  BY ServedFacts
<1>2. u = IF s.out_extra = 1 THEN TerminalISRout(s) ELSE s
  BY DEF TerminalISR
<1> HIDE DEF s, u
<1>3. CASE s.out_extra = 1
  <2>1. /\ u \in Term /\ Same(s, u)
        /\ ~ s.busy /\ ~ s.overrun => UartOK(u)
    BY <1>1, <1>2, <1>3, ISRoutFacts
  <2>2. \A owed \in {0, 1} : \A c, k :
          OutHolds(s, owed, c, k) => OutHolds(u, owed, c, k) /\ Drained(u)
    BY <1>1, <1>2, <1>3, ISRoutHolds
  <2>3. UartOK(u)
    BY <1>1, <1>3, <2>1 DEF UartOK
  <2>4. u.given = t.given
    BY <1>1, <2>1 DEF Same
  <2>5. \A pc, c : InHolds(t, pc, c) => InHolds(u, pc, c)
    BY <1>1, <2>1 DEF InHolds, Same
  <2> QED
    BY <1>1, <2>1, <2>2, <2>3, <2>4, <2>5 DEF u
<1>4. CASE s.out_extra # 1
  <2>1. u = s
    BY <1>2, <1>4
  <2>2. u.tx \/ Drained(u)
    BY <1>1, <1>4, <2>1 DEF UartOK, Drained
  <2> QED
    BY <1>1, <2>1, <2>2 DEF u
<1> QED
  BY <1>3, <1>4
----------------------------------------------------------------------------
\* A step of TerminalIn, or of the keyboard, touches nothing on the way out.
OutKept(t, u) ==
  /\ u.given = t.given /\ Output(t, u) /\ u.echo_q = t.echo_q
  /\ u.busy = t.busy /\ u.tx = t.tx /\ u.out_extra = t.out_extra
  /\ u.overrun = t.overrun

InKept(t, u) == u.in_q = t.in_q /\ u.untaken = t.untaken

LEMMA KeptFacts ==
  ASSUME NEW t, NEW u
  PROVE  /\ OutKept(t, u) /\ UartOK(t) => UartOK(u)
         /\ \A owed, c, k : OutKept(t, u) /\ OutHolds(t, owed, c, k) => OutHolds(u, owed, c, k)
         /\ \A pc, s : OutKept(t, u) /\ IdleOK(t, pc, s) => IdleOK(u, pc, s)
         /\ \A pc, c : InKept(t, u) /\ InHolds(t, pc, c) => InHolds(u, pc, c)
<1>1. OutKept(t, u) /\ UartOK(t) => UartOK(u)
  BY DEF OutKept, UartOK
<1>2. \A owed, c, k : OutKept(t, u) /\ OutHolds(t, owed, c, k) => OutHolds(u, owed, c, k)
  BY DEF OutKept, Output, OutHolds
<1>3. \A pc, s : OutKept(t, u) /\ IdleOK(t, pc, s) => IdleOK(u, pc, s)
  BY DEF OutKept, Output, IdleOK, LittleLeft
<1>4. \A pc, c : InKept(t, u) /\ InHolds(t, pc, c) => InHolds(u, pc, c)
  BY DEF InKept, InHolds
<1> QED
  BY <1>1, <1>2, <1>3, <1>4

LEMMA InitInv == Init => IInv
<1> SUFFICES ASSUME Init PROVE IInv
  OBVIOUS
<1> USE TerminalAssumption
<1>1. PICK w \in Workloads :
        term = [given |-> w,
                in_q |-> EmptyQ, out_q |-> EmptyQ, echo_q |-> <<>>,
                in_q_sem |-> 0, out_q_sem |-> N, flag |-> 1, out_extra |-> 1,
                rx |-> NUL, tx |-> TRUE, busy |-> FALSE, overrun |-> FALSE,
                unsent |-> <<>>, untaken |-> <<>>, garbled |-> FALSE]
  BY DEF Init
<1>2. NUL \in Char /\ <<>> \in Seq(Char) /\ EmptyQ \in Ring /\ EmptyQ.size = 0
  BY DEF Char, EmptyQ, Ring
<1>3. Holds(EmptyQ, <<>>)
  BY DEF Holds, EmptyQ
<1>4. term \in Term
  BY <1>1, <1>2 DEF Term
<1>5. TypeOK
  BY <1>2, <1>4 DEF TypeOK, Init
<1>6. UartOK(term)
  BY <1>1 DEF UartOK
<1>7. AtomicInv
  BY <1>1, <1>2, <1>3 DEF AtomicInv, OutHolds, InHolds, IdleOK, Owed, Space, Init
<1> QED
  BY <1>5, <1>6, <1>7 DEF IInv

LEMMA HandlerInv == ASSUME IInv, TerminalIntr PROVE IInv'
<1> DEFINE u == TerminalISR(term)
<1>1. term \in Term /\ UartOK(term)
  BY DEF IInv, TypeOK
<1>2. /\ u \in Term /\ u.given = term.given /\ UartOK(u)
      /\ \A owed \in {0, 1} : \A c, k :
           OutHolds(term, owed, c, k) => OutHolds(u, owed, c, k) /\ (u.tx \/ Drained(u))
      /\ \A pc, c : InHolds(term, pc, c) => InHolds(u, pc, c)
  BY <1>1, ISRFacts
<1>3. term' = u /\ UNCHANGED <<inVars, outVars>>
  BY DEF TerminalIntr
<1> HIDE DEF u
<1>4. TypeOK'
  BY <1>2, <1>3 DEF IInv, TypeOK, inVars, outVars
<1>5. ASSUME term.given.atomic PROVE AtomicInv'
  <2>1. Owed(pc_out) \in {0, 1}
    BY DEF Owed
  <2>2. /\ OutHolds(u, Owed(pc_out), Head(text), Space(pc_out)) /\ pc_out # "load"
        /\ u.tx \/ Drained(u)
        /\ InHolds(u, pc_in, ch)
    BY <1>2, <1>5, <2>1 DEF IInv, AtomicInv
  <2>3. IdleOK(u, pc_out, text)
    BY <2>2 DEF IdleOK, Drained, LittleLeft
  <2> QED
    BY <1>3, <2>2, <2>3 DEF AtomicInv, inVars, outVars
<1> QED
  BY <1>2, <1>3, <1>4, <1>5 DEF IInv

LEMMA UartInv == ASSUME IInv, Sent \/ (\E c \in term.given.keys : Type(c)) PROVE IInv'
<1>1. term \in Term /\ UartOK(term)
  BY DEF IInv, TypeOK
<1>2. UNCHANGED <<inVars, outVars>>
  BY DEF Sent, Type
<1>3. CASE Sent
  <2>1. term' \in Term /\ term'.given = term.given /\ Output(term, term') /\ InKept(term, term')
    BY <1>1, <1>3 DEF Sent, Term, Output, InKept
  <2>2. UartOK(term') /\ term'.tx
    BY <1>1, <1>3 DEF Sent, Term, UartOK
  <2>3. ASSUME term.given.atomic PROVE AtomicInv'
    BY <1>2, <2>1, <2>2, <2>3, KeptFacts
      DEF IInv, AtomicInv, OutHolds, Output, IdleOK, inVars, outVars
  <2> QED
    BY <1>2, <2>1, <2>2, <2>3 DEF IInv, TypeOK, inVars, outVars
<1>4. CASE \E c \in term.given.keys : Type(c)
  <2>1. PICK c \in term.given.keys : term' = [term EXCEPT !.rx = c]
    BY <1>4 DEF Type
  <2>2. c \in Char
    BY <1>1, WorkloadAssumption DEF Term, Char
  <2>3. term' \in Term /\ OutKept(term, term') /\ InKept(term, term')
    BY <1>1, <2>1, <2>2 DEF Term, OutKept, InKept, Output
  <2> QED
    BY <1>2, <2>3, KeptFacts DEF IInv, TypeOK, AtomicInv, OutKept, inVars, outVars
<1> QED
  BY <1>3, <1>4
----------------------------------------------------------------------------
\* The steps of TerminalIn that touch neither in_q nor what it has counted.
LEMMA InAsideInv ==
  ASSUME IInv, AskLine \/ InWait \/ InLoad \/ InGot
  PROVE  IInv'
<1>1. term \in Term /\ UartOK(term)
  BY DEF IInv, TypeOK
<1>2. term' \in Term /\ OutKept(term, term') /\ InKept(term, term')
  BY <1>1 DEF AskLine, InWait, InLoad, InGot, Term, OutKept, InKept, Output
<1>3. UNCHANGED outVars
  BY DEF AskLine, InWait, InLoad, InGot
<1>4. TypeOK'
  <2>1. term.in_q.size \in Int /\ NUL \in Char
    BY <1>1 DEF Term, Ring, Char
  <2> QED
    BY <1>2, <1>3, <2>1 DEF IInv, TypeOK, AskLine, InWait, InLoad, InGot, outVars
<1>5. ASSUME term.given.atomic PROVE InHolds(term', pc_in', ch')
  <2>1. InHolds(term, pc_in, ch)
    BY <1>5 DEF IInv, AtomicInv
  <2>2. /\ pc_in # "dec" /\ pc_in' # "dec" /\ pc_in # "load" /\ pc_in' # "load"
    BY <2>1 DEF InHolds, AskLine, InWait, InLoad, InGot
  <2> QED
    BY <1>2, <2>1, <2>2 DEF InHolds, InKept
<1> QED
  BY <1>2, <1>3, <1>4, <1>5, KeptFacts DEF IInv, AtomicInv, OutKept, outVars

LEMMA InDeQInv == ASSUME IInv, InDeQ PROVE IInv'
<1>1. term \in Term /\ UartOK(term) /\ term.in_q \in Ring /\ term.untaken \in Seq(Char)
  BY DEF IInv, TypeOK, Term
<1>2. UNCHANGED <<in_size, outVars>>
  BY DEF InDeQ
<1>3. CASE term.in_q.size = 0
  <2>1. ch' = JUNK /\ pc_in' = "got" /\ UNCHANGED term
    BY <1>3 DEF InDeQ
  <2>2. TypeOK'
    BY <1>2, <2>1 DEF IInv, TypeOK, outVars, Char
  <2>3. ASSUME term.given.atomic PROVE InHolds(term', pc_in', ch')
    <3>1. InHolds(term, pc_in, ch) /\ pc_in = "deq"
      BY <2>3 DEF IInv, AtomicInv, InDeQ
    <3> QED
      BY <2>1, <3>1 DEF InHolds
  <2> QED
    BY <1>2, <2>1, <2>2, <2>3 DEF IInv, AtomicInv, outVars
<1>4. CASE term.in_q.size # 0
  <2>1. /\ ch' = First(term.in_q)
        /\ term' = [term EXCEPT !.in_q = TakeCell(@)]
        /\ pc_in' = IF term.given.atomic THEN "dec" ELSE "load"
    BY <1>4 DEF InDeQ
  <2>2. TakeCell(term.in_q) \in Ring /\ First(term.in_q) \in Char
        /\ TakeCell(term.in_q).size = term.in_q.size
    BY <1>1, TakeFacts
  <2>3. /\ term' \in Term /\ OutKept(term, term')
        /\ term'.in_q = TakeCell(term.in_q) /\ term'.untaken = term.untaken
    BY <1>1, <2>1, <2>2 DEF Term, OutKept, Output
  <2>4. TypeOK'
    BY <1>2, <2>1, <2>2, <2>3 DEF IInv, TypeOK, outVars
  <2>5. ASSUME term.given.atomic PROVE InHolds(term', pc_in', ch')
    <3>1. /\ term.in_q.size = Len(term.untaken) /\ Holds(term.in_q, term.untaken)
      BY <2>5 DEF IInv, AtomicInv, InDeQ, InHolds
    <3>2. term.untaken # <<>>
      BY <1>1, <1>4, <3>1, EmptySeq
    <3>3. /\ Holds(TakeCell(term.in_q), Tail(term.untaken))
          /\ First(term.in_q) = Head(term.untaken)
      BY <1>1, <3>1, <3>2, RingTake
    <3> QED
      BY <2>1, <2>2, <2>3, <2>5, <3>1, <3>2, <3>3 DEF InHolds
  <2> QED
    BY <1>1, <1>2, <2>3, <2>4, <2>5, KeptFacts DEF IInv, AtomicInv, OutKept, outVars
<1> QED
  BY <1>3, <1>4

LEMMA InDecInv == ASSUME IInv, InDec PROVE IInv'
<1>1. /\ term \in Term /\ UartOK(term) /\ term.in_q \in Ring
      /\ term.untaken \in Seq(Char) /\ in_size \in Int
  BY DEF IInv, TypeOK, Term
<1>2. /\ pc_in = "dec" /\ pc_in' = "got" /\ in_size' = 0 /\ UNCHANGED <<ch, outVars>>
      /\ term' = [term EXCEPT !.in_q.size = IF term.given.atomic THEN @ - 1 ELSE in_size - 1,
                    !.untaken = Rest(@), !.garbled = @ \/ NotNext(ch, term.untaken)]
  BY DEF InDec
<1> DEFINE n == IF term.given.atomic THEN term.in_q.size - 1 ELSE in_size - 1
<1>3. n \in Int
  BY <1>1 DEF Ring
<1>4. Rest(term.untaken) \in Seq(Char) /\ NotNext(ch, term.untaken) \in BOOLEAN
  BY <1>1, TailFacts DEF Rest, NotNext
<1>5. /\ term' \in Term /\ term'.given = term.given
      /\ term'.in_q = [term.in_q EXCEPT !.size = n]
      /\ term'.untaken = Rest(term.untaken)
      /\ term'.garbled = (term.garbled \/ NotNext(ch, term.untaken))
  BY <1>1, <1>2, <1>3, <1>4 DEF Term, Ring
<1>6. /\ term'.out_q = term.out_q /\ term'.out_q_sem = term.out_q_sem
      /\ term'.unsent = term.unsent /\ term'.echo_q = term.echo_q
      /\ term'.busy = term.busy /\ term'.tx = term.tx
      /\ term'.out_extra = term.out_extra /\ term'.overrun = term.overrun
  BY <1>1, <1>2 DEF Term
<1>7. TypeOK'
  BY <1>2, <1>5 DEF IInv, TypeOK, outVars
<1>8. UartOK(term')
  BY <1>1, <1>6 DEF UartOK
<1>9. ASSUME term.given.atomic PROVE AtomicInv'
  <2>1. /\ term.in_q.size = Len(term.untaken) /\ term.untaken # <<>>
        /\ ch = Head(term.untaken) /\ Holds(term.in_q, Tail(term.untaken))
    BY <1>2, <1>9 DEF IInv, AtomicInv, InHolds
  <2>2. /\ term'.untaken = Tail(term.untaken)
        /\ ~ NotNext(ch, term.untaken)
    BY <1>5, <2>1 DEF Rest, NotNext
  <2>3. term'.in_q.size = Len(term'.untaken)
    <3>1. Len(Tail(term.untaken)) = Len(term.untaken) - 1
      BY <1>1, <2>1, TailFacts
    <3> QED
      BY <1>1, <1>5, <1>9, <2>1, <2>2, <3>1 DEF Ring
  <2>4. Holds(term'.in_q, term'.untaken)
    BY <1>1, <1>5, <2>1, <2>2 DEF Holds, Ring
  <2>5. InHolds(term', pc_in', ch')
    BY <1>2, <2>3, <2>4 DEF InHolds
  <2>6. ~ term'.garbled
    BY <1>5, <1>9, <2>2 DEF IInv, AtomicInv, OutHolds
  <2>7. OutHolds(term', Owed(pc_out), Head(text), Space(pc_out))
    BY <1>6, <1>9, <2>6 DEF IInv, AtomicInv, OutHolds
  <2>8. IdleOK(term', pc_out, text)
    BY <1>6, <1>9 DEF IInv, AtomicInv, IdleOK, LittleLeft
  <2> QED
    BY <1>2, <1>9, <2>5, <2>7, <2>8 DEF IInv, AtomicInv, outVars
<1> QED
  BY <1>5, <1>7, <1>8, <1>9 DEF IInv
----------------------------------------------------------------------------
LEMMA OutAsideInv ==
  ASSUME IInv, (\E s \in term.given.texts : AskShow(s)) \/ OutWait \/ OutAnswer \/ OutLoad
  PROVE  IInv'
<1>1. /\ term \in Term /\ UartOK(term) /\ text \in Seq(Char)
      /\ term.out_q_sem \in Int /\ term.out_q.size \in Int
  BY DEF IInv, TypeOK, Term, Ring
<1>2. UNCHANGED inVars
  BY DEF AskShow, OutWait, OutAnswer, OutLoad
<1>3. CASE \E s \in term.given.texts : AskShow(s)
  <2>1. PICK s \in term.given.texts : AskShow(s)
    BY <1>3
  <2>2. s \in Seq(STRING) /\ \A i \in DOMAIN s : s[i] \notin {NUL, CR}
    BY <1>1, WorkloadAssumption DEF Term
  <2>3. s \in Seq(Char) /\ DOMAIN s = 1 .. Len(s)
    BY <2>2, SeqMonotonic, LenProperties DEF Char
  <2>4. ~ AddedCR(s)
    BY <2>2, <2>3, TailFacts DEF AddedCR
  <2>5. TypeOK'
    BY <1>2, <2>1, <2>2, <2>3 DEF AskShow, IInv, TypeOK, inVars
  <2>6. ASSUME term.given.atomic PROVE AtomicInv'
    <3>1. Owed(pc_out) = 0 /\ Owed(pc_out') = 0 /\ Space(pc_out) = Space(pc_out')
      BY <2>1 DEF AskShow, Owed, Space
    <3>2. OutHolds(term, Owed(pc_out'), Head(text'), Space(pc_out'))
      BY <2>6, <3>1 DEF IInv, AtomicInv, OutHolds
    <3>3. IdleOK(term, pc_out', s)
      BY <2>1, <2>4, <2>6 DEF AskShow, IInv, AtomicInv, IdleOK
    <3> QED
      BY <1>2, <2>1, <2>6, <3>2, <3>3 DEF AskShow, IInv, AtomicInv, inVars
  <2> QED
    BY <1>1, <2>1, <2>5, <2>6 DEF AskShow, IInv
<1>4. CASE OutWait
  <2>0. term.out_q_sem - 1 \in Int
    BY <1>1
  <2>1. /\ term' \in Term /\ term'.given = term.given /\ InKept(term, term')
        /\ term'.out_q = term.out_q /\ term'.out_q_sem = term.out_q_sem - 1
        /\ term'.unsent = term.unsent /\ term'.garbled = term.garbled
        /\ term'.echo_q = term.echo_q /\ term'.busy = term.busy /\ term'.tx = term.tx
        /\ term'.out_extra = term.out_extra /\ term'.overrun = term.overrun
    BY <1>1, <1>4, <2>0 DEF OutWait, Term, InKept
  <2>2. TypeOK' /\ UartOK(term')
    BY <1>1, <1>2, <1>4, <2>1 DEF OutWait, IInv, TypeOK, UartOK, inVars
  <2>3. ASSUME term.given.atomic PROVE AtomicInv'
    <3>1. /\ Owed(pc_out) = 0 /\ Owed(pc_out') = 0
          /\ Space(pc_out) = N /\ Space(pc_out') = N - 1
      BY <1>4 DEF OutWait, Owed, Space
    <3>2. term.out_q_sem + term.out_q.size = N
      BY <2>3, <3>1 DEF IInv, AtomicInv, OutHolds
    <3>3. term'.out_q_sem + term'.out_q.size = N - 1
      BY <1>1, <2>1, <3>2
    <3>4. OutHolds(term', Owed(pc_out'), Head(text'), Space(pc_out'))
      BY <2>1, <2>3, <3>1, <3>3 DEF IInv, AtomicInv, OutHolds
    <3>5. IdleOK(term', pc_out', text')
      BY <1>4, <2>1, <2>3 DEF OutWait, IInv, AtomicInv, IdleOK, LittleLeft
    <3> QED
      BY <1>2, <1>4, <2>1, <2>3, <3>4, <3>5, KeptFacts DEF OutWait, IInv, AtomicInv, inVars
  <2> QED
    BY <2>1, <2>2, <2>3 DEF IInv
<1>5. CASE OutAnswer
  <2>1. TypeOK'
    BY <1>2, <1>5 DEF OutAnswer, IInv, TypeOK, inVars
  <2>2. ASSUME term.given.atomic PROVE AtomicInv'
    <3>1. Owed(pc_out) = Owed(pc_out') /\ Space(pc_out) = Space(pc_out')
      BY <1>5 DEF OutAnswer, Owed, Space
    <3> QED
      BY <1>2, <1>5, <2>2, <3>1 DEF OutAnswer, IInv, AtomicInv, IdleOK, inVars
  <2> QED
    BY <1>5, <2>1, <2>2 DEF OutAnswer, IInv
<1>6. CASE OutLoad
  <2>1. TypeOK' /\ ~ term.given.atomic
    BY <1>1, <1>2, <1>6 DEF OutLoad, IInv, TypeOK, AtomicInv, inVars
  <2> QED
    BY <1>6, <2>1 DEF OutLoad, IInv
<1> QED
  BY <1>3, <1>4, <1>5, <1>6

LEMMA OutEnQInv == ASSUME IInv, OutEnQ PROVE IInv'
<1> USE TerminalAssumption
<1> DEFINE c == Head(text)
<1>1. /\ term \in Term /\ UartOK(term) /\ text \in Seq(Char) /\ text # <<>>
      /\ term.out_q_sem \in Int /\ term.out_q \in Ring /\ term.out_q.size \in Int
      /\ term.unsent \in Seq(Char) /\ pc_out = "enq" /\ term.out_q_sem >= 0
  BY DEF IInv, TypeOK, Term, Ring, OutEnQ, SpaceGranted
<1>2. c \in Char /\ c # NUL
  <2>1. Len(text) \in Nat \ {0} /\ c = text[1] /\ c \in Char
    BY <1>1, TailFacts
  <2> QED
    BY <2>1 DEF IInv, TypeOK
<1>3. UNCHANGED <<text, out_size, inVars>>
  BY DEF OutEnQ
<1> DEFINE q == IF term.out_q.size = N THEN term.out_q ELSE PutCell(c, term.out_q)
<1>4. q \in Ring /\ Append(term.unsent, c) \in Seq(Char)
  BY <1>1, <1>2, PutFacts, AppendFacts
<1>5. term' = [term EXCEPT !.unsent = Append(@, c), !.out_q = q]
  BY <1>1 DEF OutEnQ, Term
<1> HIDE DEF c, q
<1>6. /\ term' \in Term /\ term'.given = term.given /\ InKept(term, term')
      /\ term'.out_q = q /\ term'.out_q_sem = term.out_q_sem
      /\ term'.unsent = Append(term.unsent, c) /\ term'.garbled = term.garbled
      /\ term'.echo_q = term.echo_q /\ term'.busy = term.busy /\ term'.tx = term.tx
      /\ term'.out_extra = term.out_extra /\ term'.overrun = term.overrun
  BY <1>1, <1>4, <1>5 DEF Term, InKept
<1>7. TypeOK' /\ UartOK(term')
  BY <1>1, <1>3, <1>6 DEF OutEnQ, IInv, TypeOK, UartOK, inVars
<1>8. ASSUME term.given.atomic PROVE AtomicInv'
  <2> DEFINE n == Len(term.unsent)
  <2>1. /\ Holds(term.out_q, term.unsent) /\ term.out_q.size = n
        /\ \A i \in 1 .. n : term.unsent[i] # NUL
        /\ term.out_q_sem + term.out_q.size = N - 1 /\ ~ term.garbled
    <3>1. Owed(pc_out) = 0 /\ Space(pc_out) = N - 1
      BY <1>1 DEF Owed, Space
    <3>2. n \in Nat
      BY <1>1, LenProperties
    <3> QED
      BY <1>1, <1>8, <3>1, <3>2 DEF IInv, AtomicInv, OutHolds
  <2>2. term.out_q.size < N
    BY <1>1, <2>1
  <2>3. q = PutCell(c, term.out_q) /\ pc_out' = "inc"
    BY <1>8, <2>2 DEF OutEnQ, q
  <2>4. Holds(q, term'.unsent) /\ q.size = n
    BY <1>1, <1>2, <1>6, <2>1, <2>2, <2>3, RingPut, EmptySeq
  <2>5. /\ n \in Nat /\ Len(term'.unsent) = n + 1
        /\ \A i \in 1 .. n : term'.unsent[i] = term.unsent[i]
        /\ term'.unsent[n + 1] = c
    BY <1>1, <1>2, <1>6, AppendFacts
  <2> HIDE DEF n
  <2>6. \A i \in 1 .. n + 1 : term'.unsent[i] # NUL
    BY <1>2, <2>1, <2>5
  <2>7. Owed(pc_out') = 1 /\ Space(pc_out') = N - 1
    BY <2>3 DEF Owed, Space
  <2>8. OutHolds(term', Owed(pc_out'), Head(text'), Space(pc_out'))
    BY <1>3, <1>6, <2>1, <2>4, <2>5, <2>6, <2>7 DEF OutHolds, c
  <2>9. IdleOK(term', pc_out', text')
    <3>1. term'.unsent[1] = term.unsent[1] \/ term.out_q.size = 0
      BY <2>1, <2>5
    <3>2. term'.out_q.size = term.out_q.size
      BY <1>6, <2>1, <2>4
    <3>3. IdleOK(term, "enq", text)
      BY <1>1, <1>8 DEF IInv, AtomicInv
    <3> QED
      BY <1>3, <1>6, <2>3, <3>1, <3>2, <3>3 DEF IdleOK, LittleLeft
  <2> QED
    BY <1>3, <1>6, <1>8, <2>3, <2>8, <2>9, KeptFacts DEF IInv, AtomicInv, inVars
<1> QED
  BY <1>6, <1>7, <1>8 DEF IInv

LEMMA OutIncInv == ASSUME IInv, OutInc PROVE IInv'
<1>1. /\ term \in Term /\ UartOK(term) /\ text \in Seq(Char) /\ text # <<>>
      /\ term.out_q_sem \in Int /\ term.out_q \in Ring /\ term.out_q.size \in Int
      /\ term.unsent \in Seq(Char) /\ out_size \in Int
  BY DEF IInv, TypeOK, Term, Ring, OutInc
<1>2. /\ pc_out = "inc" /\ pc_out' = "put" /\ out_size' = 0
      /\ UNCHANGED <<text, inVars>>
      /\ term' = [term EXCEPT !.out_q.size = IF term.given.atomic THEN @ + 1 ELSE out_size + 1]
  BY DEF OutInc
<1> DEFINE n == IF term.given.atomic THEN term.out_q.size + 1 ELSE out_size + 1
<1>3. n \in Int
  BY <1>1
<1>4. /\ term' \in Term /\ term'.given = term.given /\ InKept(term, term')
      /\ term'.out_q = [term.out_q EXCEPT !.size = n]
      /\ term'.out_q_sem = term.out_q_sem
      /\ term'.unsent = term.unsent /\ term'.garbled = term.garbled
      /\ term'.echo_q = term.echo_q /\ term'.busy = term.busy /\ term'.tx = term.tx
      /\ term'.out_extra = term.out_extra /\ term'.overrun = term.overrun
  BY <1>1, <1>2, <1>3 DEF Term, Ring, InKept
<1>5. TypeOK' /\ UartOK(term')
  BY <1>1, <1>2, <1>4 DEF IInv, TypeOK, UartOK, inVars
<1>6. ASSUME term.given.atomic PROVE AtomicInv'
  <2>1. /\ Owed(pc_out) = 1 /\ Owed(pc_out') = 0
        /\ Space(pc_out) = N - 1 /\ Space(pc_out') = N
    BY <1>2 DEF Owed, Space
  <2>2. /\ Holds(term.out_q, term.unsent)
        /\ term.out_q.size = Len(term.unsent) - 1 /\ term.out_q.size >= 0
        /\ term.unsent[Len(term.unsent)] = Head(text)
        /\ term.out_q_sem + term.out_q.size = N - 1
    BY <1>6, <2>1 DEF IInv, AtomicInv, OutHolds
  <2>3. term'.out_q.size = term.out_q.size + 1 /\ Holds(term'.out_q, term'.unsent)
    BY <1>1, <1>4, <1>6, <2>2 DEF Ring, Holds
  <2>4. Len(term.unsent) \in Nat
    BY <1>1, LenProperties
  <2>5. /\ term'.out_q.size = Len(term'.unsent) - 0 /\ term'.out_q.size >= 0
        /\ term'.out_q_sem + term'.out_q.size = N
    <3> DEFINE l == Len(term.unsent)  z == term.out_q.size  m == term.out_q_sem
               z1 == term'.out_q.size
    <3>1. /\ N \in Nat /\ l \in Nat /\ z \in Int /\ m \in Int
          /\ z = l - 1 /\ z >= 0 /\ m + z = N - 1 /\ z1 = z + 1
      BY <1>1, <2>2, <2>3, <2>4, TerminalAssumption
    <3>2. l = Len(term'.unsent) /\ m = term'.out_q_sem
      BY <1>4
    <3> HIDE DEF l, z, m
    <3>3. z1 = l - 0 /\ z1 >= 0 /\ m + z1 = N
      BY <3>1
    <3> QED
      BY <3>2, <3>3
  <2>6. OutHolds(term', Owed(pc_out'), Head(text'), Space(pc_out'))
    BY <1>4, <1>6, <2>1, <2>3, <2>5 DEF IInv, AtomicInv, OutHolds
  <2>7. IdleOK(term', pc_out', text')
    <3>1. IdleOK(term, "inc", text)
      BY <1>2, <1>6 DEF IInv, AtomicInv
    <3>2. term.out_q.size = 0 => Len(term.unsent) = 1
      <4> DEFINE l == Len(term.unsent)  z == term.out_q.size
      <4>1. l \in Nat /\ z = l - 1
        BY <2>2, <2>4
      <4> HIDE DEF l, z
      <4>2. z = 0 => l = 1
        BY <4>1
      <4> QED
        BY <4>2 DEF l, z
    <3>3. ASSUME ~ term.busy, ~ term.tx, AddedCR(text)
          PROVE  term'.out_q.size = 1 /\ term'.unsent[1] = CR
      <4>1. term.out_q.size = 0
        BY <3>1, <3>3 DEF IdleOK
      <4>2. term'.out_q.size = 1
        BY <2>3, <4>1
      <4>3. Len(term.unsent) = 1 /\ Head(text) = CR
        BY <3>2, <3>3, <4>1 DEF AddedCR
      <4>4. term.unsent[1] = CR
        BY <2>2, <4>3
      <4> QED
        BY <1>4, <4>2, <4>4
    <3> QED
      BY <1>2, <1>4, <3>1, <3>3 DEF IdleOK, LittleLeft
  <2> QED
    BY <1>2, <1>4, <1>6, <2>6, <2>7, KeptFacts DEF IInv, AtomicInv, inVars
<1> QED
  BY <1>4, <1>5, <1>6 DEF IInv

LEMMA OutTripInv == ASSUME IInv, OutTrip PROVE IInv'
<1> DEFINE u == IF Head(text) = CR THEN term ELSE TerminalISR(term)
           s == IF Head(text) = NL THEN <<CR>> \o Tail(text) ELSE Tail(text)
<1>1. /\ term \in Term /\ UartOK(term) /\ text \in Seq(Char) /\ text # <<>>
      /\ \A i \in 1 .. Len(text) : text[i] # NUL /\ (i > 1 => text[i] # CR)
  BY DEF IInv, TypeOK, OutTrip
<1>2. /\ pc_out = "put" /\ pc_out' = "next" /\ UNCHANGED <<out_size, inVars>>
      /\ term' = u /\ text' = s
  BY DEF OutTrip
<1>3. /\ u \in Term /\ u.given = term.given /\ UartOK(u)
      /\ \A owed \in {0, 1} : \A c, k :
           OutHolds(term, owed, c, k) =>
             OutHolds(u, owed, c, k) /\ (Head(text) # CR => u.tx \/ Drained(u))
      /\ \A pc, c : InHolds(term, pc, c) => InHolds(u, pc, c)
  BY <1>1, ISRFacts
<1>4. /\ s \in Seq(Char)
      /\ \A i \in 1 .. Len(s) : s[i] # NUL /\ (i > 1 => s[i] # CR)
      /\ AddedCR(s) => Head(text) # CR
  <2> DEFINE t == Tail(text)
  <2>1. /\ Len(text) \in Nat \ {0} /\ t \in Seq(Char) /\ Len(t) = Len(text) - 1
        /\ \A i \in 1 .. Len(text) - 1 : t[i] = text[i+1]
    BY <1>1, TailFacts
  <2>2. \A i \in 1 .. Len(t) : t[i] # NUL /\ t[i] # CR
    <3> SUFFICES ASSUME NEW i \in 1 .. Len(t) PROVE t[i] # NUL /\ t[i] # CR
      OBVIOUS
    <3>1. i + 1 \in 1 .. Len(text) /\ i + 1 > 1 /\ t[i] = text[i+1]
      BY <2>1
    <3> QED
      BY <1>1, <3>1
  <2>3. CASE Head(text) = NL
    <3> DEFINE v == <<CR>> \o t
    <3>1. CR \in Char /\ CR # NUL /\ NL # CR
      BY DEF Char, CR, NUL, NL
    <3>2. <<CR>> \in Seq(Char) /\ Len(<<CR>>) = 1 /\ <<CR>>[1] = CR
      BY <3>1
    <3>3. v \in Seq(Char) /\ Len(v) = 1 + Len(t)
      BY <2>1, <3>2, ConcatProperties
    <3>4. \A i \in 1 .. Len(v) : v[i] = IF i = 1 THEN CR ELSE t[i-1]
      BY <2>1, <3>2, <3>3, ConcatProperties
    <3>5. \A i \in 1 .. Len(v) : v[i] # NUL /\ (i > 1 => v[i] # CR)
      <4> SUFFICES ASSUME NEW i \in 1 .. Len(v) PROVE v[i] # NUL /\ (i > 1 => v[i] # CR)
        OBVIOUS
      <4>1. i = 1 \/ i - 1 \in 1 .. Len(t)
        BY <2>1, <3>3
      <4> QED
        BY <2>2, <3>1, <3>4, <4>1
    <3> QED
      BY <2>3, <3>1, <3>3, <3>5
  <2>4. CASE Head(text) # NL
    <3>1. ~ AddedCR(t)
      <4>1. CASE t = <<>>
        BY <4>1 DEF AddedCR
      <4>2. CASE t # <<>>
        <5>1. Len(t) \in Nat \ {0} /\ Head(t) = t[1]
          BY <2>1, <4>2, TailFacts
        <5>2. 1 \in 1 .. Len(t)
          BY <5>1
        <5>3. t[1] # CR
          BY <2>2, <5>2
        <5> QED
          BY <5>1, <5>3 DEF AddedCR
      <4> QED
        BY <4>1, <4>2
    <3> QED
      BY <2>1, <2>2, <2>4, <3>1
  <2> QED
    BY <2>3, <2>4
<1> HIDE DEF u, s
<1>5. TypeOK'
  BY <1>2, <1>3, <1>4 DEF IInv, TypeOK, inVars
<1>6. ASSUME term.given.atomic PROVE AtomicInv'
  <2>1. Owed(pc_out) = 0 /\ Owed(pc_out') = 0 /\ Space(pc_out) = Space(pc_out')
    BY <1>2 DEF Owed, Space
  <2>2. /\ OutHolds(u, 0, Head(text), Space(pc_out))
        /\ Head(text) # CR => u.tx \/ Drained(u)
        /\ InHolds(u, pc_in, ch)
    BY <1>3, <1>6, <2>1 DEF IInv, AtomicInv
  <2>3. OutHolds(u, 0, Head(s), Space(pc_out))
    BY <2>2 DEF OutHolds
  <2>4. IdleOK(u, "next", s)
    <3>1. CASE Head(text) # CR
      BY <2>2, <3>1 DEF IdleOK, Drained, LittleLeft
    <3>2. CASE Head(text) = CR
      <4>1. u = term /\ ~ AddedCR(s) /\ AddedCR(text)
        BY <1>1, <1>4, <3>2 DEF u, AddedCR
      <4>2. IdleOK(term, "put", text)
        BY <1>2, <1>6 DEF IInv, AtomicInv
      <4> QED
        BY <4>1, <4>2 DEF IdleOK
    <3> QED
      BY <3>1, <3>2
  <2> QED
    BY <1>2, <2>1, <2>2, <2>3, <2>4 DEF AtomicInv, inVars
<1> QED
  BY <1>2, <1>3, <1>5, <1>6 DEF IInv
----------------------------------------------------------------------------
LEMMA IInvAlways == Spec => []IInv
<1>1. IInv /\ [Next]_vars => IInv'
  <2> SUFFICES ASSUME IInv, [Next]_vars PROVE IInv'
    OBVIOUS
  <2>1. CASE TerminalIntr
    BY <2>1, HandlerInv
  <2>2. CASE Sent \/ \E c \in term.given.keys : Type(c)
    BY <2>2, UartInv
  <2>3. CASE AskLine \/ TerminalIn
    BY <2>3, InAsideInv, InDeQInv, InDecInv DEF TerminalIn
  <2>4. CASE \/ \E s \in term.given.texts : AskShow(s)
             \/ TerminalOut
    BY <2>4, OutAsideInv, OutEnQInv, OutIncInv, OutTripInv DEF TerminalOut
  <2>5. CASE UNCHANGED vars
    BY <2>5 DEF vars, inVars, outVars, IInv, TypeOK, AtomicInv
  <2> QED
    BY <2>1, <2>2, <2>3, <2>4, <2>5 DEF Next
<1> QED
  BY <1>1, InitInv, PTL DEF Spec

LEMMA ContentsFacts ==
  ASSUME NEW r \in Ring, NEW s \in Seq(Char), Holds(r, s), NEW n \in 0 .. Len(s), r.size = n
  PROVE  /\ n = Len(s) => Contents(r) = s
         /\ n = 0 => Contents(r) = <<>>
         /\ n = 1 => Contents(r) = <<s[1]>>
<1>1. N \in Nat /\ Len(s) \in Nat /\ Len(s) <= N
  BY TerminalAssumption, LenProperties DEF Holds
<1>2. r.q \in Seq(Char) /\ Len(r.q) = N
  <2>1. r.q \in [1 .. N -> Char]
    BY DEF Ring
  <2> QED
    BY <1>1, <2>1
<1> DEFINE c == SubSeq(r.q, 1, n)
<1>3. c \in Seq(Char) /\ Len(c) = n /\ \A i \in 1 .. n : c[i] = r.q[i]
  BY <1>1, <1>2, SubSeqProperties
<1>4. \A i \in 1 .. n : c[i] = s[i]
  BY <1>1, <1>3 DEF Holds
<1>5. Contents(r) = c
  BY DEF Contents
<1> HIDE DEF c
<1>6. n = Len(s) => c = s
  BY <1>3, <1>4, SeqEqual
<1>7. n = 0 => c = <<>>
  BY <1>3, EmptySeq
<1>8. n = 1 => c = <<s[1]>>
  BY <1>3, <1>4
<1> QED
  BY <1>5, <1>6, <1>7, <1>8
----------------------------------------------------------------------------
\* Whatever the interleaving of TerminalIn, TerminalOut and the handler, if
\* size++ is one instruction nobody sends or takes a character out of turn,
\* and a queue's cells are what was put and not taken.
THEOREM QueuesUnspoiled == Spec => []NothingGarbled
<1>1. IInv => NothingGarbled
  <2> SUFFICES ASSUME IInv, term.given.atomic
               PROVE  /\ ~ term.garbled
                      /\ pc_out # "inc" => term.unsent = Contents(term.out_q)
                      /\ pc_in # "dec" => term.untaken = Contents(term.in_q)
    BY DEF NothingGarbled
  <2>1. /\ OutHolds(term, Owed(pc_out), Head(text), Space(pc_out))
        /\ InHolds(term, pc_in, ch)
        /\ term.out_q \in Ring /\ term.unsent \in Seq(Char)
        /\ term.in_q \in Ring /\ term.untaken \in Seq(Char)
    BY DEF IInv, AtomicInv, TypeOK, Term
  <2>2. ASSUME pc_out # "inc" PROVE term.unsent = Contents(term.out_q)
    <3>1. Len(term.unsent) \in Nat
      BY <2>1, LenProperties
    <3>2. Holds(term.out_q, term.unsent) /\ term.out_q.size = Len(term.unsent) - 0
      BY <2>1, <2>2 DEF OutHolds, Owed
    <3>3. term.out_q.size = Len(term.unsent) /\ Len(term.unsent) \in 0 .. Len(term.unsent)
      BY <3>1, <3>2
    <3> QED
      BY <2>1, <3>2, <3>3, ContentsFacts
  <2>3. ASSUME pc_in # "dec" PROVE term.untaken = Contents(term.in_q)
    <3>1. Len(term.untaken) \in 0 .. Len(term.untaken)
      BY <2>1, LenProperties
    <3> QED
      BY <2>1, <2>3, <3>1, ContentsFacts DEF InHolds
  <2> QED
    BY <2>1, <2>2, <2>3 DEF OutHolds
<1> QED
  BY <1>1, IInvAlways, PTL

\* out_q_sem and what is counted in out_q make up the queue, less the cell
\* TerminalOut is about to fill, whatever the handler posts meanwhile.
THEOREM SpaceIsCounted == Spec => []SpaceCounted
<1>1. IInv => SpaceCounted
  <2> SUFFICES ASSUME IInv, term.given.atomic, NEW reserved,
                      reserved = IF pc_out \in {"enq", "inc"} THEN 1 ELSE 0
               PROVE  term.out_q_sem + term.out_q.size + reserved = N
    BY DEF SpaceCounted
  <2> DEFINE z == term.out_q.size  m == term.out_q_sem
  <2>1. z \in Int /\ m \in Int /\ m + z = Space(pc_out)
    BY DEF IInv, AtomicInv, OutHolds, TypeOK, Term, Ring
  <2> HIDE DEF z, m
  <2>2. m + z + reserved = N
    BY <2>1, TerminalAssumption DEF Space
  <2> QED
    BY <2>2 DEF z, m
<1> QED
  BY <1>1, IInvAlways, PTL

\* In any build, with TripTerminal calling the handler at any moment, the
\* handler never writes to the UART while it sends.
THEOREM NeverOverrun == Spec => []NoOverrun
<1>1. IInv => NoOverrun
  BY DEF IInv, UartOK, NoOverrun
<1> QED
  BY <1>1, IInvAlways, PTL

\* When the UART falls idle, the handler has left no echo behind and out_q
\* holds at most the carriage return that is not followed by TripTerminal.
THEOREM IdleWhenDone == Spec => []IdleOnlyWhenDone
<1>1. IInv => IdleOnlyWhenDone
  <2> SUFFICES ASSUME IInv, term.given.atomic, ~ term.busy, ~ term.tx
               PROVE  /\ term.echo_q = <<>>
                      /\ Contents(term.out_q) \in {<<>>, <<CR>>} \/ pc_out = "put"
    BY DEF IdleOnlyWhenDone
  <2>1. /\ OutHolds(term, Owed(pc_out), Head(text), Space(pc_out))
        /\ IdleOK(term, pc_out, text)
        /\ term.out_q \in Ring /\ term.unsent \in Seq(Char)
    BY DEF IInv, AtomicInv, TypeOK, Term
  <2>2. Len(term.unsent) \in Nat
    BY <2>1, LenProperties
  <2>3. Holds(term.out_q, term.unsent) /\ term.out_q.size \in 0 .. Len(term.unsent)
    <3> DEFINE l == Len(term.unsent)  z == term.out_q.size
    <3>1. l \in Nat /\ z = l - Owed(pc_out) /\ z >= 0
      BY <2>1, <2>2 DEF OutHolds
    <3> HIDE DEF l, z
    <3>2. z \in 0 .. l
      BY <3>1 DEF Owed
    <3> QED
      BY <2>1, <3>2 DEF l, z, OutHolds
  <2>4. ASSUME pc_out # "put" PROVE Contents(term.out_q) \in {<<>>, <<CR>>}
    <3>1. CASE term.out_q.size = 0
      BY <2>1, <2>3, <3>1, ContentsFacts
    <3>2. CASE term.out_q.size = 1 /\ term.unsent[1] = CR
      BY <2>1, <2>3, <3>2, ContentsFacts
    <3> QED
      BY <2>1, <2>4, <3>1, <3>2 DEF IdleOK, LittleLeft
  <2> QED
    BY <2>1, <2>4 DEF IdleOK
<1> QED
  BY <1>1, IInvAlways, PTL
=============================================================================
