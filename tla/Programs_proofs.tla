-------------------------- MODULE Programs_proofs --------------------------
(***************************************************************************)
(* What the programs can rely on when they call the kernel, for every      *)
(* number of processes, every capacity and every number of pages: answers  *)
(* come from the server that was asked, Wait reports the process that was  *)
(* forked, and Exit ends it.                                               *)
(*                                                                         *)
(* The steps of ProgNext are steps of Kernel, so the invariants of Kernel  *)
(* hold.  ProgInv adds what the programs keep up together: PlansOK is the  *)
(* shape of the plans, MailOK says where a request is until it is          *)
(* answered, ChildOK that one forked process at most is in use, as child   *)
(* of a shell that waits for it.                                           *)
(***************************************************************************)
EXTENDS Programs, Kernel_proofs

First(q, c) == q # <<>> /\ Head(q).call = c

Uses(q) == {q[i].call : i \in 1 .. Len(q)}

Instr ==
  [call : {"SemGet", "SemWait", "MsgRcv", "Answer", "Sleep", "Fork", "Wait", "Exit"}]
    \cup [call : {"MsgSnd"}, to : Servers]

\* MsgRcv comes after MsgSnd and Wait after Fork, and only there, unless
\* the plan has begun already.
Ordered(q) ==
  /\ \A i \in 1 .. Len(q) - 1 :
       /\ q[i+1].call = "MsgRcv" <=> q[i].call = "MsgSnd"
       /\ q[i+1].call = "Wait" <=> q[i].call = "Fork"
  /\ q # <<>> => q[Len(q)].call \notin {"MsgSnd", "Fork"}

ForksOnce(q) ==
  \A i, j \in 1 .. Len(q) : q[i].call = "Fork" /\ q[j].call = "Fork" => i = j

EndsInExit(q) == \A i \in 1 .. Len(q) : q[i].call = "Exit" <=> i = Len(q)

\* What process p has left of a plan.
PlanOK(p, q) ==
  /\ q \in Seq(Instr)
  /\ p = 0 => q = <<>>
  /\ p = SHELL => /\ Ordered(q) /\ ForksOnce(q)
                  /\ Uses(q) \subseteq {"SemGet", "MsgSnd", "MsgRcv", "Fork", "Wait"}
  /\ p \in Servers =>
       q \in {<<>>, <<Call("Answer")>>, <<Call("SemWait"), Call("Answer")>>}
  /\ p >= NSYS => /\ Ordered(q) /\ EndsInExit(q)
                  /\ Uses(q) \subseteq {"MsgSnd", "MsgRcv", "Sleep", "Exit"}

PlansOK ==
  /\ todo \in [PID -> Seq(Instr)]
  /\ asked \in [PID -> Servers \cup {NONE}]
  /\ child \in PID \cup {NONE}
  /\ \A p \in PID : PlanOK(p, todo[p])

Upcoming(p, c) == First(todo[p], c)
----------------------------------------------------------------------------
LEMMA Kinds ==
  /\ NSYS \in Nat /\ NSYS >= 3 /\ NSYS <= MAX_PROC /\ MAX_PROC \in Nat
  /\ PID \subseteq Nat
  /\ SHELL \in PID /\ SHELL \notin Servers /\ SHELL # 0 /\ SHELL < NSYS
  /\ Servers \subseteq PID /\ 0 \notin Servers
  /\ \A p \in PID : p = 0 \/ p = SHELL \/ p \in Servers \/ p >= NSYS
  /\ \A p \in Servers : p < NSYS /\ ~ p >= NSYS
  /\ NONE \notin PID
<1>1. NSYS \in Nat /\ MAX_PROC \in Nat /\ 1 <= NSYS /\ NSYS <= MAX_PROC
  BY ProcessAssumption
<1>2. Servers = 2 .. NSYS-1
  BY ProgramsAssumption
<1>3. TERMINAL_IN \in 2 .. NSYS-1
  BY <1>2 DEF Servers
<1>4. NSYS >= 3
  BY <1>1, <1>3
<1> QED
  BY <1>1, <1>2, <1>4 DEF PID, SHELL, NONE

LEMMA InstrFacts ==
  ASSUME NEW q \in Seq(Instr)
  PROVE  /\ Len(q) \in Nat
         /\ q = <<>> <=> Len(q) = 0
         /\ \A i \in 1 .. Len(q) : q[i] \in Instr
         /\ q # <<>> => /\ Head(q) = q[1] /\ Head(q) \in Instr
                        /\ Tail(q) \in Seq(Instr)
                        /\ Len(Tail(q)) = Len(q) - 1
                        /\ \A i \in 1 .. Len(q) - 1 : Tail(q)[i] = q[i+1]
BY LenProperties, HeadTailProperties, EmptySeq

LEMMA PlanStep ==
  ASSUME NEW p \in PID \ Servers, NEW q, PlanOK(p, q), q # <<>>,
         NEW i, i = Head(q), NEW rest, rest = Tail(q)
  PROVE  /\ i \in Instr /\ rest \in Seq(Instr)
         /\ PlanOK(p, rest)
         /\ First(rest, "MsgRcv") <=> i.call = "MsgSnd"
         /\ First(rest, "Wait") <=> i.call = "Fork"
         /\ i.call = "MsgSnd" => i.to \in Servers
         /\ i.call = "Fork" => p = SHELL /\ "Fork" \notin Uses(rest)
         /\ i.call = "Wait" => p = SHELL
         /\ p >= NSYS => (i.call = "Exit" <=> rest = <<>>)
         /\ i.call = "Exit" => p >= NSYS
         /\ i.call \in Uses(q) /\ Uses(rest) \subseteq Uses(q)
         /\ i.call \in {"SemGet", "MsgSnd", "MsgRcv", "Sleep", "Fork", "Wait", "Exit"}
<1>1. q \in Seq(Instr) /\ p # 0 /\ (p = SHELL \/ p >= NSYS) /\ (p = SHELL => ~ p >= NSYS)
  BY Kinds DEF PlanOK
<1> DEFINE n == Len(q)
<1>2. /\ n \in Nat /\ n >= 1
      /\ i = q[1] /\ i \in Instr
      /\ rest \in Seq(Instr) /\ Len(rest) = n - 1
      /\ \A k \in 1 .. n - 1 : rest[k] = q[k+1]
      /\ rest = <<>> <=> n = 1
      /\ rest # <<>> => Head(rest) = q[2]
  <2>1. n \in Nat /\ n # 0
    BY <1>1, InstrFacts
  <2>2. /\ i = q[1] /\ i \in Instr /\ rest \in Seq(Instr) /\ Len(rest) = n - 1
        /\ \A k \in 1 .. n - 1 : rest[k] = q[k+1]
    BY <1>1, InstrFacts
  <2>3. rest = <<>> <=> n = 1
    BY <2>1, <2>2, InstrFacts
  <2>4. rest # <<>> => Head(rest) = q[2]
    BY <2>1, <2>2, <2>3, InstrFacts
  <2> QED
    BY <2>1, <2>2, <2>3, <2>4
<1>3. Uses(rest) \subseteq Uses(q) /\ i.call \in Uses(q)
  BY <1>2 DEF Uses
<1>4. Ordered(q)
  BY <1>1 DEF PlanOK
<1>5. Ordered(rest)
  <2>1. \A k \in 1 .. n - 2 : k + 1 \in 1 .. n - 1 /\ k \in 1 .. n - 1
    BY <1>2
  <2>2. rest # <<>> => rest[n-1] = q[n]
    BY <1>2
  <2>3. \A k \in 1 .. n - 2 : rest[k] = q[k+1] /\ rest[k+1] = q[(k+1)+1]
    BY <1>2, <2>1
  <2> QED
    BY <1>2, <1>4, <2>1, <2>2, <2>3 DEF Ordered
<1>6. /\ First(rest, "MsgRcv") <=> i.call = "MsgSnd"
      /\ First(rest, "Wait") <=> i.call = "Fork"
  <2>1. CASE rest = <<>>
    BY <1>2, <1>4, <2>1 DEF Ordered, First
  <2>2. CASE rest # <<>>
    <3>1. 1 \in 1 .. n - 1 /\ 1 + 1 = 2
      BY <1>2, <2>2
    <3> QED
      BY <1>2, <1>4, <2>2, <3>1 DEF Ordered, First
  <2> QED
    BY <2>1, <2>2
<1>7. CASE p = SHELL
  <2>1. ForksOnce(rest)
    <3>1. \A k \in 1 .. n - 1 : rest[k] = q[k+1] /\ k + 1 \in 1 .. n
      BY <1>2
    <3> HIDE DEF n
    <3> QED
      BY <1>1, <1>2, <1>7, <3>1 DEF PlanOK, ForksOnce
  <2>2. i.call = "Fork" => "Fork" \notin Uses(rest)
    <3>1. \A k \in 1 .. n - 1 : rest[k] = q[k+1] /\ k + 1 \in 1 .. n /\ k + 1 # 1 /\ 1 \in 1 .. n
      BY <1>2
    <3> HIDE DEF n
    <3> QED
      BY <1>1, <1>2, <1>7, <3>1 DEF PlanOK, ForksOnce, Uses
  <2>3. Uses(q) \subseteq {"SemGet", "MsgSnd", "MsgRcv", "Fork", "Wait"}
    BY <1>7 DEF PlanOK
  <2>4. i.call = "MsgSnd" => i.to \in Servers
    BY <1>2 DEF Instr
  <2> QED
    BY <1>1, <1>2, <1>3, <1>5, <1>6, <1>7, <2>1, <2>2, <2>3, <2>4 DEF PlanOK
<1>8. CASE p >= NSYS
  <2>1. EndsInExit(rest)
    <3>1. \A k \in 1 .. n - 1 : /\ rest[k] = q[k+1] /\ k + 1 \in 1 .. n
                                /\ k + 1 = n <=> k = n - 1
      BY <1>2
    <3>2. \A k \in 1 .. n : q[k].call = "Exit" <=> k = n
      BY <1>8 DEF PlanOK, EndsInExit
    <3>3. \A k \in 1 .. n - 1 : rest[k].call = "Exit" <=> k = n - 1
      BY <3>1, <3>2
    <3> QED
      BY <1>2, <3>3 DEF EndsInExit
  <2>2. i.call = "Exit" <=> rest = <<>>
    <3>1. 1 \in 1 .. n /\ (1 = n <=> n = 1)
      BY <1>2
    <3> QED
      BY <1>2, <1>8, <3>1 DEF PlanOK, EndsInExit
  <2>3. Uses(q) \subseteq {"MsgSnd", "MsgRcv", "Sleep", "Exit"}
    BY <1>8 DEF PlanOK
  <2>4. i.call = "MsgSnd" => i.to \in Servers
    BY <1>2 DEF Instr
  <2> QED
    BY <1>1, <1>2, <1>3, <1>5, <1>6, <1>8, <2>1, <2>2, <2>3, <2>4 DEF PlanOK
<1> QED
  BY <1>1, <1>7, <1>8

\* A plan that has not begun.
Whole(q) ==
  /\ q \in Seq(Instr) /\ q # <<>>
  /\ Ordered(q)
  /\ Head(q).call \notin {"MsgRcv", "Wait"}

LEMMA Join ==
  ASSUME NEW q, Whole(q), NEW r, Whole(r)
  PROVE  /\ Whole(q \o r)
         /\ Head(q \o r) = Head(q)
         /\ Uses(q \o r) = Uses(q) \cup Uses(r)
         /\ ForksOnce(q) /\ "Fork" \notin Uses(r) => ForksOnce(q \o r)
         /\ "Fork" \notin Uses(q) /\ ForksOnce(r) => ForksOnce(q \o r)
         /\ "Exit" \notin Uses(q) /\ EndsInExit(r) => EndsInExit(q \o r)
<1> DEFINE s == q \o r
           n == Len(q)
           m == Len(r)
<1>1. /\ n \in Nat /\ m \in Nat /\ n >= 1 /\ m >= 1
      /\ s \in Seq(Instr) /\ Len(s) = n + m
      /\ \A i \in 1 .. n : s[i] = q[i]
      /\ \A i \in 1 .. m : s[n+i] = r[i]
      /\ Head(q) = q[1] /\ Head(r) = r[1] /\ s # <<>> /\ Head(s) = s[1]
  <2>1. q \in Seq(Instr) /\ r \in Seq(Instr) /\ n \in Nat /\ m \in Nat /\ n # 0 /\ m # 0
    BY InstrFacts DEF Whole
  <2>2. /\ s \in Seq(Instr) /\ Len(s) = n + m
        /\ \A i \in 1 .. n + m : s[i] = IF i <= n THEN q[i] ELSE r[i - n]
    BY <2>1, ConcatProperties
  <2>3. \A i \in 1 .. n : s[i] = q[i]
    BY <2>1, <2>2
  <2>4. \A i \in 1 .. m : n + i \in 1 .. n + m /\ ~ n + i <= n /\ (n + i) - n = i
    BY <2>1
  <2>5. \A i \in 1 .. m : s[n+i] = r[i]
    BY <2>2, <2>4
  <2>6. Head(q) = q[1] /\ Head(r) = r[1]
    BY <2>1, InstrFacts DEF Whole
  <2>7. s # <<>> /\ Head(s) = s[1]
    BY <2>1, <2>2, InstrFacts
  <2> QED
    BY <2>1, <2>2, <2>3, <2>5, <2>6, <2>7
<1> HIDE DEF s
<1>2. /\ \A i \in 1 .. n : q[i].call \in Uses(q)
      /\ \A i \in 1 .. m : r[i].call \in Uses(r)
  BY DEF Uses
<1>3. /\ Ordered(q) /\ Ordered(r)
      /\ q[n].call \notin {"MsgSnd", "Fork"} /\ r[m].call \notin {"MsgSnd", "Fork"}
      /\ r[1].call \notin {"MsgRcv", "Wait"} /\ q[1].call \notin {"MsgRcv", "Wait"}
  BY <1>1 DEF Whole, Ordered
<1>4. /\ \A i \in 1 .. n - 1 : /\ q[i+1].call = "MsgRcv" <=> q[i].call = "MsgSnd"
                               /\ q[i+1].call = "Wait" <=> q[i].call = "Fork"
      /\ \A i \in 1 .. m - 1 : /\ r[i+1].call = "MsgRcv" <=> r[i].call = "MsgSnd"
                               /\ r[i+1].call = "Wait" <=> r[i].call = "Fork"
  BY <1>3 DEF Ordered
<1> HIDE DEF n, m
<1>5. \A i \in 1 .. n + m : i \in 1 .. n \/ \E k \in 1 .. m : i = n + k
  <2>1. \A i \in 1 .. n + m : i \in 1 .. n \/ (i - n \in 1 .. m /\ i = n + (i - n))
    BY <1>1
  <2> QED
    BY <2>1
<1>6. Uses(s) = Uses(q) \cup Uses(r)
  <2>1. \A i \in 1 .. n : i \in 1 .. n + m
    BY <1>1
  <2>2. \A i \in 1 .. m : n + i \in 1 .. n + m
    BY <1>1
  <2>3. Uses(q) = {q[i].call : i \in 1 .. n} /\ Uses(r) = {r[i].call : i \in 1 .. m}
    BY DEF Uses, n, m
  <2>4. Uses(s) = {s[i].call : i \in 1 .. n + m}
    BY <1>1 DEF Uses
  <2>5. ASSUME NEW c \in Uses(s) PROVE c \in Uses(q) \cup Uses(r)
    <3>1. PICK i \in 1 .. n + m : c = s[i].call
      BY <2>4
    <3> QED
      BY <1>1, <1>2, <1>5, <3>1
  <2>6. ASSUME NEW c \in Uses(q) \cup Uses(r) PROVE c \in Uses(s)
    <3>1. CASE c \in Uses(q)
      BY <1>1, <2>1, <2>3, <2>4, <3>1
    <3>2. CASE c \in Uses(r)
      BY <1>1, <2>2, <2>3, <2>4, <3>2
    <3> QED
      BY <3>1, <3>2
  <2> QED
    BY <2>5, <2>6
<1>7. Ordered(s)
  <2>1. ASSUME NEW i \in 1 .. (n + m) - 1
        PROVE  /\ s[i+1].call = "MsgRcv" <=> s[i].call = "MsgSnd"
               /\ s[i+1].call = "Wait" <=> s[i].call = "Fork"
    <3>1. CASE i \in 1 .. n - 1
      <4>1. i \in 1 .. n /\ i + 1 \in 1 .. n
        BY <1>1, <3>1
      <4> QED
        BY <1>1, <1>4, <3>1, <4>1
    <3>2. CASE i = n
      <4>1. n \in 1 .. n /\ 1 \in 1 .. m
        BY <1>1
      <4>2. s[n] = q[n] /\ s[n+1] = r[1]
        BY <1>1, <4>1
      <4> QED
        BY <1>3, <3>2, <4>2
    <3>3. CASE i > n
      <4>1. /\ i - n \in 1 .. m - 1 /\ i - n \in 1 .. m /\ (i - n) + 1 \in 1 .. m
            /\ i = n + (i - n) /\ i + 1 = n + ((i - n) + 1)
        BY <1>1, <3>3
      <4>2. s[i] = r[i - n] /\ s[i+1] = r[(i - n) + 1]
        BY <1>1, <4>1
      <4> QED
        BY <1>4, <4>1, <4>2
    <3> QED
      BY <1>1, <3>1, <3>2, <3>3
  <2>2. s[n + m].call \notin {"MsgSnd", "Fork"}
    <3>1. m \in 1 .. m
      BY <1>1
    <3>2. s[n + m] = r[m]
      BY <1>1, <3>1
    <3> QED
      BY <1>3, <3>2
  <2> QED
    BY <1>1, <2>1, <2>2 DEF Ordered
<1>8. Whole(s) /\ Head(s) = Head(q)
  <2>1. s[1] = q[1]
    <3>1. 1 \in 1 .. n
      BY <1>1
    <3> QED
      BY <1>1, <3>1
  <2> QED
    BY <1>1, <1>3, <1>7, <2>1 DEF Whole
<1>9. ASSUME NEW c, NEW i \in 1 .. n + m, s[i].call = c
      PROVE  /\ c \notin Uses(r) => i \in 1 .. n /\ q[i].call = c
             /\ c \notin Uses(q) => i - n \in 1 .. m /\ r[i - n].call = c
  <2>1. CASE i \in 1 .. n
    BY <1>1, <1>2, <1>9, <2>1
  <2>2. CASE i \notin 1 .. n
    <3>1. i - n \in 1 .. m /\ i = n + (i - n)
      BY <1>1, <2>2
    <3>2. s[i] = r[i - n]
      BY <1>1, <3>1
    <3> QED
      BY <1>2, <1>9, <2>2, <3>1, <3>2
  <2> QED
    BY <2>1, <2>2
<1>10. ASSUME ForksOnce(q), "Fork" \notin Uses(r) PROVE ForksOnce(s)
  <2>1. \A i, j \in 1 .. n : q[i].call = "Fork" /\ q[j].call = "Fork" => i = j
    BY <1>10 DEF ForksOnce, n
  <2> QED
    BY <1>1, <1>9, <1>10, <2>1 DEF ForksOnce
<1>11. ASSUME "Fork" \notin Uses(q), ForksOnce(r) PROVE ForksOnce(s)
  <2>1. \A i, j \in 1 .. m : r[i].call = "Fork" /\ r[j].call = "Fork" => i = j
    BY <1>11 DEF ForksOnce, m
  <2>2. ASSUME NEW i \in 1 .. n + m, NEW j \in 1 .. n + m,
               s[i].call = "Fork", s[j].call = "Fork"
        PROVE  i = j
    <3>1. i - n \in 1 .. m /\ r[i - n].call = "Fork"
      BY <1>9, <1>11, <2>2
    <3>2. j - n \in 1 .. m /\ r[j - n].call = "Fork"
      BY <1>9, <1>11, <2>2
    <3>3. i - n = j - n
      BY <2>1, <3>1, <3>2
    <3> QED
      BY <1>1, <3>3
  <2> QED
    BY <1>1, <2>2 DEF ForksOnce
<1>12. ASSUME "Exit" \notin Uses(q), EndsInExit(r) PROVE EndsInExit(s)
  <2>1. \A i \in 1 .. m : r[i].call = "Exit" <=> i = m
    BY <1>12 DEF EndsInExit, m
  <2>2. \A i \in 1 .. n + m : i - n = m <=> i = n + m
    BY <1>1
  <2>3. s[n + m].call = "Exit"
    <3>1. m \in 1 .. m
      BY <1>1
    <3> QED
      BY <1>1, <2>1, <3>1
  <2>4. \A i \in 1 .. n + m : s[i].call = "Exit" => i = n + m
    BY <1>9, <1>12, <2>1, <2>2
  <2> QED
    BY <1>1, <2>3, <2>4 DEF EndsInExit
<1> QED
  BY <1>6, <1>8, <1>10, <1>11, <1>12 DEF s

LEMMA Pair ==
  ASSUME NEW a \in Instr, NEW b \in Instr,
         a.call \notin {"MsgRcv", "Wait"}, b.call \notin {"MsgSnd", "Fork"},
         b.call = "MsgRcv" <=> a.call = "MsgSnd",
         b.call = "Wait" <=> a.call = "Fork"
  PROVE  /\ Whole(<<a, b>>) /\ Head(<<a, b>>) = a
         /\ Uses(<<a, b>>) = {a.call, b.call}
<1> DEFINE q == <<a, b>>
<1>1. q \in Seq(Instr) /\ Len(q) = 2 /\ q[1] = a /\ q[2] = b /\ q # <<>> /\ Head(q) = a
  OBVIOUS
<1> HIDE DEF q
<1>2. 1 .. 2 = {1, 2} /\ 1 .. 2 - 1 = {1}
  OBVIOUS
<1>3. Uses(q) = {a.call, b.call}
  BY <1>1, <1>2 DEF Uses
<1>4. Ordered(q)
  BY <1>1, <1>2 DEF Ordered
<1> QED
  BY <1>1, <1>3, <1>4 DEF Whole, q

LEMMA AskFacts ==
  ASSUME NEW s \in Servers
  PROVE  /\ Whole(Ask(s)) /\ Head(Ask(s)).call = "MsgSnd"
         /\ Uses(Ask(s)) = {"MsgSnd", "MsgRcv"}
<1>1. MsgSnd(s) \in Instr /\ MsgSnd(s).call = "MsgSnd"
  BY DEF Instr, MsgSnd
<1>2. Call("MsgRcv") \in Instr /\ Call("MsgRcv").call = "MsgRcv"
  BY DEF Instr, Call
<1> QED
  BY <1>1, <1>2, Pair DEF Ask

LEMMA ServersAreServers ==
  TERMINAL_IN \in Servers /\ TERMINAL_OUT \in Servers /\ FILE_SYSTEM \in Servers
BY DEF Servers

LEMMA ForkWait ==
  LET q == <<Call("Fork"), Call("Wait")>> IN
  Whole(q) /\ Uses(q) = {"Fork", "Wait"} /\ ForksOnce(q)
<1> DEFINE q == <<Call("Fork"), Call("Wait")>>
<1>1. Call("Fork") \in Instr /\ Call("Fork").call = "Fork"
  BY DEF Instr, Call
<1>2. Call("Wait") \in Instr /\ Call("Wait").call = "Wait"
  BY DEF Instr, Call
<1>3. Whole(q) /\ Uses(q) = {"Fork", "Wait"}
  BY <1>1, <1>2, Pair
<1>4. Len(q) = 2 /\ q[1] = Call("Fork") /\ q[2] = Call("Wait") /\ 1 .. 2 = {1, 2}
  OBVIOUS
<1>5. ForksOnce(q)
  BY <1>1, <1>2, <1>4 DEF ForksOnce
<1> QED
  BY <1>3, <1>5

\* The plans begin with a request, or with Sleep, and are as PlanOK says.
LEMMA RoundsOK ==
  ASSUME NEW q \in ShellRounds
  PROVE  PlanOK(SHELL, q) /\ Whole(q) /\ Head(q).call = "MsgSnd"
<1> DEFINE out == Ask(TERMINAL_OUT)
           in == Ask(TERMINAL_IN)
           file == Ask(FILE_SYSTEM)
           fork == <<Call("Fork"), Call("Wait")>>
           mail == {"MsgSnd", "MsgRcv"}
           Quiet(r) == Whole(r) /\ Uses(r) = mail /\ Head(r).call = "MsgSnd"
           Good(r) == /\ Whole(r) /\ Head(r).call = "MsgSnd" /\ ForksOnce(r)
                      /\ Uses(r) \subseteq {"SemGet", "MsgSnd", "MsgRcv", "Fork", "Wait"}
<1>1. Quiet(out) /\ Quiet(in) /\ Quiet(file)
  BY AskFacts, ServersAreServers
<1>2. Whole(fork) /\ Uses(fork) = {"Fork", "Wait"} /\ ForksOnce(fork)
  BY ForkWait
<1>3. q \in {out \o in, (out \o in) \o out, (out \o in) \o file \o out,
             (out \o in) \o file \o (out \o file),
             (out \o in) \o file \o fork \o out}
  BY DEF ShellRounds, GetLine, ShowEntry
<1> HIDE DEF out, in, file, fork
<1>4. ASSUME NEW r, NEW t, Quiet(r), Quiet(t) PROVE Quiet(r \o t)
  <2>1. /\ Whole(r \o t)
        /\ Head(r \o t) = Head(r)
        /\ Uses(r \o t) = Uses(r) \cup Uses(t)
    BY <1>4, Join
  <2> QED
    BY <1>4, <2>1
<1>5. ASSUME NEW r, Quiet(r) PROVE Good(r)
  BY <1>5 DEF ForksOnce, Uses
<1>6. Quiet(out \o in) /\ Quiet((out \o in) \o out) /\ Quiet((out \o in) \o file)
      /\ Quiet((out \o in) \o file \o out)
      /\ Quiet((out \o in) \o file \o (out \o file))
  <2>1. Quiet(out \o in) /\ Quiet(out \o file)
    BY <1>1, <1>4
  <2>2. Quiet((out \o in) \o out) /\ Quiet((out \o in) \o file)
    BY <1>1, <1>4, <2>1
  <2> HIDE DEF Quiet
  <2> QED
    BY <1>1, <1>4, <2>1, <2>2
<1>7. Good(((out \o in) \o file) \o fork)
  <2> DEFINE r == (out \o in) \o file
  <2>1. Quiet(r)
    BY <1>6
  <2> HIDE DEF r
  <2>2. /\ Whole(r \o fork)
        /\ Head(r \o fork) = Head(r)
        /\ Uses(r \o fork) = Uses(r) \cup Uses(fork)
        /\ "Fork" \notin Uses(r) /\ ForksOnce(fork) => ForksOnce(r \o fork)
    BY <1>2, <2>1, Join
  <2>3. Good(r \o fork)
    BY <1>2, <2>1, <2>2
  <2> QED
    BY <2>3 DEF r
<1>8. Good((out \o in) \o file \o fork \o out)
  <2> DEFINE r == (out \o in) \o file \o fork
  <2>1. Good(r)
    BY <1>7
  <2> HIDE DEF r
  <2>2. /\ Whole(r \o out)
        /\ Head(r \o out) = Head(r)
        /\ Uses(r \o out) = Uses(r) \cup Uses(out)
        /\ ForksOnce(r) /\ "Fork" \notin Uses(out) => ForksOnce(r \o out)
    BY <1>1, <2>1, Join
  <2>3. Good(r \o out)
    BY <1>1, <2>1, <2>2
  <2> QED
    BY <2>3 DEF r
<1>9. Good(q)
  BY <1>3, <1>5, <1>6, <1>8
<1> QED
  BY <1>9, Kinds DEF PlanOK, Whole

\* What is left of Dir and Cat when they may go on.
LEMMA ShowMoreOK ==
  LET more == ShowEntry \o ShowEntry IN
  /\ PlanOK(SHELL, more) /\ more # <<>>
  /\ ShowEntry # <<>> /\ Head(more) = Head(ShowEntry) /\ Uses(more) = Uses(ShowEntry)
<1> DEFINE mail == {"MsgSnd", "MsgRcv"}
           Quiet(r) == Whole(r) /\ Uses(r) = mail
<1>1. ASSUME NEW r, NEW t, Quiet(r), Quiet(t)
      PROVE  Quiet(r \o t) /\ Head(r \o t) = Head(r)
  BY <1>1, Join
<1>2. Quiet(ShowEntry)
  BY <1>1, AskFacts, ServersAreServers DEF ShowEntry
<1> DEFINE more == ShowEntry \o ShowEntry
<1>3. Quiet(more) /\ Head(more) = Head(ShowEntry)
  BY <1>1, <1>2
<1>4. ForksOnce(more)
  <2> HIDE DEF more
  <2> QED
    BY <1>3 DEF ForksOnce, Uses
<1> HIDE DEF more
<1>5. PlanOK(SHELL, more)
  BY <1>3, <1>4, Kinds DEF PlanOK, Whole
<1> QED
  BY <1>2, <1>3, <1>5 DEF Whole, more

LEMMA ProgramsOK ==
  ASSUME NEW p \in PID, p >= NSYS, NEW q \in {Hello, Prompt, SleepBin}
  PROVE  PlanOK(p, q) /\ Whole(q)
<1> DEFINE out == Ask(TERMINAL_OUT)
           in == Ask(TERMINAL_IN)
           exit == <<Call("Exit")>>
           mail == {"MsgSnd", "MsgRcv"}
           Quiet(r) == Whole(r) /\ Uses(r) = mail
           Good(r) == /\ Whole(r) /\ EndsInExit(r)
                      /\ Uses(r) \subseteq {"MsgSnd", "MsgRcv", "Sleep", "Exit"}
<1>1. Quiet(out) /\ Quiet(in)
  BY AskFacts, ServersAreServers
<1>2. Good(exit)
  <2>1. Call("Exit") \in Instr /\ Call("Exit").call = "Exit"
    BY DEF Instr, Call
  <2>2. exit \in Seq(Instr) /\ Len(exit) = 1 /\ exit[1] = Call("Exit") /\ exit # <<>>
        /\ Head(exit) = Call("Exit")
    BY <2>1
  <2> HIDE DEF exit
  <2>3. 1 .. 1 = {1} /\ 1 .. 1 - 1 = {}
    OBVIOUS
  <2> QED
    BY <2>1, <2>2, <2>3 DEF Whole, Ordered, EndsInExit, Uses
<1>3. Good(SleepBin)
  <2>1. Call("Exit") \in Instr /\ Call("Exit").call = "Exit"
    BY DEF Instr, Call
  <2>2. Call("Sleep") \in Instr /\ Call("Sleep").call = "Sleep"
    BY DEF Instr, Call
  <2>3. Whole(SleepBin) /\ Uses(SleepBin) = {"Sleep", "Exit"}
    BY <2>1, <2>2, Pair DEF SleepBin
  <2>4. Len(SleepBin) = 2 /\ SleepBin[1].call = "Sleep" /\ SleepBin[2].call = "Exit"
    BY <2>1, <2>2 DEF SleepBin
  <2>5. 1 .. 2 = {1, 2}
    OBVIOUS
  <2> QED
    BY <2>3, <2>4, <2>5 DEF EndsInExit
<1>4. q \in {out \o exit, out \o in \o out \o exit, SleepBin}
  BY DEF Hello, Prompt
<1> HIDE DEF out, in, exit
<1>5. ASSUME NEW r, NEW t, Quiet(r), Quiet(t) PROVE Quiet(r \o t)
  BY <1>5, Join
<1>6. ASSUME NEW r, Quiet(r) PROVE Good(r \o exit)
  BY <1>2, <1>6, Join
<1>7. Good(q)
  BY <1>1, <1>3, <1>4, <1>5, <1>6
<1> QED
  BY <1>7, Kinds DEF PlanOK, Whole
----------------------------------------------------------------------------
\* What the calls do to pcb[].state; a process that is READY may be dispatched.
Comes(p, v) == state'[p] = v \/ {state'[p], v} \subseteq Runnable

LEMMA TimerEffect ==
  ASSUME Places, DataOK, TimerIntr
  PROVE  \A p \in PID : \/ Comes(p, state[p])
                        \/ state[p] = "SLEEP" /\ state'[p] \in Runnable
<1> DEFINE now == Wrap(system_time + 1)
           st == StateAfterTick(now)
           pq == EnQAll(Woken(now), proc_q)
           st2 == [st EXCEPT ![run_pid] = "READY"]
<1>1. now \in Int
  BY WrapInTime DEF DataOK, Time
<1>2. sleep_q' = StillAsleep(now)
  BY DEF TimerIntr, TimerISR, TickInSlice, EndOfSlice, Tick
<1>3. ReadyOK(run_pid, pq, st)
  BY <1>1, <1>2, TickFacts
<1>4. run_pid \in PID /\ state[run_pid] = "RUN"
  BY RunningIsInNoQueue
<1>5. \A p \in PID : (st[p] = "READY" /\ state[p] = "SLEEP") \/ st[p] = state[p]
  <2>1. Range(Woken(now)) \subseteq Range(sleep_q)
    BY <1>1, TickSplitsSleepers
  <2> QED
    BY <2>1 DEF StateAfterTick, Places, AsleepOK
<1>6. \/ Scheduler(run_pid, pq, st)
      \/ Scheduler(NONE, EnQ(run_pid, pq), st2)
  BY DEF TimerIntr, TimerISR, TickInSlice, EndOfSlice
<1> HIDE DEF now, st, pq
<1>7. CASE Scheduler(run_pid, pq, st)
  <2>1. \A p \in PID : state'[p] = st[p] \/ {state'[p], st[p]} \subseteq Runnable
    BY <1>3, <1>7, SchedulerFacts
  <2> QED
    BY <1>5, <2>1 DEF Comes, Runnable
<1>8. CASE Scheduler(NONE, EnQ(run_pid, pq), st2)
  <2>1. ReadyOK(NONE, EnQ(run_pid, pq), st2)
    BY <1>3, <1>4, Preempted
  <2>2. \A p \in PID : \/ (st2[p] = "READY" /\ state[p] \in {"SLEEP", "RUN"})
                       \/ st2[p] = state[p]
    BY <1>3, <1>4, <1>5 DEF ReadyOK
  <2> HIDE DEF st2
  <2>3. \A p \in PID : state'[p] = st2[p] \/ {state'[p], st2[p]} \subseteq Runnable
    BY <1>8, <2>1, SchedulerFacts
  <2> QED
    BY <2>2, <2>3 DEF Comes, Runnable
<1> QED
  BY <1>6, <1>7, <1>8

LEMMA BlockEffect ==
  ASSUME Places, run_pid # 0, NEW v \in State \ Runnable,
         Scheduler(NONE, proc_q, [state EXCEPT ![run_pid] = v])
  PROVE  state'[run_pid] = v /\ \A p \in PID \ {run_pid} : Comes(p, state[p])
<1> DEFINE st == [state EXCEPT ![run_pid] = v]
<1>1. ReadyOK(NONE, proc_q, st)
  BY RunningBlocks
<1>2. run_pid \in PID /\ st[run_pid] = v /\ \A p \in PID \ {run_pid} : st[p] = state[p]
  BY RunningIsInNoQueue
<1> HIDE DEF st
<1>3. Scheduler(NONE, proc_q, st)
  BY DEF st
<1>4. \A p \in PID : state'[p] = st[p] \/ {state'[p], st[p]} \subseteq Runnable
  BY <1>1, <1>3, SchedulerFacts
<1> QED
  BY <1>2, <1>4 DEF Comes

\* Making p ready dispatches nobody.
LEMMA ReadyEffect ==
  ASSUME Places, NEW p \in PID, NEW v \in State, NEW pq,
         Scheduler(run_pid, pq, [state EXCEPT ![p] = v])
  PROVE  /\ run_pid' = run_pid
         /\ state'[p] = v
         /\ \A o \in PID \ {p} : state'[o] = state[o]
<1>1. run_pid # NONE /\ state \in [PID -> State]
  BY RunningIsInNoQueue, PidFacts
<1>2. state' = [state EXCEPT ![p] = v] /\ run_pid' = run_pid
  BY <1>1 DEF Scheduler
<1> QED
  BY <1>1, <1>2

LEMMA HandOffEffect ==
  ASSUME Places, DataOK, NEW x \in PID, NEW m, HandOff(x, m)
  PROVE  /\ state[x] = "WAIT" /\ mbox_wait_q[x] # <<>>
         /\ state'[x] \in Runnable
         /\ \A o \in PID \ {x} : state'[o] = state[o] /\ mbox_wait_q'[o] = mbox_wait_q[o]
         /\ buf' = [buf EXCEPT ![x] = m] /\ mbox' = mbox
<1>1. mbox_wait_q[x] # <<>> /\ Head(mbox_wait_q[x]) = x /\ x \in Range(mbox_wait_q[x])
  <2>1. mbox_wait_q[x] # <<>>
    BY DEF HandOff
  <2>2. Range(mbox_wait_q[x]) = {x} /\ Head(mbox_wait_q[x]) = x
    BY <2>1, MboxWaiters DEF Places
  <2> QED
    BY <2>1, <2>2
<1>2. state[x] = "WAIT"
  BY <1>1 DEF Places, WaitOK
<1>3. /\ buf' = [buf EXCEPT ![x] = m] /\ mbox' = mbox
      /\ Scheduler(run_pid, EnQ(x, proc_q), [state EXCEPT ![x] = "RUN"])
      /\ mbox_wait_q' = [mbox_wait_q EXCEPT ![x] = Tail(@)]
  BY <1>1 DEF HandOff
<1>4. "RUN" \in State
  BY DEF State
<1>5. state'[x] = "RUN" /\ \A o \in PID \ {x} : state'[o] = state[o]
  BY <1>3, <1>4, ReadyEffect
<1>6. \A o \in PID \ {x} : mbox_wait_q'[o] = mbox_wait_q[o]
  BY <1>3 DEF Places, WaitOK
<1> QED
  BY <1>1, <1>2, <1>3, <1>5, <1>6 DEF Runnable

LEMMA AwaitEffect ==
  ASSUME Places, MakesCall("MsgRcv"), AwaitMail(run_pid)
  PROVE  /\ state'[run_pid] = "WAIT" /\ mbox_wait_q'[run_pid] # <<>>
         /\ \A o \in PID \ {run_pid} : /\ Comes(o, state[o])
                                       /\ mbox_wait_q'[o] = mbox_wait_q[o]
         /\ mbox[run_pid] = <<>>
         /\ mbox' = mbox /\ buf' = buf
<1>1. run_pid # 0
  BY InitProcRuns DEF Blocking
<1>2. Scheduler(NONE, proc_q, [state EXCEPT ![run_pid] = "WAIT"])
  BY DEF AwaitMail
<1>3. "WAIT" \in State \ Runnable
  BY DEF State, Runnable
<1>4. state'[run_pid] = "WAIT" /\ \A o \in PID \ {run_pid} : Comes(o, state[o])
  BY <1>1, <1>2, <1>3, BlockEffect
<1>5. /\ mbox_wait_q'[run_pid] # <<>>
      /\ \A o \in PID \ {run_pid} : mbox_wait_q'[o] = mbox_wait_q[o]
  <2> DEFINE q == EnQ(run_pid, mbox_wait_q[run_pid])
  <2>1. mbox_wait_q' = [mbox_wait_q EXCEPT ![run_pid] = q] /\ run_pid \in PID
    BY RunningIsInNoQueue DEF AwaitMail
  <2>2. q # <<>>
    <3>1. mbox_wait_q[run_pid] = <<>> /\ run_pid \in PID
      <4>1. run_pid \in PID /\ run_pid \notin Range(mbox_wait_q[run_pid])
        BY RunningIsInNoQueue
      <4> QED
        BY <4>1, MboxWaiters DEF Places
    <3>2. <<>> \in Seq(PID) /\ IsInjective(<<>>) /\ run_pid \notin Range(<<>>)
      BY DEF IsInjective, Range
    <3>3. q = Append(<<>>, run_pid)
      BY <3>1, <3>2, EnQFacts
    <3> QED
      BY <3>3
  <2> HIDE DEF q
  <2> QED
    BY <2>1, <2>2 DEF Places, WaitOK
<1> QED
  BY <1>4, <1>5 DEF AwaitMail

LEMMA ForkEffect ==
  ASSUME Places, DataOK, ForkISR, NEW c, c = Head(unused_q)
  PROVE  /\ c \in PID /\ state[c] = "UNUSED" /\ c # run_pid
         /\ state'[c] = "READY"
         /\ \A o \in PID \ {c} : state'[o] = state[o] /\ mbox_wait_q'[o] = mbox_wait_q[o]
         /\ unused_q' # unused_q
         /\ mbox' = [mbox EXCEPT ![c] = <<>>]
         /\ ppid' = [ppid EXCEPT ![c] = run_pid]
         /\ UNCHANGED <<buf, semVars, reported>>
<1>1. /\ unused_q # <<>> /\ unused_q' = Tail(unused_q)
      /\ Scheduler(run_pid, EnQ(c, proc_q), [state EXCEPT ![c] = "READY"])
      /\ mbox' = [mbox EXCEPT ![c] = <<>>]
      /\ ppid' = [ppid EXCEPT ![c] = run_pid]
      /\ UNCHANGED <<buf, semVars, reported>>
  BY DEF ForkISR
<1>2. c \in PID /\ c \in Range(unused_q)
  BY <1>1, HeadTailFacts DEF Places, UnusedOK
<1>3. state[c] = "UNUSED" /\ c # run_pid
  BY <1>2, RunningIsInNoQueue DEF Places, UnusedOK
<1>4. "READY" \in State
  BY DEF State
<1>5. state'[c] = "READY" /\ \A o \in PID \ {c} : state'[o] = state[o]
  BY <1>1, <1>2, <1>4, ReadyEffect
<1>6. \A o \in PID \ {c} : mbox_wait_q'[o] = mbox_wait_q[o]
  BY DEF ForkISR, Places, WaitOK
<1>7. Range(unused_q) # Range(Tail(unused_q))
  BY <1>1, <1>2, HeadTailFacts DEF Places, UnusedOK
<1> QED
  BY <1>1, <1>2, <1>3, <1>5, <1>6, <1>7

LEMMA SleepEffect ==
  ASSUME Places, SleepIntr
  PROVE  /\ state'[run_pid] = "SLEEP"
         /\ \A o \in PID \ {run_pid} : Comes(o, state[o])
         /\ UNCHANGED <<semVars, mailVars, pageVars>>
<1>1. /\ MakesCall("Sleep") /\ UNCHANGED <<semVars, mailVars, pageVars>>
      /\ Scheduler(NONE, proc_q, [state EXCEPT ![run_pid] = "SLEEP"])
  BY DEF SleepIntr, SleepISR
<1>2. run_pid # 0
  BY <1>1, InitProcRuns DEF Blocking
<1>3. "SLEEP" \in State \ Runnable
  BY DEF State, Runnable
<1> QED
  BY <1>1, <1>2, <1>3, BlockEffect

LEMMA WaitEffect ==
  ASSUME Places, DataOK, WaitISR
  PROVE  /\ UNCHANGED <<semVars, mailVars, ppid>>
         /\ \/ /\ ChildrenExited = {}
               /\ state'[run_pid] = "WAIT4CHILD"
               /\ \A o \in PID \ {run_pid} : Comes(o, state[o])
               /\ UNCHANGED <<page_pid, reported>>
            \/ /\ ReapChild
               /\ state' = [state EXCEPT ![Min(ChildrenExited)] = "UNUSED"]
            \/ ReportChildOnly /\ state' = state
<1>1. /\ MakesCall("Wait") /\ UNCHANGED <<semVars, mailVars>>
      /\ WaitForChild \/ ReapChild \/ ReportChildOnly
  BY DEF WaitISR
<1>2. run_pid # 0
  BY <1>1, InitProcRuns DEF Blocking
<1>3. "WAIT4CHILD" \in State \ Runnable
  BY DEF State, Runnable
<1>4. CASE WaitForChild
  <2>1. /\ ChildrenExited = {} /\ UNCHANGED <<page_pid, ppid, reported>>
        /\ Scheduler(NONE, proc_q, [state EXCEPT ![run_pid] = "WAIT4CHILD"])
    BY <1>4 DEF WaitForChild, pageVars
  <2> QED
    BY <1>1, <1>2, <1>3, <2>1, BlockEffect
<1>5. CASE ReapChild
  BY <1>1, <1>5 DEF ReapChild
<1>6. CASE ReportChildOnly
  BY <1>1, <1>6 DEF ReportChildOnly, procVars
<1> QED
  BY <1>1, <1>4, <1>5, <1>6

LEMMA ExitEffect ==
  ASSUME Places, DataOK, ExitISR, NEW parent, parent = ppid[run_pid]
  PROVE  /\ UNCHANGED <<semVars, mailVars, ppid>>
         /\ parent \in PID
         /\ \/ /\ state[parent] # "WAIT4CHILD"
               /\ state'[run_pid] = "ZOMBIE"
               /\ \A o \in PID \ {run_pid} : Comes(o, state[o])
               /\ UNCHANGED <<page_pid, reported>>
            \/ /\ state[parent] = "WAIT4CHILD" /\ parent # run_pid
               /\ state'[run_pid] = "UNUSED" /\ state'[parent] \in Runnable
               /\ \A o \in PID \ {run_pid, parent} : Comes(o, state[o])
               /\ reported' = [reported EXCEPT ![parent] = run_pid]
            \/ RunOnAfterExit
<1>1. /\ MakesCall("Exit") /\ UNCHANGED <<semVars, mailVars>>
      /\ BecomeZombie \/ EndForParent \/ RunOnAfterExit
  BY DEF ExitISR
<1>2. run_pid # 0
  BY <1>1, InitProcRuns DEF Blocking
<1>3. run_pid \in PID /\ state[run_pid] = "RUN" /\ state \in [PID -> State]
  BY RunningIsInNoQueue
<1>4. parent \in PID
  BY <1>3 DEF DataOK
<1>5. CASE BecomeZombie
  <2>1. /\ state[parent] # "WAIT4CHILD" /\ UNCHANGED <<page_pid, ppid, reported>>
        /\ Scheduler(NONE, proc_q, [state EXCEPT ![run_pid] = "ZOMBIE"])
    BY <1>5 DEF BecomeZombie, pageVars
  <2>2. "ZOMBIE" \in State \ Runnable
    BY DEF State, Runnable
  <2>3. state'[run_pid] = "ZOMBIE" /\ \A o \in PID \ {run_pid} : Comes(o, state[o])
    BY <1>2, <2>1, <2>2, BlockEffect
  <2> QED
    BY <1>1, <1>4, <2>1, <2>3
<1>6. CASE EndForParent
  <2> DEFINE st1 == [state EXCEPT ![parent] = "READY"]
             st2 == [st1 EXCEPT ![run_pid] = "UNUSED"]
  <2>1. /\ state[parent] = "WAIT4CHILD" /\ UNCHANGED ppid
        /\ reported' = [reported EXCEPT ![parent] = run_pid]
        /\ Scheduler(NONE, EnQ(parent, proc_q), st2)
    BY <1>6 DEF EndForParent, ReleaseParent
  <2>2. ReadyOK(run_pid, EnQ(parent, proc_q), st1)
    BY <1>4, <2>1, BecomesReady DEF Places, Runnable
  <2>3. ReadyOK(NONE, EnQ(parent, proc_q), st2)
    <3> HIDE DEF st1
    <3> QED
      BY <1>2, <1>3, <2>2, OffProcessor DEF State, Runnable
  <2>4. /\ st2[run_pid] = "UNUSED" /\ st2[parent] = "READY" /\ parent # run_pid
        /\ \A o \in PID \ {run_pid, parent} : st2[o] = state[o]
    BY <1>3, <1>4, <2>1
  <2> HIDE DEF st2, st1
  <2>5. \A p \in PID : state'[p] = st2[p] \/ {state'[p], st2[p]} \subseteq Runnable
    BY <2>1, <2>3, SchedulerFacts
  <2>6. state'[run_pid] = "UNUSED" /\ state'[parent] \in Runnable
    BY <1>3, <1>4, <2>4, <2>5 DEF Runnable
  <2>7. \A o \in PID \ {run_pid, parent} : Comes(o, state[o])
    BY <2>4, <2>5 DEF Comes
  <2> QED
    BY <1>1, <1>4, <2>1, <2>4, <2>6, <2>7
<1>7. CASE RunOnAfterExit
  BY <1>1, <1>4, <1>7 DEF RunOnAfterExit
<1> QED
  BY <1>1, <1>5, <1>6, <1>7
----------------------------------------------------------------------------
\* Process p has asked a server and has not had its answer.
Awaiting(p) == state[p] = "WAIT" \/ Upcoming(p, "MsgRcv")

\* It has asked s, and no answer is in its mailbox.
Pending(p, s) ==
  /\ p \in PID \ Servers
  /\ asked[p] = s /\ Awaiting(p)
  /\ mbox[p] = <<>>

\* Server s has a request: it has come back from MsgRcv, though it may wait
\* on a semaphore now.
Works(s) == todo[s] # <<>> /\ mbox_wait_q[s] = <<>>

\* The requests in the mailbox of server s and the one it works on are of
\* different processes.
ServerOK(s) ==
  /\ asked[s] = NONE
  /\ \A i \in 1 .. Len(mbox[s]) : Pending(mbox[s][i].sender, s)
  /\ \A i, j \in 1 .. Len(mbox[s]) : mbox[s][i].sender = mbox[s][j].sender => i = j
  /\ Works(s) =>
       /\ Pending(buf[s].sender, s)
       /\ \A i \in 1 .. Len(mbox[s]) : mbox[s][i].sender # buf[s].sender

ClientOK(p) ==
  /\ mbox[p] # <<>> => /\ Upcoming(p, "MsgRcv")
                       /\ Len(mbox[p]) = 1 /\ mbox[p][1].sender = asked[p]
  /\ state[p] = "WAIT" => ~ Upcoming(p, "MsgRcv")
  /\ p >= NSYS /\ todo[p] = <<>> => asked[p] = NONE
  /\ Returned(p) => buf[p].sender = asked[p]

\* Clients wait for mail only.
MailOK ==
  /\ \A t \in SEM : Range(sem_wait_q[t]) \subseteq Servers
  /\ \A s \in Servers : ServerOK(s)
  /\ \A p \in PID \ Servers : ClientOK(p)

LEMMA MailImplies == MailOK => AnswerIsTheServers
BY DEF MailOK, ServerOK, ClientOK, AnswerIsTheServers, Returned

\* A step that does not change what MailOK says of p itself.
Untouched(p) ==
  /\ mbox'[p] = mbox[p] /\ mbox_wait_q'[p] = mbox_wait_q[p] /\ buf'[p] = buf[p]
  /\ todo'[p] = todo[p] /\ asked'[p] = asked[p]
  /\ state'[p] = "WAIT" <=> state[p] = "WAIT"

LEMMA OthersKept ==
  ASSUME MailOK, NEW A,
         \A p \in PID \ A : Untouched(p),
         \A s \in Servers \ A, p \in PID \cap A : Pending(p, s) => Pending(p, s)'
  PROVE  /\ \A s \in Servers \ A, p \in PID : Pending(p, s) => Pending(p, s)'
         /\ \A s \in Servers, p \in PID \ A : Pending(p, s) => Pending(p, s)'
         /\ \A s \in Servers \ A : ServerOK(s)'
         /\ \A p \in PID \ (Servers \cup A) : ClientOK(p)'
<1>1. \A s \in Servers, p \in PID \ A : Pending(p, s) => Pending(p, s)'
  BY DEF Pending, Awaiting, Upcoming, Untouched
<1>2. \A s \in Servers \ A, p \in PID : Pending(p, s) => Pending(p, s)'
  BY <1>1
<1>3. ASSUME NEW s \in Servers \ A PROVE ServerOK(s)'
  <2>1. s \in PID /\ ServerOK(s)
    BY Kinds DEF MailOK
  <2>2. /\ mbox'[s] = mbox[s] /\ mbox_wait_q'[s] = mbox_wait_q[s] /\ buf'[s] = buf[s]
        /\ todo'[s] = todo[s] /\ asked'[s] = asked[s]
    BY <2>1 DEF Untouched
  <2>3. ASSUME NEW m, Pending(m.sender, s) PROVE Pending(m.sender, s)'
    BY <1>2, <2>3 DEF Pending
  <2>4. \A i \in 1 .. Len(mbox'[s]) : Pending(mbox[s][i].sender, s)'
    BY <2>1, <2>2, <2>3 DEF ServerOK
  <2>5. ASSUME Works(s) PROVE Pending(buf[s].sender, s)'
    <3>1. Pending(buf[s].sender, s)
      BY <2>1, <2>5 DEF ServerOK
    <3>2. PICK o \in PID : o = buf[s].sender
      BY <3>1 DEF Pending
    <3>3. Pending(o, s)'
      BY <1>2, <3>1, <3>2
    <3> QED
      BY <2>2, <3>2, <3>3 DEF Pending
  <2> QED
    BY <2>1, <2>2, <2>4, <2>5 DEF ServerOK, Works, Pending, Awaiting, Upcoming
<1>4. ASSUME NEW p \in PID \ (Servers \cup A) PROVE ClientOK(p)'
  <2>1. ClientOK(p)
    BY DEF MailOK
  <2>2. /\ mbox'[p] = mbox[p] /\ buf'[p] = buf[p]
        /\ todo'[p] = todo[p] /\ asked'[p] = asked[p]
        /\ state'[p] = "WAIT" <=> state[p] = "WAIT"
    BY DEF Untouched
  <2> QED
    BY <2>1, <2>2 DEF ClientOK, Returned, Upcoming
<1> QED
  BY <1>1, <1>2, <1>3, <1>4
----------------------------------------------------------------------------
\* The next call of process p, and what is left after it.
LEMMA ChosenPlan ==
  ASSUME PlansOK, NEW p \in PID, NEW plan \in Plans(p),
         NEW i, i = Head(plan), NEW rest, rest = Tail(plan)
  PROVE  /\ p # 0 /\ PlanOK(p, rest)
         /\ p \in Servers =>
              \/ i.call = "MsgRcv" /\ todo[p] = <<>> /\ rest # <<>>
              \/ i.call = "SemWait" /\ todo[p] # <<>> /\ rest # <<>>
              \/ i.call = "Answer" /\ todo[p] # <<>> /\ rest = <<>>
         /\ p \notin Servers =>
              /\ i.call \in {"SemGet", "MsgSnd", "MsgRcv", "Sleep", "Fork", "Wait", "Exit"}
              /\ First(rest, "MsgRcv") <=> i.call = "MsgSnd"
              /\ First(rest, "Wait") <=> i.call = "Fork"
              /\ i.call = "MsgSnd" => i.to \in Servers
              /\ i.call = "Fork" => p = SHELL /\ "Fork" \notin Uses(rest)
              /\ i.call = "Wait" => p = SHELL
              /\ p >= NSYS => (i.call = "Exit" <=> rest = <<>>)
              /\ i.call = "Exit" => p >= NSYS
              /\ \/ /\ todo[p] # <<>> /\ i = Head(todo[p])
                    /\ i.call \in Uses(todo[p]) /\ Uses(rest) \subseteq Uses(todo[p])
                 \/ p = SHELL /\ todo[p] = <<>> /\ i.call = "MsgSnd"
         /\ \A c : Upcoming(p, c) => i.call = c
<1>1. PlanOK(p, todo[p])
  BY DEF PlansOK
<1>2. p # 0
  <2> SUFFICES ASSUME p = 0 PROVE FALSE
    OBVIOUS
  <2>1. todo[p] = <<>> /\ p # SHELL /\ p \notin Servers /\ p # TERMINAL_IN
    BY <1>1, Kinds, ServersAreServers DEF PlanOK
  <2>2. Rounds(p) = {}
    BY <2>1 DEF Rounds
  <2> QED
    BY <2>1, <2>2 DEF Plans
<1>3. CASE p \in Servers
  <2> DEFINE answer == <<Call("Answer")>>
             line == <<Call("SemWait"), Call("Answer")>>
  <2>1. p # SHELL /\ ~ p >= NSYS
    BY <1>3, Kinds
  <2>2. /\ Call("Answer") \in Instr /\ Call("Answer").call = "Answer"
        /\ Call("SemWait") \in Instr /\ Call("SemWait").call = "SemWait"
        /\ Call("MsgRcv").call = "MsgRcv"
    BY DEF Instr, Call
  <2>3. PlanOK(p, <<>>) /\ PlanOK(p, answer) /\ PlanOK(p, line)
    <3>1. <<>> \in Seq(Instr) /\ answer \in Seq(Instr) /\ line \in Seq(Instr)
      BY <2>2
    <3> QED
      BY <1>2, <1>3, <2>1, <3>1 DEF PlanOK
  <2>4. answer # <<>> /\ line # <<>>
    OBVIOUS
  <2>5. CASE todo[p] = <<>>
    <3>1. \/ plan = <<Call("MsgRcv"), Call("SemWait"), Call("Answer")>>
          \/ plan = <<Call("MsgRcv"), Call("Answer")>>
      BY <1>3, <2>1, <2>5 DEF Plans, Rounds, TerminalInRounds, ServerRounds
    <3>2. i = Call("MsgRcv") /\ rest \in {answer, line} /\ rest # <<>>
      <4>1. CASE plan = <<Call("MsgRcv"), Call("SemWait"), Call("Answer")>>
        <5>1. i = Call("MsgRcv")
          BY <4>1
        <5>2. rest = line
          BY <4>1
        <5> QED
          BY <2>4, <5>1, <5>2
      <4>2. CASE plan = <<Call("MsgRcv"), Call("Answer")>>
        <5>1. i = Call("MsgRcv")
          BY <4>2
        <5>2. rest = answer
          BY <4>2
        <5> QED
          BY <2>4, <5>1, <5>2
      <4> QED
        BY <3>1, <4>1, <4>2
    <3> HIDE DEF answer, line
    <3> QED
      BY <1>2, <1>3, <2>2, <2>3, <2>5, <3>2 DEF Upcoming, First
  <2>6. CASE todo[p] # <<>>
    <3>1. plan = todo[p] /\ (todo[p] = answer \/ todo[p] = line)
      BY <1>1, <1>3, <2>1, <2>6 DEF Plans, PlanOK
    <3>2. \/ i = Call("Answer") /\ rest = <<>>
          \/ i = Call("SemWait") /\ rest = answer /\ rest # <<>>
      <4>1. CASE plan = answer
        BY <4>1
      <4>2. CASE plan = line
        <5>1. i = Call("SemWait")
          BY <4>2
        <5>2. rest = answer
          BY <4>2
        <5> QED
          BY <2>4, <5>1, <5>2
      <4> QED
        BY <3>1, <4>1, <4>2
    <3> HIDE DEF answer, line
    <3> QED
      BY <1>2, <1>3, <2>2, <2>3, <2>6, <3>1, <3>2 DEF Upcoming, First
  <2> QED
    BY <2>5, <2>6
<1>4. CASE p \notin Servers
  <2>1. CASE todo[p] # <<>>
    <3>1. /\ PlanOK(p, plan) /\ plan # <<>>
          /\ Head(plan) = Head(todo[p]) /\ Uses(plan) = Uses(todo[p])
      <4>1. plan = todo[p] \/ (p = SHELL /\ todo[p] = ShowEntry /\ plan = ShowEntry \o ShowEntry)
        BY <2>1 DEF Plans
      <4> QED
        BY <1>1, <2>1, <4>1, ShowMoreOK
    <3>2. \A c : Upcoming(p, c) => i.call = c
      BY <3>1 DEF Upcoming, First
    <3> QED
      BY <1>2, <1>4, <2>1, <3>1, <3>2, PlanStep
  <2>2. CASE todo[p] = <<>>
    <3>1. p = SHELL /\ plan \in ShellRounds
      BY <1>4, <2>2, ServersAreServers DEF Plans, Rounds
    <3>2. PlanOK(p, plan) /\ plan # <<>> /\ i.call = "MsgSnd"
      BY <3>1, RoundsOK DEF Whole
    <3>3. ~ p >= NSYS
      BY <3>1, Kinds
    <3> QED
      BY <1>2, <1>4, <2>2, <3>1, <3>2, <3>3, PlanStep DEF Upcoming, First
  <2> QED
    BY <2>1, <2>2
<1> QED
  BY <1>3, <1>4

\* The steps of the running process that touch no mailbox.
LEMMA QuietKeepsMail ==
  ASSUME Places, MailOK, NEW p \in PID \ Servers, p = run_pid,
         ~ Upcoming(p, "MsgRcv"), ~ Upcoming(p, "MsgRcv")',
         p >= NSYS /\ todo'[p] = <<>> => asked'[p] = NONE,
         asked'[p] \in {asked[p], NONE},
         \A o \in PID \ {p} : todo'[o] = todo[o] /\ asked'[o] = asked[o],
         \A o \in PID : state'[o] = "WAIT" <=> state[o] = "WAIT",
         UNCHANGED <<mbox, mbox_wait_q, buf, sem_wait_q>>
  PROVE  MailOK'
<1>1. state[p] = "RUN"
  BY RunningIsInNoQueue
<1>2. ~ Awaiting(p)
  BY <1>1 DEF Awaiting
<1>3. /\ \A s \in Servers \ {p} : ServerOK(s)'
      /\ \A o \in PID \ (Servers \cup {p}) : ClientOK(o)'
  <2>1. \A s \in Servers, o \in PID \cap {p} : ~ Pending(o, s)
    BY <1>2 DEF Pending
  <2>2. \A o \in PID \ {p} : Untouched(o)
    BY DEF Untouched
  <2> QED
    BY <2>1, <2>2, OthersKept
<1>4. ClientOK(p)'
  <2>1. ClientOK(p)
    BY DEF MailOK
  <2>2. mbox'[p] = <<>>
    BY <2>1 DEF ClientOK
  <2>3. Returned(p)' => Returned(p)
    BY <1>1 DEF Returned, Upcoming, First
  <2>4. Returned(p)' => (buf[p].sender = asked[p])'
    BY <2>1, <2>3 DEF ClientOK, Returned
  <2> QED
    BY <2>2, <2>4 DEF ClientOK
<1> QED
  BY <1>3, <1>4 DEF MailOK

LEMMA SendKeepsMail ==
  ASSUME Places, DataOK, MailOK, NobodyWaitsOnMail,
         NEW p \in PID \ Servers, p = run_pid,
         ~ Upcoming(p, "MsgRcv"), Upcoming(p, "MsgRcv")',
         NEW s \in Servers, NEW d \in Data, MsgSndISR(s, d),
         todo \in [PID -> Seq(Instr)], todo'[p] # <<>>,
         \A o \in PID \ {p} : todo'[o] = todo[o] /\ asked'[o] = asked[o],
         asked'[p] = s
  PROVE  MailOK'
<1> DEFINE m == [sender |-> p, data |-> d]
<1>1. state[p] = "RUN" /\ ~ Awaiting(p) /\ s \in PID /\ s # p
  BY RunningIsInNoQueue, Kinds DEF Awaiting
<1>2. ClientOK(p) /\ mbox[p] = <<>>
  BY DEF MailOK, ClientOK
<1>3. ServerOK(s)
  BY DEF MailOK
<1>4. Enqueue(s, m) \/ HandOff(s, m)
  BY DEF MsgSndISR
<1>5. /\ mbox \in [PID -> Seq(Message)] /\ buf \in [PID -> Message \cup {NoMessage}]
      /\ m \in Message /\ m.sender = p
  BY DEF DataOK, Message
<1>6. sem_wait_q' = sem_wait_q
  BY DEF MsgSndISR, semVars
<1> HIDE DEF m
<1>7. CASE Enqueue(s, m)
  <2>1. /\ mbox' = [mbox EXCEPT ![s] = MsgEnQ(m, @)]
        /\ state' = state /\ buf' = buf /\ mbox_wait_q' = mbox_wait_q
    BY <1>7 DEF Enqueue, procVars
  <2>2. /\ mbox'[s] = MsgEnQ(m, mbox[s])
        /\ \A o \in PID \ {s} : mbox'[o] = mbox[o]
    BY <1>1, <1>5, <2>1
  <2>3. /\ \A t \in Servers, o \in PID \ {p, s} : Pending(o, t) => Pending(o, t)'
        /\ \A t \in Servers \ {p, s} : ServerOK(t)'
        /\ \A o \in PID \ (Servers \cup {p, s}) : ClientOK(o)'
    <3>1. \A t \in Servers, o \in PID \cap {p, s} : ~ Pending(o, t)
      BY <1>1 DEF Pending
    <3>2. \A o \in PID \ {p, s} : Untouched(o)
      BY <2>1, <2>2 DEF Untouched
    <3> QED
      BY <3>1, <3>2, OthersKept
  <2>4. Pending(p, s)'
    BY <1>1, <1>2, <2>2 DEF Pending, Awaiting
  <2>5. ClientOK(p)'
    <3>1. mbox'[p] = <<>> /\ state'[p] # "WAIT"
      BY <1>1, <1>2, <2>1, <2>2
    <3>2. ~ Returned(p)'
      BY DEF Returned, Upcoming, First
    <3> QED
      BY <3>1, <3>2 DEF ClientOK
  <2>6. ServerOK(s)'
    <3> DEFINE q == mbox[s]
               r == mbox'[s]
    <3>1. /\ q \in Seq(Message) /\ Len(q) \in Nat
          /\ r = q \/ (r = Append(q, m) /\ Len(r) = Len(q) + 1 /\ r[Len(q) + 1] = m
                       /\ \A k \in 1 .. Len(q) : r[k] = q[k])
      BY <1>1, <1>5, <2>2, AppendProperties, LenProperties DEF MsgEnQ
    <3>2. \A k \in 1 .. Len(q) : q[k].sender # p /\ Pending(q[k].sender, s)
      BY <1>1, <1>3 DEF ServerOK, Pending
    <3>3. \A k \in 1 .. Len(r) : r[k].sender = p \/ \E j \in 1 .. Len(q) : r[k] = q[j]
      <4> HIDE DEF q, r
      <4>1. CASE r = q
        BY <4>1
      <4>2. CASE /\ Len(r) = Len(q) + 1 /\ r[Len(q) + 1] = m
                 /\ \A k \in 1 .. Len(q) : r[k] = q[k]
        <5>1. \A k \in 1 .. Len(r) : k \in 1 .. Len(q) \/ k = Len(q) + 1
          BY <3>1, <4>2
        <5> QED
          BY <1>5, <4>2, <5>1
      <4> QED
        BY <3>1, <4>1, <4>2
    <3>4. \A o : Pending(o, s) => o \in PID \ {p, s}
      BY <1>1 DEF Pending
    <3>5. ASSUME NEW k \in 1 .. Len(r), NEW o, o = r[k].sender PROVE Pending(o, s)'
      BY <2>3, <2>4, <3>2, <3>3, <3>4, <3>5
    <3>6. \A k \in 1 .. Len(r) : Pending(mbox[s][k].sender, s)'
      BY <3>5 DEF Pending
    <3>7. \A k, j \in 1 .. Len(r) : r[k].sender = r[j].sender => k = j
      <4>1. \A k, j \in 1 .. Len(q) : q[k].sender = q[j].sender => k = j
        BY <1>3 DEF ServerOK
      <4> HIDE DEF q, r
      <4>2. CASE r = q
        BY <4>1, <4>2
      <4>3. CASE /\ Len(r) = Len(q) + 1 /\ r[Len(q) + 1] = m
                 /\ \A k \in 1 .. Len(q) : r[k] = q[k]
        <5>1. \A k \in 1 .. Len(r) : k \in 1 .. Len(q) \/ k = Len(q) + 1
          BY <3>1, <4>3
        <5>2. \A k \in 1 .. Len(q) : r[k].sender # p /\ r[k].sender = q[k].sender
          BY <3>2, <4>3
        <5>3. r[Len(q) + 1].sender = p
          BY <1>5, <4>3
        <5> QED
          BY <4>1, <5>1, <5>2, <5>3
      <4> QED
        BY <3>1, <4>2, <4>3
    <3>8. ASSUME Works(s)
          PROVE  /\ Pending(buf[s].sender, s)'
                 /\ \A k \in 1 .. Len(r) : r[k].sender # buf[s].sender
      <4>1. /\ Pending(buf[s].sender, s)
            /\ \A k \in 1 .. Len(q) : q[k].sender # buf[s].sender
        BY <1>3, <3>8 DEF ServerOK
      <4>2. buf[s].sender \in PID \ {p, s}
        BY <3>4, <4>1
      <4>3. PICK o \in PID : o = buf[s].sender
        BY <4>2
      <4>4. Pending(o, s)'
        BY <2>3, <4>1, <4>2, <4>3
      <4>5. Pending(buf[s].sender, s)'
        BY <2>1, <4>3, <4>4 DEF Pending
      <4> QED
        BY <3>3, <4>1, <4>2, <4>5
    <3> QED
      BY <1>1, <1>3, <2>1, <3>6, <3>7, <3>8 DEF ServerOK, Works
  <2> QED
    BY <1>1, <1>6, <2>3, <2>5, <2>6 DEF MailOK
<1>8. CASE HandOff(s, m)
  <2>1. /\ state[s] = "WAIT" /\ mbox_wait_q[s] # <<>>
        /\ state'[s] \in Runnable
        /\ \A o \in PID \ {s} : state'[o] = state[o] /\ mbox_wait_q'[o] = mbox_wait_q[o]
        /\ buf' = [buf EXCEPT ![s] = m] /\ mbox' = mbox
    BY <1>1, <1>8, HandOffEffect
  <2>2. mbox[s] = <<>>
    <3>1. Range(mbox_wait_q[s]) = {s}
      BY <1>1, <2>1, MboxWaiters DEF Places
    <3>2. OnMbox(s) # {}
      BY <3>1 DEF OnMbox
    <3> QED
      BY <1>1, <3>2 DEF NobodyWaitsOnMail
  <2>3. /\ buf'[s] = m /\ state'[s] # "WAIT"
        /\ \A o \in PID \ {s} : buf'[o] = buf[o]
    BY <1>1, <1>5, <2>1 DEF Runnable
  <2>4. /\ \A t \in Servers \ {p, s} : ServerOK(t)'
        /\ \A o \in PID \ (Servers \cup {p, s}) : ClientOK(o)'
    <3>1. \A t \in Servers, o \in PID \cap {p, s} : ~ Pending(o, t)
      BY <1>1 DEF Pending
    <3>2. \A o \in PID \ {p, s} : Untouched(o)
      BY <2>1, <2>3 DEF Untouched
    <3> QED
      BY <3>1, <3>2, OthersKept
  <2>5. Pending(p, s)'
    BY <1>1, <1>2, <2>1 DEF Pending, Awaiting
  <2>6. ClientOK(p)'
    <3>1. mbox'[p] = <<>> /\ state'[p] # "WAIT"
      BY <1>1, <1>2, <2>1
    <3>2. ~ Returned(p)'
      BY DEF Returned, Upcoming, First
    <3> QED
      BY <3>1, <3>2 DEF ClientOK
  <2>7. ServerOK(s)'
    <3>1. Len(mbox'[s]) = 0
      BY <2>1, <2>2
    <3>2. Pending(buf[s].sender, s)'
      BY <1>5, <2>3, <2>5 DEF Pending
    <3> QED
      BY <1>1, <1>3, <2>3, <3>1, <3>2 DEF ServerOK
  <2> QED
    BY <1>1, <1>6, <2>4, <2>6, <2>7 DEF MailOK
<1> QED
  BY <1>4, <1>7, <1>8

LEMMA OneMessage ==
  ASSUME NEW q \in Seq(Message), Len(q) = 1
  PROVE  Head(q) = q[1] /\ Tail(q) = <<>>
<1>1. q # <<>>
  BY EmptySeq
<1>2. Head(q) = q[1]
  BY <1>1, HeadTailProperties
<1>3. Tail(q) \in Seq(Message) /\ Len(Tail(q)) = 0
  BY <1>1, HeadTailProperties
<1>4. Tail(q) = <<>>
  BY <1>3, EmptySeq
<1> QED
  BY <1>2, <1>4

LEMMA MailRest ==
  ASSUME NEW q \in Seq(Message), q # <<>>, NEW r, r = Tail(q)
  PROVE  /\ Len(q) \in Nat /\ Len(q) # 0 /\ Head(q) = q[1]
         /\ Len(r) = Len(q) - 1 /\ \A k \in 1 .. Len(q) - 1 : r[k] = q[k+1]
<1>1. Len(q) \in Nat
  BY LenProperties
<1>2. Len(q) # 0
  BY EmptySeq
<1>3. Head(q) = q[1] /\ Tail(q) \in Seq(Message) /\ Len(Tail(q)) = Len(q) - 1
  BY HeadTailProperties
<1>4. \A k \in 1 .. Len(q) - 1 : Tail(q)[k] = q[k+1]
  BY <1>3, HeadTailProperties
<1> QED
  BY <1>1, <1>2, <1>3, <1>4

LEMMA ReceiveKeepsMail ==
  ASSUME Places, DataOK, MailOK, NEW p \in PID \ Servers, p = run_pid,
         MsgRcvISR, Upcoming(p, "MsgRcv"), ~ Upcoming(p, "MsgRcv")',
         p >= NSYS => todo'[p] # <<>>,
         \A o \in PID \ {p} : todo'[o] = todo[o],
         \A o \in PID : asked'[o] = asked[o]
  PROVE  MailOK'
<1>1. state[p] = "RUN" /\ p \in PID /\ ClientOK(p)
  BY RunningIsInNoQueue DEF MailOK
<1>2. /\ mbox \in [PID -> Seq(Message)] /\ buf \in [PID -> Message \cup {NoMessage}]
  BY DEF DataOK
<1>3. sem_wait_q' = sem_wait_q /\ MakesCall("MsgRcv") /\ (Receive(p) \/ AwaitMail(p))
  BY DEF MsgRcvISR, semVars
<1>4. CASE Receive(p)
  <2>1. /\ mbox[p] # <<>> /\ state' = state /\ mbox_wait_q' = mbox_wait_q
        /\ buf' = [buf EXCEPT ![p] = Head(mbox[p])]
        /\ mbox' = [mbox EXCEPT ![p] = Tail(@)]
    BY <1>4 DEF Receive, procVars
  <2>2. Len(mbox[p]) = 1 /\ mbox[p][1].sender = asked[p]
    BY <1>1, <2>1 DEF ClientOK
  <2>3. Head(mbox[p]) = mbox[p][1] /\ Tail(mbox[p]) = <<>>
    <3> DEFINE q == mbox[p]
    <3>1. q \in Seq(Message) /\ q # <<>> /\ Len(q) = 1
      BY <1>1, <1>2, <2>1, <2>2
    <3> HIDE DEF q
    <3>2. Head(q) = q[1] /\ Tail(q) = <<>>
      BY <3>1, OneMessage
    <3> QED
      BY <3>2 DEF q
  <2>4. /\ buf'[p].sender = asked[p] /\ mbox'[p] = <<>>
        /\ \A o \in PID \ {p} : buf'[o] = buf[o] /\ mbox'[o] = mbox[o]
    BY <1>1, <1>2, <2>1, <2>2, <2>3
  <2>5. /\ \A s \in Servers \ {p} : ServerOK(s)'
        /\ \A o \in PID \ (Servers \cup {p}) : ClientOK(o)'
    <3>1. \A s \in Servers, o \in PID \cap {p} : ~ Pending(o, s)
      BY <2>1 DEF Pending
    <3>2. \A o \in PID \ {p} : Untouched(o)
      BY <2>1, <2>4 DEF Untouched
    <3> QED
      BY <3>1, <3>2, OthersKept
  <2>6. ClientOK(p)'
    BY <1>1, <2>1, <2>4 DEF ClientOK
  <2> QED
    BY <1>3, <2>5, <2>6 DEF MailOK
<1>5. CASE AwaitMail(p)
  <2>1. /\ state'[p] = "WAIT"
        /\ \A o \in PID \ {p} : Comes(o, state[o]) /\ mbox_wait_q'[o] = mbox_wait_q[o]
        /\ mbox[p] = <<>> /\ mbox' = mbox /\ buf' = buf
    BY <1>3, <1>5, AwaitEffect
  <2>2. \A s \in Servers : Pending(p, s) => Pending(p, s)'
    BY <2>1 DEF Pending, Awaiting
  <2>3. \A o \in PID \ {p} : Untouched(o)
    BY <2>1 DEF Untouched, Comes, Runnable
  <2>4. /\ \A s \in Servers \ {p} : ServerOK(s)'
        /\ \A o \in PID \ (Servers \cup {p}) : ClientOK(o)'
    <3>1. \A s \in Servers \ {p}, o \in PID \cap {p} : Pending(o, s) => Pending(o, s)'
      BY <2>2
    <3> QED
      BY <2>3, <3>1, OthersKept
  <2>5. ~ Returned(p)'
    BY <2>1 DEF Returned
  <2>6. ClientOK(p)'
    BY <2>1, <2>5 DEF ClientOK
  <2> QED
    BY <1>3, <2>4, <2>6 DEF MailOK
<1> QED
  BY <1>3, <1>4, <1>5

LEMMA ServerReceives ==
  ASSUME Places, DataOK, MailOK, NEW s \in Servers, s = run_pid,
         MsgRcvISR, todo[s] = <<>>, todo'[s] # <<>>,
         \A o \in PID \ {s} : todo'[o] = todo[o],
         \A o \in PID : asked'[o] = asked[o]
  PROVE  MailOK'
<1>1. state[s] = "RUN" /\ s \in PID /\ ServerOK(s)
  BY RunningIsInNoQueue, Kinds DEF MailOK
<1>2. /\ mbox \in [PID -> Seq(Message)] /\ buf \in [PID -> Message \cup {NoMessage}]
  BY DEF DataOK
<1>3. sem_wait_q' = sem_wait_q /\ MakesCall("MsgRcv") /\ (Receive(s) \/ AwaitMail(s))
  BY DEF MsgRcvISR, semVars
<1>4. \A t \in Servers, o \in PID \cap {s} : ~ Pending(o, t)
  BY DEF Pending
<1>5. CASE Receive(s)
  <2> DEFINE q == mbox[s]
             r == mbox'[s]
  <2>1. /\ q # <<>> /\ state' = state /\ mbox_wait_q' = mbox_wait_q
        /\ buf' = [buf EXCEPT ![s] = Head(mbox[s])]
        /\ mbox' = [mbox EXCEPT ![s] = Tail(@)]
    BY <1>5 DEF Receive, procVars
  <2>2. q \in Seq(Message) /\ r = Tail(q) /\ buf'[s] = Head(q)
    BY <1>1, <1>2, <2>1
  <2>3. /\ Len(q) \in Nat /\ Len(q) # 0 /\ Head(q) = q[1]
        /\ Len(r) = Len(q) - 1 /\ \A k \in 1 .. Len(q) - 1 : r[k] = q[k+1]
    <3> HIDE DEF q, r
    <3> QED
      BY <2>1, <2>2, MailRest
  <2>4. \A o \in PID \ {s} : Untouched(o)
    BY <1>2, <2>1 DEF Untouched
  <2>5. /\ \A t \in Servers, o \in PID \ {s} : Pending(o, t) => Pending(o, t)'
        /\ \A t \in Servers \ {s} : ServerOK(t)'
        /\ \A o \in PID \ (Servers \cup {s}) : ClientOK(o)'
    BY <1>4, <2>4, OthersKept
  <2>6. \A o : Pending(o, s) => o \in PID \ {s}
    BY DEF Pending
  <2>7. ServerOK(s)'
    <3>1. ASSUME NEW k \in 1 .. Len(r)
          PROVE  /\ Pending(mbox[s][k].sender, s)'
                 /\ r[k].sender # q[1].sender
      <4>1. /\ r[k] = q[k+1] /\ k + 1 \in 1 .. Len(q)
            /\ k + 1 # 1 /\ 1 \in 1 .. Len(q)
        BY <2>3
      <4>2. Pending(q[k+1].sender, s) /\ q[k+1].sender # q[1].sender
        BY <1>1, <4>1 DEF ServerOK
      <4>3. PICK o \in PID \ {s} : o = r[k].sender
        BY <2>6, <4>1, <4>2
      <4>4. Pending(o, s)'
        BY <2>5, <4>1, <4>2, <4>3
      <4>5. Pending(mbox[s][k].sender, s)'
        BY <4>3, <4>4 DEF Pending
      <4> QED
        BY <4>1, <4>2, <4>5
    <3>2. Pending(buf[s].sender, s)'
      <4>1. Pending(q[1].sender, s)
        <5>1. 1 \in 1 .. Len(q)
          BY <2>3
        <5> QED
          BY <1>1, <5>1 DEF ServerOK
      <4>2. PICK o \in PID \ {s} : o = q[1].sender
        BY <2>6, <4>1
      <4>3. Pending(o, s)'
        BY <2>5, <4>1, <4>2
      <4> QED
        BY <2>2, <2>3, <4>2, <4>3 DEF Pending
    <3>3. \A k, j \in 1 .. Len(r) : r[k].sender = r[j].sender => k = j
      <4>1. \A k, j \in 1 .. Len(q) : q[k].sender = q[j].sender => k = j
        BY <1>1 DEF ServerOK
      <4> HIDE DEF q, r
      <4>2. \A k \in 1 .. Len(r) : r[k] = q[k+1] /\ k + 1 \in 1 .. Len(q)
        BY <2>3
      <4>3. \A k, j \in 1 .. Len(r) : k + 1 = j + 1 => k = j
        OBVIOUS
      <4> QED
        BY <4>1, <4>2, <4>3
    <3>4. asked'[s] = NONE
      BY <1>1 DEF ServerOK
    <3>5. buf'[s].sender = q[1].sender
      BY <2>2, <2>3
    <3>6. \A k \in 1 .. Len(r) : r[k].sender # buf'[s].sender
      BY <3>1, <3>5
    <3>7. \A k \in 1 .. Len(r) : Pending(mbox[s][k].sender, s)'
      BY <3>1
    <3> QED
      BY <3>2, <3>3, <3>4, <3>6, <3>7 DEF ServerOK
  <2> QED
    BY <1>1, <1>3, <2>5, <2>7 DEF MailOK
<1>6. CASE AwaitMail(s)
  <2>1. /\ mbox_wait_q'[s] # <<>>
        /\ \A o \in PID \ {s} : Comes(o, state[o]) /\ mbox_wait_q'[o] = mbox_wait_q[o]
        /\ mbox[s] = <<>> /\ mbox' = mbox /\ buf' = buf
    BY <1>3, <1>6, AwaitEffect
  <2>2. \A o \in PID \ {s} : Untouched(o)
    BY <2>1 DEF Untouched, Comes, Runnable
  <2>3. /\ \A t \in Servers \ {s} : ServerOK(t)'
        /\ \A o \in PID \ (Servers \cup {s}) : ClientOK(o)'
    BY <1>4, <2>2, OthersKept
  <2>4. ServerOK(s)'
    BY <1>1, <2>1 DEF ServerOK, Works
  <2> QED
    BY <1>1, <1>3, <2>3, <2>4 DEF MailOK
<1> QED
  BY <1>3, <1>5, <1>6

\* A client waits on no semaphore.
LEMMA WaitsForMail ==
  ASSUME Places, MailOK, NEW p \in PID \ Servers, state[p] = "WAIT"
  PROVE  mbox_wait_q[p] # <<>>
<1>1. WaitOK(semaphore_q, sem_wait_q, mbox_wait_q, state)
  BY DEF Places
<1>2. \/ \E s \in SEM : p \in Range(sem_wait_q[s])
      \/ \E x \in PID : p \in Range(mbox_wait_q[x])
  BY <1>1 DEF WaitOK
<1>3. \A s \in SEM : p \notin Range(sem_wait_q[s])
  BY DEF MailOK
<1>4. PICK x \in PID : p \in Range(mbox_wait_q[x])
  BY <1>2, <1>3
<1>5. mbox_wait_q[x] = <<>> => Range(mbox_wait_q[x]) = {}
  BY <1>1, MboxWaiters
<1>6. mbox_wait_q[x] # <<>> => Range(mbox_wait_q[x]) = {x}
  BY <1>1, MboxWaiters
<1>7. mbox_wait_q[x] # <<>> /\ x = p
  BY <1>4, <1>5, <1>6
<1> QED
  BY <1>7

\* A running server has a request unless it has no plan.
LEMMA RunningWorks ==
  ASSUME Places, NEW s \in Servers, s = run_pid, todo[s] # <<>>
  PROVE  Works(s)
<1>1. s \in PID /\ s \notin Range(mbox_wait_q[s])
  BY Kinds, RunningIsInNoQueue
<1>2. WaitOK(semaphore_q, sem_wait_q, mbox_wait_q, state)
  BY DEF Places
<1>3. mbox_wait_q[s] # <<>> => Range(mbox_wait_q[s]) = {s}
  BY <1>1, <1>2, MboxWaiters
<1> QED
  BY <1>1, <1>3 DEF Works

\* A server goes to wait for a line, or is woken: it keeps its request.
LEMMA LineKeepsMail ==
  ASSUME MailOK, NEW s \in Servers, todo[s] # <<>> \/ todo'[s] = todo[s],
         \A o \in PID \ {s} : todo'[o] = todo[o],
         \A o \in PID : asked'[o] = asked[o],
         \A o \in PID \ {s} : state'[o] = "WAIT" <=> state[o] = "WAIT",
         \A t \in SEM : Range(sem_wait_q'[t]) \subseteq Servers,
         UNCHANGED <<mbox, mbox_wait_q, buf>>
  PROVE  MailOK'
<1>1. s \in PID /\ ServerOK(s)
  BY Kinds DEF MailOK
<1>2. /\ \A t \in Servers, o \in PID \ {s} : Pending(o, t) => Pending(o, t)'
      /\ \A t \in Servers \ {s} : ServerOK(t)'
      /\ \A o \in PID \ (Servers \cup {s}) : ClientOK(o)'
  <2>1. \A t \in Servers, o \in PID \cap {s} : ~ Pending(o, t)
    BY DEF Pending
  <2>2. \A o \in PID \ {s} : Untouched(o)
    BY DEF Untouched
  <2> QED
    BY <2>1, <2>2, OthersKept
<1>3. ASSUME NEW m, Pending(m.sender, s) PROVE Pending(m.sender, s)'
  <2>1. PICK o \in PID \ {s} : o = m.sender
    BY <1>3 DEF Pending
  <2>2. Pending(o, s)'
    BY <1>2, <1>3, <2>1
  <2> QED
    BY <2>1, <2>2 DEF Pending
<1>4. \A i \in 1 .. Len(mbox[s]) : Pending(mbox[s][i].sender, s)'
  BY <1>1, <1>3 DEF ServerOK
<1>5. Works(s)' => Works(s)
  BY DEF Works
<1>6. Works(s)' => Pending(buf[s].sender, s)'
  BY <1>1, <1>3, <1>5 DEF ServerOK
<1>7. ServerOK(s)'
  BY <1>1, <1>4, <1>5, <1>6 DEF ServerOK, Pending, Awaiting, Upcoming
<1> QED
  BY <1>2, <1>7 DEF MailOK

LEMMA AnswerKeepsMail ==
  ASSUME Places, DataOK, MailOK, NEW s \in Servers, s = run_pid,
         NEW d \in Data, NEW c, c = buf[s].sender, MsgSndISR(c, d),
         todo[s] # <<>>, todo'[s] = <<>>,
         \A o \in PID \ {s} : todo'[o] = todo[o],
         \A o \in PID : asked'[o] = asked[o]
  PROVE  MailOK'
<1> DEFINE m == [sender |-> s, data |-> d]
<1>1. state[s] = "RUN" /\ s \in PID /\ ServerOK(s)
  BY RunningIsInNoQueue, Kinds DEF MailOK
<1>2. /\ mbox \in [PID -> Seq(Message)] /\ buf \in [PID -> Message \cup {NoMessage}]
  BY DEF DataOK
<1>3. /\ Pending(c, s)
      /\ \A k \in 1 .. Len(mbox[s]) : mbox[s][k].sender # c
  BY <1>1, RunningWorks DEF ServerOK
<1>4. /\ c \in PID \ Servers /\ asked[c] = s /\ mbox[c] = <<>> /\ Awaiting(c)
      /\ c # s /\ ClientOK(c)
  BY <1>3 DEF Pending, MailOK
<1>5. sem_wait_q' = sem_wait_q /\ (Enqueue(c, m) \/ HandOff(c, m)) /\ m.sender = s
  BY DEF MsgSndISR, semVars
<1> HIDE DEF m
<1>6. \A t \in Servers \ {s, c}, o \in PID \cap {s, c} : ~ Pending(o, t)
  BY <1>4 DEF Pending
<1>7. ASSUME \A o \in PID \ {s, c} : Untouched(o), mbox'[s] = mbox[s]
      PROVE  /\ \A t \in Servers : ServerOK(t)'
             /\ \A o \in PID \ (Servers \cup {c}) : ClientOK(o)'
  <2>1. /\ \A t \in Servers, o \in PID \ {s, c} : Pending(o, t) => Pending(o, t)'
        /\ \A t \in Servers \ {s, c} : ServerOK(t)'
        /\ \A o \in PID \ (Servers \cup {s, c}) : ClientOK(o)'
    BY <1>6, <1>7, OthersKept
  <2>2. ASSUME NEW k \in 1 .. Len(mbox[s]) PROVE Pending(mbox[s][k].sender, s)'
    <3>1. Pending(mbox[s][k].sender, s) /\ mbox[s][k].sender # c
      BY <1>1, <1>3 DEF ServerOK
    <3>2. PICK o \in PID \ {s, c} : o = mbox[s][k].sender
      BY <3>1 DEF Pending
    <3>3. Pending(o, s)'
      BY <2>1, <3>1, <3>2
    <3> QED
      BY <1>7, <3>2, <3>3 DEF Pending
  <2>3. ServerOK(s)'
    BY <1>1, <1>7, <2>2 DEF ServerOK, Works
  <2> QED
    BY <1>4, <2>1, <2>3
<1>8. CASE Enqueue(c, m)
  <2>1. /\ mbox_wait_q[c] = <<>>
        /\ mbox' = [mbox EXCEPT ![c] = MsgEnQ(m, @)]
        /\ state' = state /\ buf' = buf /\ mbox_wait_q' = mbox_wait_q
    BY <1>8 DEF Enqueue, procVars
  <2>2. state[c] # "WAIT" /\ Upcoming(c, "MsgRcv")
    BY <1>4, <2>1, WaitsForMail DEF Awaiting
  <2>3. /\ mbox'[c] = <<m>>
        /\ \A o \in PID \ {c} : mbox'[o] = mbox[o]
    <3>1. MsgEnQ(m, <<>>) = <<m>>
      BY MailboxAssumption DEF MsgEnQ
    <3> QED
      BY <1>2, <1>4, <2>1, <3>1
  <2>4. \A o \in PID \ {s, c} : Untouched(o)
    BY <2>1, <2>3 DEF Untouched
  <2>5. ClientOK(c)'
    <3>1. todo'[c] = todo[c] /\ asked'[c] = s
      BY <1>4
    <3>2. Upcoming(c, "MsgRcv")' /\ todo'[c] # <<>> /\ ~ Returned(c)'
      BY <2>2, <3>1 DEF Upcoming, First, Returned
    <3>3. Len(mbox'[c]) = 1 /\ mbox'[c][1].sender = s
      BY <1>5, <2>3
    <3> QED
      BY <2>1, <2>2, <3>1, <3>2, <3>3 DEF ClientOK
  <2> QED
    BY <1>1, <1>4, <1>5, <1>7, <2>1, <2>3, <2>4, <2>5 DEF MailOK
<1>9. CASE HandOff(c, m)
  <2>1. /\ state[c] = "WAIT" /\ state'[c] \in Runnable
        /\ \A o \in PID \ {c} : state'[o] = state[o] /\ mbox_wait_q'[o] = mbox_wait_q[o]
        /\ buf' = [buf EXCEPT ![c] = m] /\ mbox' = mbox
    BY <1>4, <1>9, HandOffEffect
  <2>2. buf'[c] = m /\ \A o \in PID \ {c} : buf'[o] = buf[o]
    BY <1>2, <1>4, <2>1
  <2>3. \A o \in PID \ {s, c} : Untouched(o)
    BY <2>1, <2>2 DEF Untouched
  <2>4. ClientOK(c)'
    <3>1. todo'[c] = todo[c] /\ asked'[c] = s /\ asked[c] = s
      BY <1>4
    <3>2. state'[c] # "WAIT" /\ mbox'[c] = <<>> /\ buf'[c].sender = s
      BY <1>4, <1>5, <2>1, <2>2 DEF Runnable
    <3> QED
      BY <1>4, <3>1, <3>2 DEF ClientOK
  <2> QED
    BY <1>1, <1>4, <1>5, <1>7, <2>1, <2>3, <2>4 DEF MailOK
<1> QED
  BY <1>5, <1>8, <1>9

LEMMA ForkKeepsMail ==
  ASSUME Places, DataOK, MailOK, SHELL = run_pid, ForkISR,
         ~ Upcoming(SHELL, "MsgRcv"), ~ Upcoming(SHELL, "MsgRcv")',
         NEW c \in PID, c = Head(unused_q), c >= NSYS, todo[c] = <<>>,
         todo'[c] # <<>>, ~ Upcoming(c, "MsgRcv")',
         \A o \in PID \ {SHELL, c} : todo'[o] = todo[o],
         \A o \in PID : asked'[o] = asked[o]
  PROVE  MailOK'
<1> DEFINE A == {SHELL, c}
<1>1. /\ state[c] = "UNUSED" /\ state'[c] = "READY"
      /\ \A o \in PID \ {c} : state'[o] = state[o] /\ mbox_wait_q'[o] = mbox_wait_q[o]
      /\ mbox' = [mbox EXCEPT ![c] = <<>>]
      /\ buf' = buf /\ sem_wait_q' = sem_wait_q
  BY ForkEffect DEF semVars
<1>2. state[SHELL] = "RUN" /\ SHELL \in PID \ Servers /\ ~ SHELL >= NSYS
      /\ c \in PID \ Servers /\ c # SHELL
  <2>1. state[SHELL] = "RUN" /\ SHELL \in PID \ Servers
    BY RunningIsInNoQueue, Kinds
  <2>2. ~ SHELL >= NSYS
    BY Kinds DEF SHELL
  <2>3. c \notin Servers
    BY Kinds
  <2> QED
    BY <2>1, <2>2, <2>3
<1>3. ClientOK(SHELL) /\ ClientOK(c)
  BY <1>2 DEF MailOK
<1>4. mbox'[c] = <<>> /\ \A o \in PID \ {c} : mbox'[o] = mbox[o]
  BY <1>1 DEF DataOK
<1>5. /\ \A s \in Servers \ A : ServerOK(s)'
      /\ \A o \in PID \ (Servers \cup A) : ClientOK(o)'
  <2>1. ~ Awaiting(SHELL) /\ ~ Awaiting(c)
    BY <1>1, <1>2 DEF Awaiting, Upcoming, First
  <2>2. \A s \in Servers, o \in PID \cap A : ~ Pending(o, s)
    BY <2>1 DEF Pending
  <2>3. \A o \in PID \ A : Untouched(o)
    BY <1>1, <1>4 DEF Untouched
  <2> QED
    BY <2>2, <2>3, OthersKept
<1>6. ClientOK(SHELL)'
  <2>1. mbox'[SHELL] = <<>> /\ state'[SHELL] = "RUN" /\ asked'[SHELL] = asked[SHELL]
    BY <1>1, <1>2, <1>3, <1>4 DEF ClientOK
  <2>2. asked[SHELL] # NONE => buf[SHELL].sender = asked[SHELL]
    BY <1>2, <1>3 DEF ClientOK, Returned, Upcoming, First
  <2> QED
    BY <1>1, <1>2, <2>1, <2>2 DEF ClientOK, Returned
<1>7. ClientOK(c)'
  <2>1. asked'[c] = NONE
    BY <1>3 DEF ClientOK
  <2> QED
    BY <1>1, <1>4, <2>1 DEF ClientOK, Returned
<1> QED
  BY <1>1, <1>2, <1>5, <1>6, <1>7 DEF MailOK

LEMMA TimerKeepsMail ==
  ASSUME Places, DataOK, MailOK, TimerIntr, UNCHANGED progVars
  PROVE  MailOK'
<1>1. \A p \in PID : state'[p] = "WAIT" <=> state[p] = "WAIT"
  BY TimerEffect DEF Comes, Runnable
<1>2. UNCHANGED <<mbox, mbox_wait_q, buf, sem_wait_q, todo, asked>>
  BY DEF TimerIntr, semVars, mailVars, progVars
<1>3. \A p \in PID \ {} : Untouched(p)
  BY <1>1, <1>2 DEF Untouched
<1>4. \A s \in Servers \ {}, p \in PID \cap {} : Pending(p, s) => Pending(p, s)'
  OBVIOUS
<1>5. /\ \A s \in Servers \ {} : ServerOK(s)'
      /\ \A p \in PID \ (Servers \cup {}) : ClientOK(p)'
  BY <1>3, <1>4, OthersKept
<1> QED
  BY <1>2, <1>5 DEF MailOK
----------------------------------------------------------------------------
InUse(p) == p >= NSYS /\ state[p] # "UNUSED"

\* The shell has not come back from the Wait after its Fork.
ToWait == Upcoming(SHELL, "Wait") \/ state[SHELL] = "WAIT4CHILD"

\* One forked process at a time, the child of the shell that waits for it.
ChildOK ==
  /\ \A p \in PID : p < NSYS => state[p] \notin {"UNUSED", "ZOMBIE"}
  /\ \A p \in PID : p >= NSYS => (state[p] \in {"UNUSED", "ZOMBIE"} <=> todo[p] = <<>>)
  /\ \A p \in PID : InUse(p) => p = child /\ ppid[p] = SHELL /\ ToWait /\ PagesOf(p) # {}
  /\ child # NONE => IF ToWait THEN InUse(child) ELSE reported[SHELL] = child
  /\ "Fork" \in Uses(todo[SHELL]) => child = NONE
  /\ state[SHELL] = "WAIT4CHILD" => ~ Upcoming(SHELL, "Wait")

\* A step that neither starts nor ends a process, nor waits for one.
SameLife(p) ==
  /\ state'[p] = "UNUSED" <=> state[p] = "UNUSED"
  /\ state'[p] = "ZOMBIE" <=> state[p] = "ZOMBIE"
  /\ state'[p] = "WAIT4CHILD" <=> state[p] = "WAIT4CHILD"

LEMMA Alive ==
  ASSUME NEW p,
         \/ Comes(p, state[p])
         \/ state'[p] = state[p]
         \/ {state[p], state'[p]} \subseteq {"RUN", "SLEEP", "WAIT", "READY"}
  PROVE  SameLife(p)
<1>1. CASE state'[p] = state[p]
  BY <1>1 DEF SameLife
<1>2. CASE {state[p], state'[p]} \subseteq {"RUN", "SLEEP", "WAIT", "READY"}
  BY <1>2 DEF SameLife
<1> QED
  BY <1>1, <1>2 DEF Comes, Runnable

LEMMA ChildUntouched ==
  ASSUME ChildOK, child \in PID \cup {NONE},
         \A p \in PID : SameLife(p),
         \A p \in PID : p >= NSYS => (todo'[p] = <<>> <=> todo[p] = <<>>),
         Upcoming(SHELL, "Wait")' <=> Upcoming(SHELL, "Wait"),
         child' = child \/ (child' = NONE /\ ~ ToWait),
         "Fork" \in Uses(todo'[SHELL]) => "Fork" \in Uses(todo[SHELL]) \/ child' = NONE,
         UNCHANGED <<ppid, page_pid, reported>>
  PROVE  ChildOK'
<1>1. SHELL \in PID
  BY Kinds
<1>2. \A p \in PID : InUse(p)' <=> InUse(p)
  BY DEF InUse, SameLife
<1>3. ToWait' <=> ToWait
  BY <1>1 DEF ToWait, SameLife
<1>4. \A p \in PID : PagesOf(p)' = PagesOf(p)
  BY DEF PagesOf
<1>5. \A p \in PID : p < NSYS => state'[p] \notin {"UNUSED", "ZOMBIE"}
  BY DEF ChildOK, SameLife
<1>6. \A p \in PID : p >= NSYS => (state'[p] \in {"UNUSED", "ZOMBIE"} <=> todo'[p] = <<>>)
  BY DEF ChildOK, SameLife
<1>7. \A p \in PID : InUse(p)' => p = child' /\ ppid'[p] = SHELL /\ ToWait' /\ PagesOf(p)' # {}
  BY <1>2, <1>3, <1>4 DEF ChildOK
<1>8. child' # NONE => IF ToWait' THEN InUse(child)' ELSE reported'[SHELL] = child'
  BY <1>2, <1>3 DEF ChildOK, InUse, SameLife
<1>9. state'[SHELL] = "WAIT4CHILD" => ~ Upcoming(SHELL, "Wait")'
  BY <1>1 DEF ChildOK, SameLife
<1>10. "Fork" \in Uses(todo'[SHELL]) => child' = NONE
  BY DEF ChildOK
<1> QED
  BY <1>5, <1>6, <1>7, <1>8, <1>9, <1>10 DEF ChildOK

\* Fork finds pages for the child.
LEMMA ChildHasPages ==
  ASSUME DataOK, ForkISR, NEW c \in PID, c = Head(unused_q)
  PROVE  PagesOf(c)' # {}
<1> DEFINE pages == FirstPages(FreePages, PAGES)
           k == Min(FreePages)
<1>1. /\ Cardinality(FreePages) >= PAGES
      /\ page_pid' = [j \in Page |-> IF j \in pages THEN c ELSE page_pid[j]]
  BY DEF ForkISR
<1>2. FreePages # {}
  BY <1>1, PagesAssumption, FS_EmptySet
<1>3. k \in FreePages /\ k \in Page /\ \A j \in FreePages : k <= j
  <2>1. FreePages \in SUBSET Int /\ IsFiniteSet(FreePages) /\ FreePages \subseteq Page
    <3>1. IsFiniteSet(Page) /\ Page \subseteq Int
      BY NPagesType, FS_Interval DEF Page
    <3> QED
      BY <3>1, FS_Subset DEF FreePages
  <2> QED
    BY <1>2, <2>1, MinFacts
<1> HIDE DEF k
<1>4. {j \in FreePages : j < k} = {}
  BY <1>3, NPagesType DEF FreePages, Page
<1>5. k \in pages
  <2>1. Cardinality({j \in FreePages : j < k}) = 0
    BY <1>4, FS_EmptySet
  <2> QED
    BY <1>3, <2>1, PagesAssumption DEF FirstPages
<1> HIDE DEF pages
<1>6. page_pid'[k] = c
  BY <1>1, <1>3, <1>5
<1> QED
  BY <1>3, <1>6 DEF PagesOf

LEMMA ForkKeepsChild ==
  ASSUME Places, DataOK, ChildOK, SHELL = run_pid, ForkISR,
         "Fork" \in Uses(todo[SHELL]),
         NEW c \in PID, c = Head(unused_q), child' = c,
         Upcoming(SHELL, "Wait")', "Fork" \notin Uses(todo'[SHELL]),
         todo'[c] # <<>>,
         \A o \in PID \ {SHELL, c} : todo'[o] = todo[o]
  PROVE  ChildOK'
<1>1. /\ state[c] = "UNUSED" /\ state'[c] = "READY"
      /\ \A o \in PID \ {c} : state'[o] = state[o]
      /\ ppid' = [ppid EXCEPT ![c] = SHELL]
  BY ForkEffect
<1>2. c >= NSYS /\ NSYS \in Nat /\ c \in Nat /\ SHELL \in PID /\ SHELL < NSYS /\ ~ SHELL >= NSYS
  <2>1. NSYS \in Nat /\ c \in Nat /\ SHELL \in PID /\ SHELL < NSYS
    BY Kinds
  <2>2. ~ c < NSYS
    BY <1>1 DEF ChildOK
  <2>3. SHELL \in Nat
    BY DEF SHELL
  <2> QED
    BY <2>1, <2>2, <2>3
<1>3. state[SHELL] = "RUN" /\ state'[SHELL] = "RUN" /\ c # SHELL
  BY <1>1, <1>2, RunningIsInNoQueue
<1>4. child = NONE
  BY DEF ChildOK
<1>5. \A p \in PID : ~ InUse(p)
  BY <1>4, Kinds DEF ChildOK
<1>6. \A p \in PID : InUse(p)' => p = c
  BY <1>1, <1>5 DEF InUse
<1>7. PagesOf(c)' # {} /\ ppid'[c] = SHELL /\ InUse(c)' /\ ToWait'
  <2>1. ppid'[c] = SHELL
    BY <1>1 DEF DataOK
  <2> QED
    BY <1>1, <1>2, <2>1, ChildHasPages DEF InUse, ToWait
<1>8. \A p \in PID : p < NSYS => state'[p] \notin {"UNUSED", "ZOMBIE"}
  BY <1>1 DEF ChildOK
<1>9. \A p \in PID : p >= NSYS => (state'[p] \in {"UNUSED", "ZOMBIE"} <=> todo'[p] = <<>>)
  <2>1. ASSUME NEW p \in PID, p >= NSYS
        PROVE  state'[p] \in {"UNUSED", "ZOMBIE"} <=> todo'[p] = <<>>
    <3>1. CASE p = c
      BY <1>1, <3>1
    <3>2. CASE p # c
      <4>1. p # SHELL
        BY <1>2, <2>1
      <4> QED
        BY <1>1, <2>1, <3>2, <4>1 DEF ChildOK
    <3> QED
      BY <3>1, <3>2
  <2> QED
    BY <2>1
<1> QED
  BY <1>3, <1>6, <1>7, <1>8, <1>9 DEF ChildOK

\* Wait, which only the shell calls.
LEMMA WaitKeepsChild ==
  ASSUME Places, DataOK, ChildOK, SHELL = run_pid, WaitISR, child \in PID \cup {NONE},
         Upcoming(SHELL, "Wait"), ~ Upcoming(SHELL, "Wait")',
         \A o \in PID \ {SHELL} : todo'[o] = todo[o], child' = child,
         Uses(todo'[SHELL]) \subseteq Uses(todo[SHELL])
  PROVE  ChildOK' /\ \A p \in PID : state'[p] = "WAIT" <=> state[p] = "WAIT"
<1>1. state[SHELL] = "RUN" /\ SHELL \in PID /\ state \in [PID -> State]
  BY RunningIsInNoQueue
<1>2. \A p \in PID : p >= NSYS => p # SHELL
  <2>1. NSYS \in Nat /\ SHELL < NSYS /\ SHELL \in Nat
    BY Kinds DEF SHELL
  <2> QED
    BY <2>1
<1>3. \A p \in PID : p < NSYS \/ p >= NSYS
  BY Kinds
<1>4. ToWait
  BY DEF ToWait
<1>5. ASSUME NEW p \in ChildrenExited PROVE p \in PID /\ p = child /\ state[p] = "ZOMBIE" /\ InUse(p)
  <2>1. p \in PID /\ state[p] = "ZOMBIE"
    BY DEF ChildrenExited
  <2>2. p >= NSYS
    BY <1>3, <2>1 DEF ChildOK
  <2>3. InUse(p)
    BY <2>1, <2>2 DEF InUse
  <2> QED
    BY <2>1, <2>3 DEF ChildOK
<1>6. ppid' = ppid
  BY WaitEffect
<1>7. CASE /\ ChildrenExited = {}
           /\ state'[SHELL] = "WAIT4CHILD"
           /\ \A o \in PID \ {SHELL} : Comes(o, state[o])
           /\ UNCHANGED <<page_pid, reported>>
  <2>1. \A p \in PID \ {SHELL} : SameLife(p)
    BY <1>7, Alive
  <2>2. \A p \in PID : InUse(p)' <=> InUse(p)
    BY <1>1, <1>7, <2>1 DEF InUse, SameLife
  <2>3. ToWait'
    BY <1>7 DEF ToWait
  <2>4. \A p \in PID : PagesOf(p)' = PagesOf(p)
    BY <1>7 DEF PagesOf
  <2>5. \A p \in PID : p < NSYS => state'[p] \notin {"UNUSED", "ZOMBIE"}
    BY <1>7, <2>1 DEF ChildOK, SameLife
  <2>6. \A p \in PID : p >= NSYS => (state'[p] \in {"UNUSED", "ZOMBIE"} <=> todo'[p] = <<>>)
    BY <1>2, <2>1 DEF ChildOK, SameLife
  <2>7. \A p \in PID : InUse(p)' => p = child' /\ ppid'[p] = SHELL /\ ToWait' /\ PagesOf(p)' # {}
    BY <1>6, <2>2, <2>3, <2>4 DEF ChildOK
  <2>8. child' # NONE => IF ToWait' THEN InUse(child)' ELSE reported'[SHELL] = child'
    <3>1. child # NONE => InUse(child)
      BY <1>4 DEF ChildOK
    <3>2. child # NONE => InUse(child)'
      BY <2>2, <3>1 DEF InUse
    <3> QED
      BY <2>3, <3>2
  <2>9. "Fork" \in Uses(todo'[SHELL]) => child' = NONE
    BY DEF ChildOK
  <2>10. \A p \in PID : state'[p] = "WAIT" <=> state[p] = "WAIT"
    BY <1>1, <1>7 DEF Comes, Runnable
  <2> QED
    BY <2>5, <2>6, <2>7, <2>8, <2>9, <2>10 DEF ChildOK
<1>8. CASE ChildrenExited # {}
  <2> DEFINE c == Min(ChildrenExited)
  <2>1. c \in ChildrenExited
    BY <1>8, PidSets DEF ChildrenExited
  <2> HIDE DEF c
  <2>2. c \in PID /\ c = child /\ state[c] = "ZOMBIE" /\ InUse(c) /\ c # SHELL
    BY <1>1, <1>5, <2>1
  <2>3. ChildrenExited \ {c} = {}
    BY <1>5, <2>2
  <2>4. PagesOf(c) # {}
    BY <2>2 DEF ChildOK
  <2>5. ReapChild /\ state' = [state EXCEPT ![c] = "UNUSED"]
    BY <1>8, <2>4, WaitEffect DEF ReportChildOnly, c
  <2>6. reported'[SHELL] = c
    <3>1. reported' = [reported EXCEPT ![SHELL] = c]
      BY <2>3, <2>5 DEF ReapChild, c
    <3> QED
      BY <1>1, <3>1 DEF DataOK
  <2>7. state'[c] = "UNUSED" /\ \A p \in PID \ {c} : state'[p] = state[p]
    BY <1>1, <2>2, <2>5
  <2>8. ~ ToWait' /\ state'[SHELL] = "RUN"
    BY <1>1, <2>2, <2>7 DEF ToWait
  <2>9. \A p \in PID : ~ InUse(p)'
    <3>1. \A p \in PID : InUse(p) => p = c
      BY <2>2 DEF ChildOK
    <3> QED
      BY <2>7, <3>1 DEF InUse
  <2>10. \A p \in PID : p < NSYS => state'[p] \notin {"UNUSED", "ZOMBIE"}
    <3>1. ~ c < NSYS
      BY <2>2 DEF ChildOK
    <3> QED
      BY <2>7, <3>1 DEF ChildOK
  <2>11. \A p \in PID : p >= NSYS => (state'[p] \in {"UNUSED", "ZOMBIE"} <=> todo'[p] = <<>>)
    BY <1>2, <2>2, <2>7 DEF ChildOK
  <2>12. "Fork" \in Uses(todo'[SHELL]) => child' = NONE
    BY DEF ChildOK
  <2>13. \A p \in PID : state'[p] = "WAIT" <=> state[p] = "WAIT"
    BY <2>2, <2>7
  <2> QED
    BY <2>2, <2>6, <2>8, <2>9, <2>10, <2>11, <2>12, <2>13 DEF ChildOK
<1> QED
  BY <1>7, <1>8, WaitEffect DEF ReapChild, ReportChildOnly

LEMMA ExitKeepsChild ==
  ASSUME Places, DataOK, ChildOK, NEW p \in PID, p = run_pid, p >= NSYS, ExitISR,
         child \in PID \cup {NONE}, todo'[p] = <<>>,
         \A o \in PID \ {p} : todo'[o] = todo[o], child' = child
  PROVE  ChildOK' /\ \A o \in PID : state'[o] = "WAIT" <=> state[o] = "WAIT"
<1>1. state[p] = "RUN" /\ SHELL \in PID /\ state \in [PID -> State]
  BY RunningIsInNoQueue, Kinds
<1>2. p # SHELL
  <2>1. NSYS \in Nat /\ SHELL < NSYS /\ SHELL \in Nat
    BY Kinds DEF SHELL
  <2> QED
    BY <2>1
<1>3. InUse(p) /\ p = child /\ ppid[p] = SHELL /\ ToWait /\ PagesOf(p) # {}
  <2>1. InUse(p)
    BY <1>1 DEF InUse
  <2> QED
    BY <2>1 DEF ChildOK
<1>4. ~ p < NSYS /\ \A o \in PID : InUse(o) => o = p
  <2>1. NSYS \in Nat /\ p \in Nat
    BY Kinds
  <2> QED
    BY <1>3, <2>1 DEF ChildOK
<1>5. /\ todo'[SHELL] = todo[SHELL]
      /\ Upcoming(SHELL, "Wait")' <=> Upcoming(SHELL, "Wait")
      /\ "Fork" \in Uses(todo'[SHELL]) => child' = NONE
  <2>1. todo'[SHELL] = todo[SHELL]
    BY <1>1, <1>2
  <2> QED
    BY <2>1 DEF Upcoming, First, ChildOK
<1>6. ppid' = ppid
  BY ExitEffect
<1>7. ~ RunOnAfterExit
  BY <1>3 DEF RunOnAfterExit
<1>8. CASE /\ state[SHELL] # "WAIT4CHILD"
           /\ state'[p] = "ZOMBIE"
           /\ \A o \in PID \ {p} : Comes(o, state[o])
           /\ UNCHANGED <<page_pid, reported>>
  <2>1. \A o \in PID \ {p} : SameLife(o)
    BY <1>8, Alive
  <2>2. \A o \in PID : InUse(o)' <=> InUse(o)
    BY <1>1, <1>8, <2>1 DEF InUse, SameLife
  <2>3. ToWait' /\ state'[SHELL] # "WAIT4CHILD"
    BY <1>1, <1>2, <1>3, <1>5, <1>8, <2>1 DEF ToWait, SameLife
  <2>4. \A o \in PID : PagesOf(o)' = PagesOf(o)
    BY <1>8 DEF PagesOf
  <2>5. \A o \in PID : o < NSYS => state'[o] \notin {"UNUSED", "ZOMBIE"}
    BY <1>4, <2>1 DEF ChildOK, SameLife
  <2>6. \A o \in PID : o >= NSYS => (state'[o] \in {"UNUSED", "ZOMBIE"} <=> todo'[o] = <<>>)
    BY <1>8, <2>1 DEF ChildOK, SameLife
  <2>7. \A o \in PID : InUse(o)' => o = child' /\ ppid'[o] = SHELL /\ ToWait' /\ PagesOf(o)' # {}
    BY <1>6, <2>2, <2>3, <2>4 DEF ChildOK
  <2>8. InUse(child)'
    BY <1>3, <2>2 DEF InUse
  <2>9. \A o \in PID : state'[o] = "WAIT" <=> state[o] = "WAIT"
    BY <1>1, <1>8 DEF Comes, Runnable
  <2> QED
    BY <1>5, <2>3, <2>5, <2>6, <2>7, <2>8, <2>9 DEF ChildOK
<1>9. CASE /\ state[SHELL] = "WAIT4CHILD"
           /\ state'[p] = "UNUSED" /\ state'[SHELL] \in Runnable
           /\ \A o \in PID \ {p, SHELL} : Comes(o, state[o])
           /\ reported' = [reported EXCEPT ![SHELL] = p]
  <2>1. \A o \in PID \ {p, SHELL} : SameLife(o)
    BY <1>9, Alive
  <2>2. state'[SHELL] \notin {"WAIT4CHILD", "UNUSED", "ZOMBIE", "WAIT"}
    BY <1>9 DEF Runnable
  <2>3. ~ ToWait'
    BY <1>5, <1>9, <2>2 DEF ToWait, ChildOK
  <2>4. \A o \in PID : o >= NSYS => o # SHELL
    <3>1. NSYS \in Nat /\ SHELL < NSYS /\ SHELL \in Nat
      BY Kinds DEF SHELL
    <3> QED
      BY <3>1
  <2>5. \A o \in PID : ~ InUse(o)'
    BY <1>4, <1>9, <2>1, <2>4 DEF InUse, SameLife
  <2>6. \A o \in PID : o < NSYS => state'[o] \notin {"UNUSED", "ZOMBIE"}
    BY <1>4, <2>1, <2>2 DEF ChildOK, SameLife
  <2>7. \A o \in PID : o >= NSYS => (state'[o] \in {"UNUSED", "ZOMBIE"} <=> todo'[o] = <<>>)
    BY <1>9, <2>1, <2>4 DEF ChildOK, SameLife
  <2>8. reported'[SHELL] = child'
    BY <1>1, <1>3, <1>9 DEF DataOK
  <2>9. \A o \in PID : state'[o] = "WAIT" <=> state[o] = "WAIT"
    BY <1>1, <1>9, <2>2 DEF Comes, Runnable
  <2> QED
    BY <1>5, <2>2, <2>3, <2>5, <2>6, <2>7, <2>8, <2>9 DEF ChildOK
<1> QED
  BY <1>3, <1>7, <1>8, <1>9, ExitEffect
----------------------------------------------------------------------------
ProgInv == PlansOK /\ MailOK /\ ChildOK

\* A step of p that starts no process: its plan is now rest, and a is the
\* server it asked last.
MovesOn(p, rest, a) ==
  /\ todo'[p] = rest /\ asked'[p] = a
  /\ \A o \in PID \ {p} : todo'[o] = todo[o] /\ asked'[o] = asked[o]

LEMMA ContinuedPlans ==
  ASSUME PlansOK, NEW p \in PID, p = run_pid, NEW rest, PlanOK(p, rest), Continued(rest),
         NEW a \in Servers \cup {NONE}, asked' = [asked EXCEPT ![p] = a]
  PROVE  /\ PlansOK' /\ MovesOn(p, rest, a)
         /\ p # SHELL \/ todo[SHELL] # <<>> => child' = child
         /\ p = SHELL /\ todo[SHELL] = <<>> => child' = NONE
<1>1. /\ todo' = [todo EXCEPT ![p] = rest]
      /\ child' = IF p = SHELL /\ todo[SHELL] = <<>> THEN NONE ELSE child
  BY DEF Continued
<1>2. rest \in Seq(Instr)
  BY DEF PlanOK
<1>3. MovesOn(p, rest, a)
  BY <1>1 DEF PlansOK, MovesOn
<1>4. todo' \in [PID -> Seq(Instr)] /\ asked' \in [PID -> Servers \cup {NONE}]
  BY <1>1, <1>2 DEF PlansOK
<1>5. child' \in PID \cup {NONE}
  BY <1>1 DEF PlansOK
<1>6. \A o \in PID : PlanOK(o, todo'[o])
  BY <1>3 DEF PlansOK, MovesOn
<1> QED
  BY <1>1, <1>3, <1>4, <1>5, <1>6 DEF PlansOK

LEMMA StartedPlans ==
  ASSUME PlansOK, SHELL = run_pid, NEW rest, PlanOK(SHELL, rest), Started(rest),
         NEW c \in PID, c = Head(unused_q), c >= NSYS, c # SHELL,
         asked' = asked
  PROVE  /\ PlansOK' /\ child' = c
         /\ todo'[SHELL] = rest /\ todo'[c] # <<>> /\ ~ Upcoming(c, "MsgRcv")'
         /\ \A o \in PID \ {SHELL, c} : todo'[o] = todo[o]
<1>1. child' = c
  BY DEF Started
<1>2. PICK program \in {Hello, Prompt, SleepBin} :
        todo' = [todo EXCEPT ![SHELL] = rest, ![c] = program]
  BY DEF Started
<1>3. PlanOK(c, program) /\ Whole(program)
  BY ProgramsOK
<1>4. SHELL \in PID /\ rest \in Seq(Instr) /\ program \in Seq(Instr)
  BY <1>3, Kinds DEF PlanOK
<1>5. /\ todo' \in [PID -> Seq(Instr)]
      /\ todo'[SHELL] = rest /\ todo'[c] = program
      /\ \A o \in PID \ {SHELL, c} : todo'[o] = todo[o]
  BY <1>2, <1>4 DEF PlansOK
<1>6. todo'[c] # <<>> /\ ~ Upcoming(c, "MsgRcv")'
  BY <1>3, <1>5 DEF Whole, Upcoming, First
<1>7. \A o \in PID : PlanOK(o, todo'[o])
  BY <1>3, <1>5 DEF PlansOK
<1>8. PlansOK'
  BY <1>1, <1>5, <1>7 DEF PlansOK
<1> QED
  BY <1>1, <1>5, <1>6, <1>8

\* The running process is no shell in Wait, and has called nothing yet that
\* it has not come back from.
LEMMA RunningShell ==
  ASSUME Places, NEW p \in PID, p = run_pid, ~ Upcoming(SHELL, "Wait"), p = SHELL
  PROVE  ~ ToWait
BY RunningIsInNoQueue DEF ToWait

\* The steps that neither start nor end a process, nor wait for one.
LEMMA CallKeepsChild ==
  ASSUME Places, DataOK, ChildOK, child \in PID \cup {NONE},
         NEW p \in PID, p = run_pid, NEW rest, NEW a, MovesOn(p, rest, a),
         \A o \in PID : SameLife(o),
         p >= NSYS => rest # <<>> /\ todo[p] # <<>>,
         p = SHELL => /\ ~ Upcoming(SHELL, "Wait") /\ ~ First(rest, "Wait")
                      /\ \/ todo[SHELL] # <<>> /\ Uses(rest) \subseteq Uses(todo[SHELL])
                         \/ todo[SHELL] = <<>>,
         p # SHELL \/ todo[SHELL] # <<>> => child' = child,
         p = SHELL /\ todo[SHELL] = <<>> => child' = NONE,
         UNCHANGED <<ppid, page_pid, reported>>
  PROVE  ChildOK'
<1>1. SHELL \in PID
  BY Kinds
<1>2. /\ todo'[p] = rest
      /\ \A o \in PID \ {p} : todo'[o] = todo[o]
  BY DEF MovesOn
<1>3. \A o \in PID : o >= NSYS => (todo'[o] = <<>> <=> todo[o] = <<>>)
  BY <1>2
<1>4. CASE p = SHELL
  <2>1. ~ ToWait
    BY <1>4, RunningShell
  <2>2. ~ Upcoming(SHELL, "Wait")' /\ ~ Upcoming(SHELL, "Wait")
    BY <1>2, <1>4 DEF Upcoming
  <2>3. child' = child \/ (child' = NONE /\ ~ ToWait)
    BY <2>1, <1>4
  <2>4. "Fork" \in Uses(todo'[SHELL]) => "Fork" \in Uses(todo[SHELL]) \/ child' = NONE
    BY <1>2, <1>4
  <2> QED
    BY <1>3, <2>2, <2>3, <2>4, ChildUntouched
<1>5. CASE p # SHELL
  <2>1. todo'[SHELL] = todo[SHELL]
    BY <1>1, <1>2, <1>5
  <2>2. Upcoming(SHELL, "Wait")' <=> Upcoming(SHELL, "Wait")
    BY <2>1 DEF Upcoming
  <2> QED
    BY <1>3, <1>5, <2>1, <2>2, ChildUntouched
<1> QED
  BY <1>4, <1>5

LEMMA SendLife ==
  ASSUME Places, DataOK, NEW x \in PID, NEW d, MsgSndISR(x, d)
  PROVE  \A o \in PID : SameLife(o)
<1> DEFINE m == [sender |-> run_pid, data |-> d]
<1>1. Enqueue(x, m) \/ HandOff(x, m)
  BY DEF MsgSndISR
<1> HIDE DEF m
<1>2. CASE Enqueue(x, m)
  BY <1>2, Alive DEF Enqueue, procVars
<1>3. CASE HandOff(x, m)
  <2>1. /\ state[x] = "WAIT" /\ state'[x] \in Runnable
        /\ \A o \in PID \ {x} : state'[o] = state[o]
    BY <1>3, HandOffEffect
  <2>2. {state[x], state'[x]} \subseteq {"RUN", "SLEEP", "WAIT", "READY"}
    BY <2>1 DEF Runnable
  <2> QED
    BY <2>1, <2>2, Alive
<1> QED
  BY <1>1, <1>2, <1>3

LEMMA ReceiveLife ==
  ASSUME Places, DataOK, MsgRcvISR
  PROVE  \A o \in PID : SameLife(o)
<1>1. MakesCall("MsgRcv") /\ (Receive(run_pid) \/ AwaitMail(run_pid))
  BY DEF MsgRcvISR
<1>2. CASE Receive(run_pid)
  BY <1>2, Alive DEF Receive, procVars
<1>3. CASE AwaitMail(run_pid)
  <2>1. /\ state[run_pid] = "RUN" /\ state'[run_pid] = "WAIT"
        /\ \A o \in PID \ {run_pid} : Comes(o, state[o])
    BY <1>1, <1>3, AwaitEffect, RunningIsInNoQueue
  <2>2. {state[run_pid], state'[run_pid]} \subseteq {"RUN", "SLEEP", "WAIT", "READY"}
    BY <2>1
  <2> QED
    BY <2>1, <2>2, Alive
<1> QED
  BY <1>1, <1>2, <1>3

LEMMA RefusedKeepsChild ==
  ASSUME Places, ChildOK, SHELL = run_pid, UNCHANGED vars,
         "Fork" \in Uses(todo[SHELL]), child' = child,
         Upcoming(SHELL, "Wait")',
         \A o \in PID \ {SHELL} : todo'[o] = todo[o]
  PROVE  ChildOK'
<1>1. UNCHANGED <<state, ppid, page_pid, reported>>
  BY DEF vars, procVars, pageVars
<1>2. state[SHELL] = "RUN"
  BY RunningIsInNoQueue
<1>3. child = NONE /\ \A p \in PID : ~ InUse(p)
  <2>1. child = NONE
    BY DEF ChildOK
  <2> QED
    BY <2>1, Kinds DEF ChildOK
<1>4. \A p \in PID : ~ InUse(p)'
  BY <1>1, <1>3 DEF InUse
<1>5. \A p \in PID : p >= NSYS => p # SHELL
  <2>1. NSYS \in Nat /\ SHELL < NSYS /\ SHELL \in Nat
    BY Kinds DEF SHELL
  <2> QED
    BY <2>1
<1>6. \A p \in PID : p < NSYS => state'[p] \notin {"UNUSED", "ZOMBIE"}
  BY <1>1 DEF ChildOK
<1>7. \A p \in PID : p >= NSYS => (state'[p] \in {"UNUSED", "ZOMBIE"} <=> todo'[p] = <<>>)
  BY <1>1, <1>5 DEF ChildOK
<1> QED
  BY <1>1, <1>2, <1>3, <1>4, <1>6, <1>7 DEF ChildOK

\* SemWait(in_q_sem) of a server.
LEMMA ServerWaits ==
  ASSUME Places, DataOK, MailOK, NEW s \in Servers, s = run_pid, SemWaitISR(in_q_sem),
         UNCHANGED mailVars, todo[s] # <<>>,
         \A o \in PID \ {s} : todo'[o] = todo[o],
         \A o \in PID : asked'[o] = asked[o]
  PROVE  MailOK' /\ \A o \in PID : SameLife(o)
<1>1. /\ s \in PID /\ state[s] = "RUN" /\ run_pid # 0
      /\ \A t \in SEM : s \notin Range(sem_wait_q[t])
  <2>1. MakesCall("SemWait")
    BY DEF SemWaitISR
  <2> QED
    BY <2>1, RunningIsInNoQueue, InitProcRuns DEF Blocking
<1>2. in_q_sem \in SEM
  BY ProgramsAssumption, SemaphoreAssumption
<1>3. UNCHANGED <<mbox, mbox_wait_q, buf>>
  BY DEF mailVars
<1>4. CASE WaitTakesPass(in_q_sem)
  <2>1. state' = state /\ sem_wait_q' = sem_wait_q
    BY <1>4 DEF WaitTakesPass, procVars
  <2>2. MailOK'
    BY <1>3, <2>1, LineKeepsMail DEF MailOK
  <2> QED
    BY <2>1, <2>2, Alive
<1>5. CASE WaitBlocks(in_q_sem)
  <2> DEFINE q == EnQ(s, sem_wait_q[in_q_sem])
  <2>1. /\ sem_wait_q' = [sem_wait_q EXCEPT ![in_q_sem] = q]
        /\ Scheduler(NONE, proc_q, [state EXCEPT ![run_pid] = "WAIT"])
    BY <1>5 DEF WaitBlocks
  <2>2. Range(q) = Range(sem_wait_q[in_q_sem]) \cup {s}
    BY <1>1, <1>2, EnQFacts DEF Places, WaitOK
  <2> HIDE DEF q
  <2>3. \A t \in SEM : Range(sem_wait_q'[t]) \subseteq Servers
    <3>1. \A t \in SEM : sem_wait_q'[t] = IF t = in_q_sem THEN q ELSE sem_wait_q[t]
      BY <1>2, <2>1 DEF Places, WaitOK
    <3> QED
      BY <1>2, <2>2, <3>1 DEF MailOK
  <2>4. /\ state'[s] = "WAIT"
        /\ \A o \in PID \ {s} : Comes(o, state[o])
    BY <1>1, <2>1, BlockEffect DEF State, Runnable
  <2>5. \A o \in PID \ {s} : state'[o] = "WAIT" <=> state[o] = "WAIT"
    BY <2>4 DEF Comes, Runnable
  <2>6. MailOK'
    BY <1>3, <2>3, <2>5, LineKeepsMail
  <2>7. {state[s], state'[s]} \subseteq {"RUN", "SLEEP", "WAIT", "READY"}
    BY <1>1, <2>4
  <2> QED
    BY <2>4, <2>6, <2>7, Alive
<1> QED
  BY <1>4, <1>5 DEF SemWaitISR

\* The calls of a server.
LEMMA ServerStep ==
  ASSUME Places, DataOK, ProgInv, NEW p \in Servers, p = run_pid,
         NEW i, NEW rest, MovesOn(p, rest, asked[p]), MakeCall(i), child' = child,
         \/ i.call = "MsgRcv" /\ todo[p] = <<>> /\ rest # <<>>
         \/ i.call = "SemWait" /\ todo[p] # <<>> /\ rest # <<>>
         \/ i.call = "Answer" /\ todo[p] # <<>> /\ rest = <<>>
  PROVE  MailOK' /\ ChildOK' /\ Next
<1>1. /\ todo'[p] = rest
      /\ \A o \in PID \ {p} : todo'[o] = todo[o]
      /\ \A o \in PID : asked'[o] = asked[o]
  BY DEF MovesOn
<1>2. p \in PID /\ ~ p >= NSYS /\ p # SHELL /\ child \in PID \cup {NONE}
  BY Kinds DEF ProgInv, PlansOK
<1>3. CASE i.call = "MsgRcv"
  <2>1. MsgRcvISR /\ UNCHANGED pageVars
    BY <1>3 DEF MakeCall, MsgRcvIntr
  <2>2. todo[p] = <<>> /\ todo'[p] # <<>>
    BY <1>1, <1>3
  <2>3. MailOK'
    BY <1>1, <2>1, <2>2, ServerReceives DEF ProgInv
  <2>4. \A o \in PID : SameLife(o)
    BY <2>1, ReceiveLife
  <2>5. ChildOK'
    BY <1>2, <2>1, <2>4, CallKeepsChild DEF ProgInv, pageVars
  <2> QED
    BY <2>1, <2>3, <2>5 DEF Next, MsgRcvIntr
<1>4. CASE i.call = "Answer"
  <2>1. PICK d \in Data : MsgSndISR(buf[p].sender, d)
    BY <1>4 DEF MakeCall
  <2>2. UNCHANGED pageVars
    BY <1>4 DEF MakeCall
  <2>3. todo[p] # <<>> /\ todo'[p] = <<>>
    BY <1>1, <1>4
  <2>4. buf[p].sender \in PID
    BY <2>3, RunningWorks DEF ProgInv, MailOK, ServerOK, Pending
  <2>5. MailOK'
    BY <1>1, <2>1, <2>3, AnswerKeepsMail DEF ProgInv
  <2>6. \A o \in PID : SameLife(o)
    BY <2>1, <2>4, SendLife
  <2>7. ChildOK'
    BY <1>2, <2>2, <2>6, CallKeepsChild DEF ProgInv, pageVars
  <2> QED
    BY <2>1, <2>2, <2>4, <2>5, <2>7 DEF Next, MsgSndIntr
<1>5. CASE i.call = "SemWait"
  <2>1. SemWaitISR(in_q_sem) /\ UNCHANGED <<mailVars, pageVars>>
    BY <1>5 DEF MakeCall
  <2>2. MailOK' /\ \A o \in PID : SameLife(o)
    BY <1>1, <1>5, <2>1, ServerWaits DEF ProgInv
  <2>3. ChildOK'
    BY <1>2, <2>1, <2>2, CallKeepsChild DEF ProgInv, pageVars
  <2>4. in_q_sem \in SEM
    BY ProgramsAssumption, SemaphoreAssumption
  <2> QED
    BY <2>1, <2>2, <2>3, <2>4 DEF Next, SemIntr
<1> QED
  BY <1>3, <1>4, <1>5

\* The calls of the shell and of a program that leave the processes as they
\* are.
LEMMA ClientStep ==
  ASSUME Places, DataOK, NobodyWaitsOnMail, ProgInv, PlansOK',
         NEW p \in PID \ Servers, p = run_pid,
         NEW i, i.call \in {"SemGet", "MsgSnd", "MsgRcv", "Sleep"}, NEW rest,
         MovesOn(p, rest, IF i.call = "MsgSnd" THEN i.to ELSE asked[p]), MakeCall(i),
         First(rest, "MsgRcv") <=> i.call = "MsgSnd", ~ First(rest, "Wait"),
         i.call = "MsgSnd" => i.to \in Servers,
         p >= NSYS => rest # <<>> /\ todo[p] # <<>>,
         \/ todo[p] # <<>> /\ Uses(rest) \subseteq Uses(todo[p])
         \/ todo[p] = <<>>,
         Upcoming(p, "MsgRcv") <=> i.call = "MsgRcv",
         ~ Upcoming(p, "Wait"),
         p # SHELL \/ todo[SHELL] # <<>> => child' = child,
         p = SHELL /\ todo[SHELL] = <<>> => child' = NONE
  PROVE  MailOK' /\ ChildOK' /\ Next
<1> DEFINE a == IF i.call = "MsgSnd" THEN i.to ELSE asked[p]
<1>1. /\ todo'[p] = rest /\ asked'[p] = a
      /\ \A o \in PID \ {p} : todo'[o] = todo[o] /\ asked'[o] = asked[o]
  BY DEF MovesOn
<1>2. Upcoming(p, "MsgRcv")' <=> i.call = "MsgSnd"
  BY <1>1 DEF Upcoming
<1>3. child \in PID \cup {NONE} /\ todo \in [PID -> Seq(Instr)]
  BY DEF ProgInv, PlansOK
<1>4. MovesOn(p, rest, a)
  OBVIOUS
<1>5. p = SHELL => ~ Upcoming(SHELL, "Wait")
  OBVIOUS
<1>6. p = SHELL => \/ todo[SHELL] # <<>> /\ Uses(rest) \subseteq Uses(todo[SHELL])
                   \/ todo[SHELL] = <<>>
  OBVIOUS
<1>7. ASSUME \A o \in PID : SameLife(o), UNCHANGED <<ppid, page_pid, reported>>
      PROVE  ChildOK'
  <2> HIDE DEF a
  <2> QED
    BY <1>3, <1>4, <1>5, <1>6, <1>7, CallKeepsChild DEF ProgInv
<1>8. CASE i.call = "MsgSnd"
  <2>1. PICK d \in Data : MsgSndISR(i.to, d)
    BY <1>8 DEF MakeCall
  <2>2. UNCHANGED pageVars
    BY <1>8 DEF MakeCall
  <2>3. i.to \in Servers /\ i.to \in PID /\ asked'[p] = i.to
    BY <1>1, <1>8, Kinds
  <2>4. todo'[p] # <<>>
    BY <1>1, <1>8 DEF First
  <2>5. MailOK'
    BY <1>1, <1>2, <1>3, <1>8, <2>1, <2>3, <2>4, SendKeepsMail DEF ProgInv
  <2>6. \A o \in PID : SameLife(o)
    BY <2>1, <2>3, SendLife
  <2>7. ChildOK'
    BY <1>7, <2>2, <2>6 DEF pageVars
  <2> QED
    BY <2>1, <2>2, <2>3, <2>5, <2>7 DEF Next, MsgSndIntr
<1>9. CASE i.call = "MsgRcv"
  <2>1. MsgRcvISR /\ UNCHANGED pageVars
    BY <1>9 DEF MakeCall, MsgRcvIntr
  <2>2. \A o \in PID : asked'[o] = asked[o]
    BY <1>1, <1>9
  <2>3. p >= NSYS => todo'[p] # <<>>
    BY <1>1
  <2>4. MailOK'
    BY <1>1, <1>2, <1>9, <2>1, <2>2, <2>3, ReceiveKeepsMail DEF ProgInv
  <2>5. \A o \in PID : SameLife(o)
    BY <2>1, ReceiveLife
  <2>6. ChildOK'
    BY <1>7, <2>1, <2>5 DEF pageVars
  <2> QED
    BY <2>1, <2>4, <2>6 DEF Next, MsgRcvIntr
<1>10. CASE i.call = "Sleep"
  <2>1. SleepIntr
    BY <1>10 DEF MakeCall
  <2>2. /\ state[run_pid] = "RUN" /\ state'[run_pid] = "SLEEP"
        /\ \A o \in PID \ {run_pid} : Comes(o, state[o])
        /\ UNCHANGED <<semVars, mailVars, pageVars>>
    BY <2>1, SleepEffect, RunningIsInNoQueue
  <2>3. \A o \in PID : state'[o] = "WAIT" <=> state[o] = "WAIT"
    BY <2>2 DEF Comes, Runnable
  <2>4. asked'[p] = asked[p] /\ (p >= NSYS => todo'[p] # <<>>)
    BY <1>1, <1>10
  <2>5. MailOK'
    BY <1>1, <1>2, <1>10, <2>2, <2>3, <2>4, QuietKeepsMail DEF ProgInv, mailVars, semVars
  <2>6. \A o \in PID : SameLife(o)
    <3>1. {state[run_pid], state'[run_pid]} \subseteq {"RUN", "SLEEP", "WAIT", "READY"}
      BY <2>2
    <3> QED
      BY <2>2, <3>1, Alive
  <2>7. ChildOK'
    BY <1>7, <2>2, <2>6 DEF pageVars
  <2> QED
    BY <2>1, <2>5, <2>7 DEF Next
<1>11. CASE i.call = "SemGet"
  <2>1. SemGetISR /\ UNCHANGED <<mailVars, pageVars>>
    BY <1>11 DEF MakeCall
  <2>2. state' = state /\ sem_wait_q' = sem_wait_q
    <3>1. /\ state' = state /\ semaphore_q # <<>>
          /\ sem_wait_q' = [sem_wait_q EXCEPT ![Head(semaphore_q)] = <<>>]
      BY <2>1 DEF SemGetISR, procVars
    <3>2. PICK id \in SEM : id = Head(semaphore_q) /\ id \in Range(semaphore_q)
      BY <3>1, SemIdFacts
    <3>3. Range(sem_wait_q[id]) = {} /\ sem_wait_q[id] \in Seq(PID)
      BY <3>2 DEF Places, WaitOK
    <3>4. sem_wait_q[id] = <<>>
      BY <3>3, EmptyRange
    <3> QED
      BY <3>1, <3>2, <3>4 DEF Places, WaitOK
  <2>3. asked'[p] = asked[p] /\ (p >= NSYS => todo'[p] # <<>>)
    BY <1>1, <1>11
  <2>4. UNCHANGED <<mbox, mbox_wait_q, buf, sem_wait_q>>
    BY <2>1, <2>2 DEF mailVars
  <2>5. MailOK'
    BY <1>1, <1>2, <1>11, <2>2, <2>3, <2>4, QuietKeepsMail DEF ProgInv
  <2>6. \A o \in PID : SameLife(o)
    BY <2>2, Alive
  <2>7. ChildOK'
    BY <1>7, <2>1, <2>6 DEF pageVars
  <2> QED
    BY <2>1, <2>5, <2>7 DEF Next, SemIntr
<1> QED
  BY <1>8, <1>9, <1>10, <1>11

LEMMA ForkStepKeeps ==
  ASSUME Places, DataOK, ProgInv, SHELL = run_pid, MakeCall(Call("Fork")),
         NEW rest, PlanOK(SHELL, rest), asked' = asked,
         IF unused_q' # unused_q THEN Started(rest) ELSE Continued(rest),
         "Fork" \in Uses(todo[SHELL]), todo[SHELL] # <<>>,
         "Fork" \notin Uses(rest), First(rest, "Wait"), ~ First(rest, "MsgRcv"),
         ~ Upcoming(SHELL, "MsgRcv")
  PROVE  ProgInv' /\ [Next]_vars
<1>1. SHELL \in PID \ Servers /\ ~ SHELL >= NSYS /\ SHELL \in PID
  <2>1. NSYS \in Nat /\ SHELL < NSYS /\ SHELL \in Nat
    BY Kinds DEF SHELL
  <2> QED
    BY <2>1, Kinds
<1>2. ForkISR \/ ForkRefused
  BY DEF MakeCall, Call
<1>3. CASE ForkISR
  <2>0. PICK c : c = Head(unused_q)
    OBVIOUS
  <2>1. c \in PID /\ state[c] = "UNUSED" /\ c # SHELL /\ unused_q' # unused_q
    BY <1>3, <2>0, ForkEffect
  <2>2. c >= NSYS /\ todo[c] = <<>>
    <3>1. c < NSYS \/ c >= NSYS
      BY <2>1, Kinds
    <3> QED
      BY <2>1, <3>1 DEF ProgInv, ChildOK
  <2>3. Started(rest) /\ c = Head(unused_q)
    BY <2>0, <2>1
  <2>4. /\ PlansOK' /\ child' = c
        /\ todo'[SHELL] = rest /\ todo'[c] # <<>> /\ ~ Upcoming(c, "MsgRcv")'
        /\ \A o \in PID \ {SHELL, c} : todo'[o] = todo[o]
    BY <2>1, <2>2, <2>3, StartedPlans DEF ProgInv
  <2>5. ~ Upcoming(SHELL, "MsgRcv")' /\ Upcoming(SHELL, "Wait")'
    BY <2>4 DEF Upcoming
  <2>6. MailOK'
    BY <1>3, <2>1, <2>2, <2>3, <2>4, <2>5, ForkKeepsMail DEF ProgInv
  <2>7. ChildOK'
    BY <1>3, <2>1, <2>3, <2>4, <2>5, ForkKeepsChild DEF ProgInv
  <2> QED
    BY <1>3, <2>4, <2>6, <2>7 DEF ProgInv, Next
<1>4. CASE ForkRefused
  <2>1. UNCHANGED vars
    BY <1>4 DEF ForkRefused
  <2>2. /\ unused_q' = unused_q /\ state' = state
        /\ UNCHANGED <<mbox, mbox_wait_q, buf, sem_wait_q>>
    BY <2>1 DEF vars, procVars, mailVars, semVars
  <2>3. Continued(rest)
    BY <2>2
  <2>4. asked[SHELL] \in Servers \cup {NONE} /\ asked' = [asked EXCEPT ![SHELL] = asked[SHELL]]
    BY <1>1 DEF ProgInv, PlansOK
  <2>5. PlansOK' /\ MovesOn(SHELL, rest, asked[SHELL]) /\ child' = child
    BY <1>1, <2>3, <2>4, ContinuedPlans DEF ProgInv
  <2>6. /\ todo'[SHELL] = rest /\ asked'[SHELL] = asked[SHELL]
        /\ \A o \in PID \ {SHELL} : todo'[o] = todo[o] /\ asked'[o] = asked[o]
    BY <2>5 DEF MovesOn
  <2>7. ~ Upcoming(SHELL, "MsgRcv")' /\ Upcoming(SHELL, "Wait")'
    BY <2>6 DEF Upcoming
  <2>8. MailOK'
    BY <1>1, <2>2, <2>6, <2>7, QuietKeepsMail DEF ProgInv
  <2>9. ChildOK'
    BY <2>1, <2>5, <2>6, <2>7, RefusedKeepsChild DEF ProgInv
  <2> QED
    BY <2>1, <2>5, <2>8, <2>9 DEF ProgInv
<1> QED
  BY <1>2, <1>3, <1>4

\* Wait, and Exit.
LEMMA EndStepKeeps ==
  ASSUME Places, DataOK, ProgInv, PlansOK', NEW p \in PID \ Servers, p = run_pid,
         NEW i, NEW rest, MakeCall(i),
         MovesOn(p, rest, IF i.call = "Exit" THEN NONE ELSE asked[p]),
         \/ i.call = "Wait" /\ p = SHELL
         \/ i.call = "Exit" /\ p >= NSYS /\ rest = <<>>,
         ~ First(rest, "MsgRcv"), ~ First(rest, "Wait"),
         p >= NSYS => (i.call = "Exit" <=> rest = <<>>),
         Uses(rest) \subseteq Uses(todo[p]),
         \A c : Upcoming(p, c) <=> i.call = c,
         child' = child
  PROVE  MailOK' /\ ChildOK' /\ Next
<1>1. /\ todo'[p] = rest /\ asked'[p] = IF i.call = "Exit" THEN NONE ELSE asked[p]
      /\ \A o \in PID \ {p} : todo'[o] = todo[o] /\ asked'[o] = asked[o]
  BY DEF MovesOn
<1>2. ~ Upcoming(p, "MsgRcv")' /\ ~ Upcoming(p, "Wait")' /\ ~ Upcoming(p, "MsgRcv")
  BY <1>1 DEF Upcoming
<1>3. child \in PID \cup {NONE}
  BY DEF ProgInv, PlansOK
<1>4. CASE i.call = "Wait" /\ p = SHELL
  <2>1. WaitISR
    BY <1>4 DEF MakeCall, WaitAndHear
  <2>2. UNCHANGED <<mbox, mbox_wait_q, buf, sem_wait_q>>
    BY <2>1 DEF WaitISR, mailVars, semVars
  <2>3. Uses(todo'[SHELL]) \subseteq Uses(todo[SHELL])
    BY <1>1, <1>4
  <2>4. ChildOK' /\ \A o \in PID : state'[o] = "WAIT" <=> state[o] = "WAIT"
    BY <1>1, <1>2, <1>3, <1>4, <2>1, <2>3, WaitKeepsChild DEF ProgInv
  <2>5. ~ p >= NSYS
    <3>1. NSYS \in Nat /\ SHELL < NSYS /\ SHELL \in Nat
      BY Kinds DEF SHELL
    <3> QED
      BY <1>4, <3>1
  <2>6. asked'[p] = asked[p]
    BY <1>1, <1>4
  <2>7. MailOK'
    BY <1>1, <1>2, <2>2, <2>4, <2>5, <2>6, QuietKeepsMail DEF ProgInv
  <2> QED
    BY <2>1, <2>4, <2>7 DEF Next
<1>5. CASE i.call = "Exit" /\ p >= NSYS /\ rest = <<>>
  <2>1. ExitISR
    BY <1>5 DEF MakeCall, ExitAndTell
  <2>2. UNCHANGED <<mbox, mbox_wait_q, buf, sem_wait_q>>
    BY <2>1 DEF ExitISR, mailVars, semVars
  <2>3. ChildOK' /\ \A o \in PID : state'[o] = "WAIT" <=> state[o] = "WAIT"
    BY <1>1, <1>3, <1>5, <2>1, ExitKeepsChild DEF ProgInv
  <2>4. asked'[p] = NONE
    BY <1>1, <1>5
  <2>5. MailOK'
    BY <1>1, <1>2, <2>2, <2>3, <2>4, QuietKeepsMail DEF ProgInv
  <2> QED
    BY <2>1, <2>3, <2>5 DEF Next
<1> QED
  BY <1>4, <1>5

LEMMA StepKeeps ==
  ASSUME Places, DataOK, NobodyWaitsOnMail, ProgInv, NEW p \in PID, Step(p)
  PROVE  ProgInv' /\ [Next]_vars
<1>1. p = run_pid /\ PlansOK /\ state[p] = "RUN"
  BY RunningIsInNoQueue DEF Step, ProgInv
<1>2. PICK plan \in Plans(p) :
        /\ MakeCall(Head(plan))
        /\ IF Head(plan).call = "Fork" /\ unused_q' # unused_q
           THEN Started(Tail(plan)) ELSE Continued(Tail(plan))
        /\ asked' = [asked EXCEPT ![p] =
             IF Head(plan).call = "MsgSnd" THEN Head(plan).to
             ELSE IF Head(plan).call = "Exit" THEN NONE ELSE asked[p]]
  BY DEF Step
<1> DEFINE i == Head(plan)
           rest == Tail(plan)
           a == IF i.call = "MsgSnd" THEN i.to ELSE IF i.call = "Exit" THEN NONE ELSE asked[p]
<1>3. /\ p # 0 /\ PlanOK(p, rest)
      /\ p \in Servers =>
           \/ i.call = "MsgRcv" /\ todo[p] = <<>> /\ rest # <<>>
           \/ i.call = "SemWait" /\ todo[p] # <<>> /\ rest # <<>>
           \/ i.call = "Answer" /\ todo[p] # <<>> /\ rest = <<>>
      /\ p \notin Servers =>
           /\ i.call \in {"SemGet", "MsgSnd", "MsgRcv", "Sleep", "Fork", "Wait", "Exit"}
           /\ First(rest, "MsgRcv") <=> i.call = "MsgSnd"
           /\ First(rest, "Wait") <=> i.call = "Fork"
           /\ i.call = "MsgSnd" => i.to \in Servers
           /\ i.call = "Fork" => p = SHELL /\ "Fork" \notin Uses(rest)
           /\ i.call = "Wait" => p = SHELL
           /\ p >= NSYS => (i.call = "Exit" <=> rest = <<>>)
           /\ i.call = "Exit" => p >= NSYS
           /\ \/ /\ todo[p] # <<>> /\ i = Head(todo[p])
                 /\ i.call \in Uses(todo[p]) /\ Uses(rest) \subseteq Uses(todo[p])
              \/ p = SHELL /\ todo[p] = <<>> /\ i.call = "MsgSnd"
      /\ \A c : Upcoming(p, c) => i.call = c
  BY <1>1, ChosenPlan
<1>4. MakeCall(i) /\ asked' = [asked EXCEPT ![p] = a]
  BY <1>2
<1>5. IF i.call = "Fork" /\ unused_q' # unused_q THEN Started(rest) ELSE Continued(rest)
  BY <1>2
<1>6. i = Head(todo[p]) /\ todo[p] # <<>> => \A c : Upcoming(p, c) <=> i.call = c
  BY DEF Upcoming, First
<1> HIDE DEF i, rest
<1>7. a \in Servers \cup {NONE}
  BY <1>1, <1>3 DEF PlansOK
<1>8. ASSUME i.call # "Fork"
      PROVE  /\ PlansOK' /\ MovesOn(p, rest, a)
             /\ p # SHELL \/ todo[SHELL] # <<>> => child' = child
             /\ p = SHELL /\ todo[SHELL] = <<>> => child' = NONE
  <2>1. Continued(rest)
    BY <1>5, <1>8
  <2> HIDE DEF a
  <2> QED
    BY <1>1, <1>3, <1>4, <1>7, <2>1, ContinuedPlans
<1>9. CASE p \in Servers
  <2>1. i.call # "Fork" /\ a = asked[p] /\ p # SHELL
    BY <1>3, <1>9, Kinds
  <2>2. PlansOK' /\ MovesOn(p, rest, asked[p]) /\ child' = child
    BY <1>8, <2>1
  <2>3. MailOK' /\ ChildOK' /\ Next
    BY <1>1, <1>3, <1>4, <1>9, <2>2, ServerStep
  <2> QED
    BY <2>2, <2>3 DEF ProgInv
<1>10. CASE p \notin Servers /\ i.call \in {"SemGet", "MsgSnd", "MsgRcv", "Sleep"}
  <2>1. /\ PlansOK' /\ MovesOn(p, rest, IF i.call = "MsgSnd" THEN i.to ELSE asked[p])
        /\ p # SHELL \/ todo[SHELL] # <<>> => child' = child
        /\ p = SHELL /\ todo[SHELL] = <<>> => child' = NONE
    BY <1>8, <1>10
  <2>2. /\ First(rest, "MsgRcv") <=> i.call = "MsgSnd"
        /\ ~ First(rest, "Wait")
        /\ i.call = "MsgSnd" => i.to \in Servers
        /\ \/ todo[p] # <<>> /\ Uses(rest) \subseteq Uses(todo[p])
           \/ todo[p] = <<>>
    BY <1>3, <1>10
  <2>3. p >= NSYS => rest # <<>> /\ todo[p] # <<>>
    <3>1. p >= NSYS => p # SHELL
      <4>1. NSYS \in Nat /\ SHELL < NSYS /\ SHELL \in Nat
        BY Kinds DEF SHELL
      <4> QED
        BY <4>1
    <3> QED
      BY <1>3, <1>10, <3>1
  <2>4. Upcoming(p, "MsgRcv") <=> i.call = "MsgRcv"
    BY <1>3, <1>6, <1>10 DEF Upcoming, First
  <2>5. ~ Upcoming(p, "Wait")
    BY <1>3, <1>10
  <2>6. MailOK' /\ ChildOK' /\ Next
    BY <1>1, <1>4, <1>10, <2>1, <2>2, <2>3, <2>4, <2>5, ClientStep
  <2> QED
    BY <2>1, <2>6 DEF ProgInv
<1>11. CASE p \notin Servers /\ i.call = "Fork"
  <2>1. p = SHELL /\ "Fork" \notin Uses(rest) /\ First(rest, "Wait") /\ ~ First(rest, "MsgRcv")
    BY <1>3, <1>11
  <2>2. todo[p] # <<>> /\ "Fork" \in Uses(todo[p]) /\ ~ Upcoming(p, "MsgRcv")
    BY <1>3, <1>11
  <2>3. asked' = asked
    BY <1>1, <1>4, <1>11 DEF PlansOK
  <2>4. MakeCall(Call("Fork"))
    BY <1>4, <1>11 DEF MakeCall, Call
  <2>5. IF unused_q' # unused_q THEN Started(rest) ELSE Continued(rest)
    BY <1>5, <1>11
  <2>6. PlanOK(SHELL, rest) /\ SHELL = run_pid
    BY <1>1, <1>3, <2>1
  <2> QED
    BY <2>1, <2>2, <2>3, <2>4, <2>5, <2>6, ForkStepKeeps
<1>12. CASE p \notin Servers /\ i.call \in {"Wait", "Exit"}
  <2>1. todo[p] # <<>> /\ Uses(rest) \subseteq Uses(todo[p]) /\ i = Head(todo[p])
    BY <1>3, <1>12
  <2>2. /\ PlansOK' /\ MovesOn(p, rest, IF i.call = "Exit" THEN NONE ELSE asked[p])
        /\ child' = child
    BY <1>8, <1>12, <2>1
  <2>3. /\ \/ i.call = "Wait" /\ p = SHELL
           \/ i.call = "Exit" /\ p >= NSYS /\ rest = <<>>
        /\ ~ First(rest, "MsgRcv") /\ ~ First(rest, "Wait")
        /\ p >= NSYS => (i.call = "Exit" <=> rest = <<>>)
    BY <1>3, <1>12
  <2>4. \A c : Upcoming(p, c) <=> i.call = c
    BY <1>6, <2>1
  <2>5. MailOK' /\ ChildOK' /\ Next
    BY <1>1, <1>4, <1>12, <2>1, <2>2, <2>3, <2>4, EndStepKeeps
  <2> QED
    BY <2>2, <2>5 DEF ProgInv
<1> QED
  BY <1>3, <1>9, <1>10, <1>11, <1>12

LEMMA TockKeeps ==
  ASSUME Places, DataOK, ProgInv, Tock
  PROVE  ProgInv' /\ [Next]_vars
<1>1. TimerIntr /\ UNCHANGED progVars
  BY DEF Tock
<1>2. UNCHANGED <<todo, asked, child>>
  BY <1>1 DEF progVars
<1>3. PlansOK'
  BY <1>2 DEF ProgInv, PlansOK
<1>4. MailOK'
  BY <1>1, TimerKeepsMail DEF ProgInv
<1>5. UNCHANGED <<ppid, page_pid, reported>>
  BY <1>1 DEF TimerIntr, pageVars
<1>6. \A p \in PID : SameLife(p)
  <2>1. ASSUME NEW p \in PID, state[p] = "SLEEP", state'[p] \in Runnable PROVE SameLife(p)
    <3>1. {state[p], state'[p]} \subseteq {"RUN", "SLEEP", "WAIT", "READY"}
      BY <2>1 DEF Runnable
    <3> QED
      BY <3>1, Alive
  <2> QED
    BY <1>1, <2>1, TimerEffect, Alive
<1>7. ChildOK'
  <2>1. Upcoming(SHELL, "Wait")' <=> Upcoming(SHELL, "Wait")
    BY <1>2 DEF Upcoming
  <2> QED
    BY <1>2, <1>5, <1>6, <2>1, ChildUntouched DEF ProgInv, PlansOK
<1> QED
  BY <1>1, <1>3, <1>4, <1>7 DEF ProgInv, Next

\* A line is typed: TerminalIn leaves its SemWait.
LEMMA LineKeeps ==
  ASSUME Places, DataOK, ProgInv, LineTyped
  PROVE  ProgInv' /\ [Next]_vars
<1>1. /\ SemPostISR(in_q_sem) /\ UNCHANGED <<mailVars, pageVars>>
      /\ UNCHANGED <<todo, asked, child>>
  BY DEF LineTyped, DevicePost, progVars
<1>2. Next
  BY ProgramsAssumption DEF LineTyped, Next, DeviceIntr
<1>3. UNCHANGED <<mbox, mbox_wait_q, buf, ppid, page_pid, reported>>
  BY <1>1 DEF mailVars, pageVars
<1>4. in_q_sem \in SEM
  BY ProgramsAssumption, SemaphoreAssumption
<1>5. PlansOK'
  BY <1>1 DEF ProgInv, PlansOK
<1>6. MailOK' /\ \A o \in PID : SameLife(o)
  <2>1. CASE PostLeavesPass(in_q_sem)
    <3>1. state' = state /\ sem_wait_q' = sem_wait_q
      BY <2>1 DEF PostLeavesPass, procVars
    <3>2. MailOK'
      BY <1>1, <1>3, <3>1, ServersAreServers, LineKeepsMail DEF ProgInv, MailOK
    <3> QED
      BY <3>1, <3>2, Alive
  <2>2. CASE PostWakes(in_q_sem)
    <3> DEFINE s == Head(sem_wait_q[in_q_sem])
               q == Tail(sem_wait_q[in_q_sem])
    <3>1. /\ sem_wait_q[in_q_sem] # <<>>
          /\ sem_wait_q' = [sem_wait_q EXCEPT ![in_q_sem] = q]
          /\ Scheduler(run_pid, EnQ(s, proc_q), [state EXCEPT ![s] = "READY"])
      BY <2>2 DEF PostWakes
    <3>2. /\ s \in Range(sem_wait_q[in_q_sem]) /\ s \in PID
          /\ Range(q) \subseteq Range(sem_wait_q[in_q_sem])
      BY <1>4, <3>1, HeadTailFacts DEF Places, WaitOK
    <3>3. s \in Servers /\ state[s] = "WAIT"
      BY <1>4, <3>2 DEF ProgInv, MailOK, Places, WaitOK
    <3> HIDE DEF s, q
    <3>4. state'[s] = "READY" /\ \A o \in PID \ {s} : state'[o] = state[o]
      BY <3>1, <3>2, ReadyEffect DEF State
    <3>5. \A t \in SEM : Range(sem_wait_q'[t]) \subseteq Servers
      <4>1. \A t \in SEM : sem_wait_q'[t] = IF t = in_q_sem THEN q ELSE sem_wait_q[t]
        BY <1>4, <3>1 DEF Places, WaitOK
      <4> QED
        BY <1>4, <3>2, <4>1 DEF ProgInv, MailOK
    <3>6. MailOK'
      BY <1>1, <1>3, <3>3, <3>4, <3>5, LineKeepsMail DEF ProgInv
    <3>7. {state[s], state'[s]} \subseteq {"RUN", "SLEEP", "WAIT", "READY"}
      BY <3>3, <3>4
    <3> QED
      BY <3>4, <3>6, <3>7, Alive
  <2> QED
    BY <1>1, <2>1, <2>2 DEF SemPostISR
<1>7. ChildOK'
  <2>1. Upcoming(SHELL, "Wait")' <=> Upcoming(SHELL, "Wait")
    BY <1>1 DEF Upcoming
  <2> QED
    BY <1>1, <1>3, <1>6, <2>1, ChildUntouched DEF ProgInv, PlansOK
<1> QED
  BY <1>2, <1>5, <1>6, <1>7 DEF ProgInv

LEMMA ProgStutter ==
  ASSUME ProgInv, UNCHANGED allVars
  PROVE  ProgInv' /\ [Next]_vars
<1>1. UNCHANGED <<todo, asked, child, state, mbox, mbox_wait_q, buf, sem_wait_q, ppid, page_pid, reported>>
  BY DEF allVars, progVars, vars, procVars, semVars, mailVars, pageVars
<1>2. UNCHANGED vars
  BY DEF allVars
<1>3. PlansOK'
  BY <1>1 DEF ProgInv, PlansOK
<1>4. MailOK'
  BY <1>1 DEF ProgInv, MailOK, ServerOK, Works, ClientOK, Pending, Awaiting, Upcoming, Returned
<1>5. ChildOK'
  BY <1>1 DEF ProgInv, ChildOK, InUse, ToWait, Upcoming, PagesOf
<1> QED
  BY <1>2, <1>3, <1>4, <1>5 DEF ProgInv

LEMMA ProgStarts == ProgInit => ProgInv
<1> SUFFICES ASSUME ProgInit PROVE ProgInv
  OBVIOUS
<1>1. /\ todo = [p \in PID |->
                IF p = SHELL THEN <<Call("SemGet")>> \o Ask(TERMINAL_OUT) ELSE <<>>]
      /\ asked = [p \in PID |-> NONE]
      /\ child = NONE
      /\ Init
  BY DEF ProgInit
<1>2. /\ state = [p \in PID |->
               IF p = 0 THEN "RUN" ELSE IF p < NSYS THEN "READY" ELSE "UNUSED"]
      /\ mbox = [p \in PID |-> <<>>]
      /\ sem_wait_q = [s \in SEM |-> <<>>]
  BY <1>1 DEF Init, ProcInit, MailInit, SemInit
<1> DEFINE get == <<Call("SemGet")>>
           q == get \o Ask(TERMINAL_OUT)
<1>3. Whole(q) /\ Head(q).call = "SemGet" /\ Uses(q) = {"SemGet", "MsgSnd", "MsgRcv"}
  <2>1. Call("SemGet") \in Instr /\ Call("SemGet").call = "SemGet"
    BY DEF Instr, Call
  <2>2. /\ get \in Seq(Instr) /\ Len(get) = 1 /\ get[1] = Call("SemGet") /\ get # <<>>
        /\ Head(get) = Call("SemGet")
    BY <2>1
  <2> HIDE DEF get
  <2>3. 1 .. 1 = {1} /\ 1 .. 1 - 1 = {}
    OBVIOUS
  <2>4. Whole(get) /\ Uses(get) = {"SemGet"}
    BY <2>1, <2>2, <2>3 DEF Whole, Ordered, Uses
  <2>5. Whole(Ask(TERMINAL_OUT)) /\ Uses(Ask(TERMINAL_OUT)) = {"MsgSnd", "MsgRcv"}
    BY AskFacts, ServersAreServers
  <2>6. /\ Whole(q) /\ Head(q) = Head(get)
        /\ Uses(q) = Uses(get) \cup Uses(Ask(TERMINAL_OUT))
    BY <2>4, <2>5, Join
  <2> QED
    BY <2>1, <2>2, <2>4, <2>5, <2>6
<1> HIDE DEF q
<1>4. /\ todo[SHELL] = q /\ SHELL \in PID
      /\ \A p \in PID \ {SHELL} : todo[p] = <<>>
  BY <1>1, Kinds DEF q
<1>5. Ordered(<<>>) /\ EndsInExit(<<>>) /\ Uses(<<>>) = {} /\ <<>> \in Seq(Instr)
  <2>1. Len(<<>>) = 0 /\ 1 .. 0 = {} /\ 1 .. 0 - 1 = {} /\ <<>> \in Seq(Instr)
    OBVIOUS
  <2> QED
    BY <2>1 DEF Ordered, EndsInExit, Uses
<1>6. PlansOK
  <2>1. PlanOK(SHELL, q)
    <3>1. ForksOnce(q)
      BY <1>3 DEF ForksOnce, Uses
    <3>2. ~ SHELL >= NSYS /\ SHELL # 0 /\ SHELL \notin Servers
      <4>1. NSYS \in Nat /\ SHELL < NSYS /\ SHELL \in Nat
        BY Kinds DEF SHELL
      <4> QED
        BY <4>1, Kinds
    <3> QED
      BY <1>3, <3>1, <3>2 DEF PlanOK, Whole
  <2>2. \A p \in PID \ {SHELL} : PlanOK(p, <<>>)
    BY <1>5 DEF PlanOK
  <2>3. \A p \in PID : PlanOK(p, todo[p])
    BY <1>4, <2>1, <2>2
  <2>4. todo \in [PID -> Seq(Instr)]
    BY <1>1, <1>3, <1>5 DEF Whole, q
  <2> QED
    BY <1>1, <2>3, <2>4 DEF PlansOK
<1>7. \A p \in PID : state[p] \in {"RUN", "READY", "UNUSED"}
  BY <1>2
<1>8. ~ Upcoming(SHELL, "MsgRcv") /\ ~ Upcoming(SHELL, "Wait")
  BY <1>3, <1>4 DEF Upcoming, First
<1>9. MailOK
  <2>1. \A s \in SEM : Range(sem_wait_q[s]) \subseteq Servers
    BY <1>2 DEF Range
  <2>2. \A s \in Servers : ServerOK(s)
    <3>1. \A s \in Servers : /\ s \in PID /\ asked[s] = NONE /\ Len(mbox[s]) = 0
                             /\ todo[s] = <<>>
      BY <1>1, <1>2, <1>4, Kinds
    <3> QED
      BY <3>1 DEF ServerOK, Works
  <2>3. \A p \in PID \ Servers : ClientOK(p)
    BY <1>1, <1>2, <1>7 DEF ClientOK, Returned
  <2> QED
    BY <2>1, <2>2, <2>3 DEF MailOK
<1>10. ChildOK
  <2>1. \A p \in PID : p < NSYS => state[p] \notin {"UNUSED", "ZOMBIE"}
    BY <1>2
  <2>2. \A p \in PID : p >= NSYS => state[p] = "UNUSED" /\ p # SHELL
    <3>1. /\ NSYS \in Nat /\ NSYS > 0 /\ SHELL < NSYS /\ SHELL \in Nat
          /\ PID \subseteq Nat
      BY Kinds DEF SHELL
    <3>2. \A p \in PID : p >= NSYS => ~ p < NSYS /\ p # 0 /\ p # SHELL
      BY <3>1
    <3> QED
      BY <1>2, <3>2
  <2>3. "Fork" \notin Uses(todo[SHELL])
    BY <1>3, <1>4
  <2>4. state[SHELL] # "WAIT4CHILD"
    BY <1>4, <1>7
  <2>5. \A p \in PID : ~ InUse(p)
    BY <2>2 DEF InUse
  <2>6. \A p \in PID : p >= NSYS => todo[p] = <<>>
    BY <1>4, <2>2
  <2> QED
    BY <1>1, <2>1, <2>2, <2>3, <2>4, <2>5, <2>6 DEF ChildOK
<1> QED
  BY <1>6, <1>9, <1>10 DEF ProgInv

\* What the kernel guarantees, and what the programs keep up together.
AllInv == Places /\ DataOK /\ NobodyWaitsOnMail /\ NoLostExit /\ ProgInv

\* The invariants of Kernel and those of the programs are inductive together.
THEOREM AllInvAlways == ProgSpec => []AllInv
<1>1. ProgInit => AllInv
  <2> SUFFICES ASSUME ProgInit PROVE AllInv
    OBVIOUS
  <2>1. Init
    BY DEF ProgInit
  <2>2. NobodyWaitsOnMail /\ NoLostExit
    BY <2>1 DEF Init, MailInit, ProcInit, NobodyWaitsOnMail, NoLostExit
  <2> QED
    BY <2>1, <2>2, InitPlaces, ProgStarts DEF AllInv
<1>2. AllInv /\ [ProgNext]_allVars => AllInv'
  <2> SUFFICES ASSUME AllInv, [ProgNext]_allVars PROVE AllInv'
    OBVIOUS
  <2> USE DEF AllInv
  <2>1. ProgInv' /\ [Next]_vars
    <3>1. CASE Tock
      BY <3>1, TockKeeps
    <3>2. CASE \E p \in PID : Step(p)
      BY <3>2, StepKeeps
    <3>3. CASE LineTyped
      BY <3>3, LineKeeps
    <3>4. CASE UNCHANGED allVars
      BY <3>4, ProgStutter
    <3> QED
      BY <3>1, <3>2, <3>3, <3>4 DEF ProgNext
  <2> QED
    BY <2>1, EveryStep, MailStep, NoLostStep
<1> QED
  BY <1>1, <1>2, PTL DEF ProgSpec

\* A process that comes back from MsgRcv holds the answer of the server it
\* asked last (proc.c, make-bin): no answer of an earlier request is left.
THEOREM AnswersComeFromTheServer == ProgSpec => []AnswerIsTheServers
<1>1. AllInv => AnswerIsTheServers
  BY MailImplies DEF AllInv, ProgInv
<1> QED
  BY <1>1, AllInvAlways, PTL

\* Wait of the shell (proc.c:236) reports the process that its Fork started,
\* whichever of Wait and Exit comes first.
THEOREM WaitReportsTheChild == ProgSpec => []WaitReportsTheFork
<1>1. AllInv => WaitReportsTheFork
  <2> SUFFICES ASSUME PlansOK, ChildOK, Waited PROVE reported[SHELL] = child
    BY DEF AllInv, ProgInv, WaitReportsTheFork
  <2>1. /\ child # NONE /\ state[SHELL] # "WAIT4CHILD"
        /\ \A i \in DOMAIN todo[SHELL] : todo[SHELL][i].call \notin {"Fork", "Wait"}
    BY DEF Waited
  <2>2. ~ Upcoming(SHELL, "Wait")
    <3> SUFFICES ASSUME todo[SHELL] # <<>> PROVE Head(todo[SHELL]).call # "Wait"
      BY DEF Upcoming, First
    <3> DEFINE q == todo[SHELL]
    <3>1. q \in Seq(Instr)
      BY Kinds DEF PlansOK
    <3> HIDE DEF q
    <3>2. Len(q) \in Nat /\ Len(q) # 0 /\ Head(q) = q[1]
      BY <3>1, InstrFacts DEF q
    <3>3. 1 \in DOMAIN q
      <4>1. DOMAIN q = 1 .. Len(q)
        BY <3>1, LenProperties
      <4> QED
        BY <3>2, <4>1
    <3> QED
      BY <2>1, <3>2, <3>3 DEF q
  <2> QED
    BY <2>1, <2>2 DEF ChildOK, ToWait
<1> QED
  BY <1>1, AllInvAlways, PTL

\* A program that has called Exit never runs on: ExitISR always finds a page
\* of it (isr.c:464).
THEOREM ExitEnds == ProgSpec => []ExitEndsTheProgram
<1>1. AllInv => ExitEndsTheProgram
  <2> SUFFICES ASSUME AllInv, NEW p \in PID, p >= NSYS, todo[p] = <<>>
               PROVE  /\ state[p] \in {"UNUSED", "ZOMBIE"}
                      /\ p # run_pid /\ p \notin Range(proc_q)
    BY DEF ExitEndsTheProgram
  <2>1. state[p] \in {"UNUSED", "ZOMBIE"}
    BY DEF AllInv, ProgInv, ChildOK
  <2>2. p # run_pid /\ p \notin Range(proc_q)
    BY <2>1, RunningIsInNoQueue DEF AllInv, Places, ReadyOK, Runnable
  <2> QED
    BY <2>1, <2>2
<1> QED
  BY <1>1, AllInvAlways, PTL

\* A shell blocked in Wait has a child that has not exited, or its Fork failed
\* without saying so (proc.c:225).
THEOREM ShellIsStuckOnlyAfterRefusal == ProgSpec => []StuckOnlyAfterRefusal
<1>1. AllInv => StuckOnlyAfterRefusal
  <2> SUFFICES ASSUME AllInv, state[SHELL] = "WAIT4CHILD", child # NONE
               PROVE  state[child] \notin {"UNUSED", "ZOMBIE"}
    BY DEF StuckOnlyAfterRefusal
  <2>1. InUse(child) /\ child \in PID
    BY DEF AllInv, ProgInv, PlansOK, ChildOK, ToWait
  <2>2. ppid[child] = SHELL /\ state[child] # "UNUSED" /\ SHELL \in PID
    BY <2>1, Kinds DEF AllInv, ProgInv, ChildOK, InUse
  <2>3. state[child] # "ZOMBIE"
    BY <2>1, <2>2 DEF AllInv, NoLostExit
  <2> QED
    BY <2>2, <2>3
<1> QED
  BY <1>1, AllInvAlways, PTL
=============================================================================
