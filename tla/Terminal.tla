------------------------------ MODULE Terminal ------------------------------
(***************************************************************************)
(* The terminal: proc_interface, its three queues and two semaphores, the  *)
(* interrupt handler (TerminalISR) and the two processes TerminalIn and    *)
(* TerminalOut, which work on the same queues with interrupts enabled.     *)
(*                                                                         *)
(* The handler is one step.  EnQ and DeQ of the processes are not: the     *)
(* cells and one cursor belong to the process, but "size" is updated by    *)
(* both sides.  A build of the kernel makes one instruction of size++ or   *)
(* three (load, add, store): the workload that Init chooses tells which.   *)
(*                                                                         *)
(* The semaphores are counting semaphores (PassesConserved of Semaphores)  *)
(* with one process each that waits: a value of -1 means it is blocked.    *)
(* The UART is external: it holds one received character, sends one        *)
(* character at a time, and raises TXRDY when it has sent it.              *)
(***************************************************************************)
EXTENDS Integers, Sequences

CONSTANTS
  N,            \* cells of a queue (Q_SIZE)
  Workloads,    \* the builds, and what is typed and shown (see below)
  MAX_SPACE     \* bound on what waits to be sent; out_q_sem has none

NUL == "nul"
CR == "cr"
NL == "nl"

ASSUME TerminalAssumption ==
  /\ N \in Nat \ {0}
  /\ MAX_SPACE \in Nat

\* A workload is a record: atomic, whether size++ and size-- are single
\* instructions; texts, what TerminalOut may be asked to show; keys, what may
\* be typed; arrived, a bound on what waits to be taken, for in_q_sem has none.
\* A text ends at the first NUL, and nothing the programs show has a CR: they
\* end a line with NL, and the handler ends one that is typed at the CR.
ASSUME WorkloadAssumption ==
  \A w \in Workloads :
    /\ w.atomic \in BOOLEAN
    /\ w.keys \subseteq STRING
    /\ \A s \in w.texts :
         s \in Seq(STRING) /\ \A i \in DOMAIN s : s[i] \notin {NUL, CR}

JUNK == "-1"    \* what DeQ of an empty queue returns

VARIABLES
  term,      \* proc_interface, the values of its semaphores, the UART, and
             \* the workload: given
  pc_in,     \* where TerminalIn is
  ch,        \* TerminalIn: the character taken
  in_size,   \* TerminalIn: the size loaded
  pc_out,    \* where TerminalOut is
  text,      \* TerminalOut: what p points to
  out_size   \* TerminalOut: the size loaded

inVars == <<pc_in, ch, in_size>>
outVars == <<pc_out, text, out_size>>
vars == <<term, inVars, outVars>>
----------------------------------------------------------------------------
\* q_t and its operations.  The cells are those from head on, and tail is
\* the number of cells it is ahead of head.
EmptyQ == [q |-> [i \in 1 .. N |-> NUL], tail |-> 0, size |-> 0]

\* EnQ up to size++, DeQ up to size--.
PutCell(x, r) ==
  [r EXCEPT !.q[IF r.size = 0 THEN 1 ELSE r.tail + 1] = x, !.tail = (@ + 1) % N]

TakeCell(r) ==
  [r EXCEPT !.q = Append(Tail(@), Head(@)), !.tail = (@ - 1) % N]

EnQ(x, r) == IF r.size < N THEN [PutCell(x, r) EXCEPT !.size = @ + 1] ELSE r

DeQ(r) == [TakeCell(r) EXCEPT !.size = @ - 1]

First(r) == Head(r.q)

Contents(r) == SubSeq(r.q, 1, r.size)

\* echo_q is used by the handler alone: a bounded sequence.
EchoQ(c, q) == IF Len(q) < N THEN Append(q, c) ELSE q

\* The shell has posted out_q_sem for every free cell and enabled the UART,
\* whose transmitter is empty.  History: unsent is what TerminalOut put and
\* the handler has not sent, untaken what in_q accepted and TerminalIn has
\* not taken; garbled tells that either gave out something else.
Init ==
  /\ \E w \in Workloads :
     term = [given |-> w,
             in_q |-> EmptyQ, out_q |-> EmptyQ, echo_q |-> <<>>,
             in_q_sem |-> 0, out_q_sem |-> N, flag |-> 1, out_extra |-> 1,
             rx |-> NUL, tx |-> TRUE, busy |-> FALSE, overrun |-> FALSE,
             unsent |-> <<>>, untaken |-> <<>>, garbled |-> FALSE]
  /\ pc_in = "idle" /\ ch = NUL /\ in_size = 0
  /\ pc_out = "idle" /\ text = <<>> /\ out_size = 0

\* Is c not what comes next in s?
NotNext(c, s) == s = <<>> \/ c # Head(s)

Rest(s) == IF s = <<>> THEN s ELSE Tail(s)
----------------------------------------------------------------------------
\* A TerminalISRout that leaves out_extra set while the UART sends.
TransmitKeepsExtra(t) ==
  [t EXCEPT !.busy = TRUE, !.tx = FALSE, !.overrun = @ \/ t.busy]

\* outportb(DATA): the UART sends a character and withdraws TXRDY.
Transmit(t) ==
  [t EXCEPT !.busy = TRUE, !.tx = FALSE, !.out_extra = 0,
            !.overrun = @ \/ t.busy]

\* A handler that posts out_q_sem for a character of echo_q too.
TakeEchoAndPost(t) == [t EXCEPT !.echo_q = Tail(@), !.out_q_sem = @ + 1]

TakeEcho(t) == [t EXCEPT !.echo_q = Tail(@)]

TakeOut(t) ==
  [t EXCEPT !.out_q = DeQ(@), !.out_q_sem = @ + 1, !.unsent = Rest(@),
            !.garbled = @ \/ NotNext(First(t.out_q), t.unsent)]

\* A character 0 is taken like any other, but not sent.
TerminalISRout(t) ==
  IF t.echo_q # <<>> THEN Transmit(TakeEcho(t))
  ELSE IF t.out_q.size = 0 THEN [t EXCEPT !.out_extra = 1]
  ELSE IF First(t.out_q) = NUL THEN [TakeOut(t) EXCEPT !.out_extra = 1]
  ELSE Transmit(TakeOut(t))

\* What a character adds to echo_q.
Echo(c, t) ==
  IF c = CR THEN EchoQ(NL, EchoQ(CR, t.echo_q))
  ELSE IF t.flag = 1 THEN EchoQ(c, t.echo_q) ELSE t.echo_q

\* A TerminalISRin that does not post the end of a line.
TerminalISRinPostsText(t) ==
  [t EXCEPT !.rx = NUL, !.in_q = EnQ(t.rx, @), !.echo_q = Echo(t.rx, t),
            !.in_q_sem = IF t.rx = CR THEN @ ELSE @ + 1,
            !.untaken = IF t.in_q.size < N THEN Append(@, t.rx) ELSE @]

\* The semaphore is posted even when in_q is full.
TerminalISRin(t) ==
  [t EXCEPT !.rx = NUL, !.in_q = EnQ(t.rx, @), !.echo_q = Echo(t.rx, t),
            !.in_q_sem = @ + 1,
            !.untaken = IF t.in_q.size < N THEN Append(@, t.rx) ELSE @]

\* What IIR names; reading it withdraws a TXRDY.
Served(t) ==
  IF t.rx # NUL THEN TerminalISRin(t)
  ELSE IF t.tx THEN TerminalISRout([t EXCEPT !.tx = FALSE])
  ELSE t

\* A handler that serves only what IIR names.
TerminalISRWithoutExtra(t) == Served(t)

TerminalISR(t) ==
  IF Served(t).out_extra = 1 THEN TerminalISRout(Served(t)) ELSE Served(t)

TerminalIntr ==
  /\ term.rx # NUL \/ term.tx
  /\ term' = TerminalISR(term)
  /\ UNCHANGED <<inVars, outVars>>

Sent ==
  /\ term.busy
  /\ term' = [term EXCEPT !.busy = FALSE, !.tx = TRUE]
  /\ UNCHANGED <<inVars, outVars>>

Type(c) ==
  /\ term.rx = NUL
  /\ term.in_q_sem < term.given.arrived
  /\ Len(term.untaken) < term.given.arrived
  /\ term' = [term EXCEPT !.rx = c]
  /\ UNCHANGED <<inVars, outVars>>
----------------------------------------------------------------------------
\* A shell asks TerminalIn for a line, with or without echo.
AskLine ==
  /\ pc_in = "idle"
  /\ pc_in' = "wait"
  /\ \E e \in {0, 1} : term' = [term EXCEPT !.flag = e]
  /\ UNCHANGED <<ch, in_size, outVars>>

\* SemWait(in_q_sem).
InWait ==
  /\ pc_in = "wait"
  /\ pc_in' = "deq"
  /\ term' = [term EXCEPT !.in_q_sem = @ - 1]
  /\ UNCHANGED <<ch, in_size, outVars>>

\* DeQ, once SemWait has returned.
InDeQ ==
  /\ pc_in = "deq" /\ term.in_q_sem >= 0
  /\ IF term.in_q.size = 0
     THEN ch' = JUNK /\ pc_in' = "got" /\ UNCHANGED term
     ELSE /\ ch' = First(term.in_q)
          /\ term' = [term EXCEPT !.in_q = TakeCell(@)]
          /\ pc_in' = IF term.given.atomic THEN "dec" ELSE "load"
  /\ UNCHANGED <<in_size, outVars>>

InLoad ==
  /\ pc_in = "load"
  /\ pc_in' = "dec"
  /\ in_size' = term.in_q.size
  /\ UNCHANGED <<term, ch, outVars>>

\* A DeQ that takes the element but not its count.
InDecLater ==
  /\ pc_in = "dec"
  /\ pc_in' = "got"
  /\ UNCHANGED <<term, ch, in_size, outVars>>

InDec ==
  /\ pc_in = "dec"
  /\ pc_in' = "got"
  /\ term' = [term EXCEPT !.in_q.size = IF term.given.atomic THEN @ - 1 ELSE in_size - 1,
                          !.untaken = Rest(@),
                          !.garbled = @ \/ NotNext(ch, term.untaken)]
  /\ in_size' = 0
  /\ UNCHANGED <<ch, outVars>>

\* The character goes to the line, or ends it.
InGot ==
  /\ pc_in = "got"
  /\ pc_in' = IF ch = CR THEN "idle" ELSE "wait"
  /\ ch' = NUL
  /\ UNCHANGED <<term, in_size, outVars>>

TerminalIn == InWait \/ InDeQ \/ InLoad \/ InDec \/ InGot
----------------------------------------------------------------------------
\* A process asks TerminalOut to show s.
AskShow(s) ==
  /\ pc_out = "idle"
  /\ term.out_q_sem <= MAX_SPACE /\ Len(term.unsent) <= MAX_SPACE
  /\ pc_out' = "next"
  /\ text' = s
  /\ UNCHANGED <<term, out_size, inVars>>

\* The loop test and SemWait(out_q_sem); at the end of the text, MsgSnd.
OutWait ==
  /\ pc_out = "next" /\ text # <<>>
  /\ pc_out' = "enq"
  /\ term' = [term EXCEPT !.out_q_sem = @ - 1]
  /\ UNCHANGED <<text, out_size, inVars>>

OutAnswer ==
  /\ pc_out = "next" /\ text = <<>>
  /\ pc_out' = "idle"
  /\ UNCHANGED <<term, text, out_size, inVars>>

\* An EnQ without SemWait before it.
NotAwaited == TRUE

\* SemWait(out_q_sem) has returned.
SpaceGranted == term.out_q_sem >= 0

OutEnQ ==
  /\ pc_out = "enq" /\ SpaceGranted
  /\ term' = [term EXCEPT !.unsent = Append(@, Head(text)),
       !.out_q = IF @.size = N THEN @ ELSE PutCell(Head(text), @)]
  /\ pc_out' = IF term.out_q.size = N THEN "put"
               ELSE IF term.given.atomic THEN "inc" ELSE "load"
  /\ UNCHANGED <<text, out_size, inVars>>

OutLoad ==
  /\ pc_out = "load"
  /\ pc_out' = "inc"
  /\ out_size' = term.out_q.size
  /\ UNCHANGED <<term, text, inVars>>

OutInc ==
  /\ pc_out = "inc"
  /\ pc_out' = "put"
  /\ term' = [term EXCEPT !.out_q.size = IF term.given.atomic THEN @ + 1 ELSE out_size + 1]
  /\ out_size' = 0
  /\ UNCHANGED <<text, inVars>>

\* A TerminalOut without TripTerminal.
OutNoTrip ==
  /\ pc_out = "put"
  /\ pc_out' = "next"
  /\ text' = IF Head(text) = NL THEN <<CR>> \o Tail(text) ELSE Tail(text)
  /\ UNCHANGED <<term, out_size, inVars>>

\* TripTerminal runs the handler, whatever the UART has to report.  It does
\* not follow the EnQ of the carriage return added after a newline.
OutTrip ==
  /\ pc_out = "put"
  /\ pc_out' = "next"
  /\ IF Head(text) = CR THEN UNCHANGED term ELSE term' = TerminalISR(term)
  /\ text' = IF Head(text) = NL THEN <<CR>> \o Tail(text) ELSE Tail(text)
  /\ UNCHANGED <<out_size, inVars>>

TerminalOut == OutWait \/ OutAnswer \/ OutEnQ \/ OutLoad \/ OutInc \/ OutTrip
----------------------------------------------------------------------------
Next ==
  \/ TerminalIntr
  \/ Sent
  \/ \E c \in term.given.keys : Type(c)
  \/ AskLine
  \/ TerminalIn
  \/ \E s \in term.given.texts : AskShow(s)
  \/ TerminalOut

Spec == Init /\ [][Next]_vars

\* The UART sends and interrupts; both processes run when they can.
FairSpec ==
  /\ Spec
  /\ WF_vars(TerminalIntr) /\ WF_vars(Sent)
  /\ WF_vars(TerminalIn) /\ WF_vars(TerminalOut)
----------------------------------------------------------------------------
\* If size++ is one instruction, what TerminalOut puts into out_q is sent in
\* order, once, and nothing else, and what in_q accepted is taken in order,
\* once, and nothing else: EnQ and DeQ of a process and of the handler never
\* spoil each other's work.
NothingGarbled ==
  term.given.atomic =>
    /\ ~ term.garbled
    /\ pc_out # "inc" => term.unsent = Contents(term.out_q)
    /\ pc_in # "dec" => term.untaken = Contents(term.in_q)

\* If size++ is one instruction, out_q_sem is the "transmit space available
\* count" (type.h:55), less the cell TerminalOut is about to fill; so
\* TerminalOut never meets a full out_q.
SpaceCounted ==
  LET reserved == IF pc_out \in {"enq", "inc"} THEN 1 ELSE 0
  IN term.given.atomic => term.out_q_sem + term.out_q.size + reserved = N

\* In any build the handler never writes to the UART while it still sends:
\* out_extra, the TXRDY event and TripTerminal never conspire to send two at
\* once.
NoOverrun == ~ term.overrun

\* When the UART is idle and has nothing to report, nothing waits to be
\* echoed, and nothing waits in out_q but a last carriage return, queued
\* without TripTerminal, or what TerminalOut is about to trip.
IdleOnlyWhenDone ==
  (term.given.atomic /\ ~ term.busy /\ ~ term.tx /\ term.rx = NUL) =>
    /\ term.echo_q = <<>>
    /\ Contents(term.out_q) \in {<<>>, <<CR>>} \/ pc_out = "put"

\* A request to show something is answered unless somebody types, for the
\* echo comes first: the process never waits for space while the UART waits
\* for the process.
ShowEnds ==
  term.given.atomic /\ pc_out # "idle" ~> pc_out = "idle" \/ term.rx # NUL

\* A carriage return that in_q accepted ends the line TerminalIn reads, also
\* when posts and characters disagree.
LineEnds ==
  /\ term.given.atomic /\ pc_in # "idle"
  /\ \E i \in DOMAIN term.untaken : term.untaken[i] = CR
  ~> pc_in = "idle"
=============================================================================
