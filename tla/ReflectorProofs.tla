---------------------------- MODULE ReflectorProofs ----------------------------
(***************************************************************************)
(* Proofs about Reflector, for every number of files and workers, every    *)
(* capacity of sharedQueue and every count of hardware threads: the queues *)
(* are used as MPMCQueue wants them used, the threads are counted, and the *)
(* main thread runs all that the workers send, in order, a file's messages *)
(* after the file, and reports as many files as it was given.              *)
(*                                                                         *)
(* What a thread may assume of a queue it takes from the invariant of      *)
(* MPMCQueueProofs; a step of a queue is then described by its effect on   *)
(* the counters, the logs and the threads, and the slots are not spoken of *)
(* again.                                                                  *)
(***************************************************************************)
EXTENDS Reflector, RecursionProofs, FiniteSetTheorems, TLAPS

FQ == INSTANCE MPMCQueueProofs WITH
  Values <- Files, Raw <- None, Capacity <- NumFiles, MaxTickets <- NumFiles,
  head <- fHead, tail <- fTail, slotTurn <- fTurn, storage <- fStorage, sent <- fSent,
  pc <- fPc, ticket <- fTicket, val <- fVal, ret <- fRet

RQ == INSTANCE MPMCQueueProofs WITH
  Values <- Results, Raw <- NoResult, Capacity <- ResultCapacity,
  MaxTickets <- 3 * NumFiles,
  head <- rHead, tail <- rTail, slotTurn <- rTurn, storage <- rStorage, sent <- rSent,
  pc <- rPc, ticket <- rTicket, val <- rVal, ret <- rRet

-----------------------------------------------------------------------------
(* The instances of the model and those of the proofs say the same.        *)

LEMMA FileQueueSame ==
  /\ FQ!Init <=> fileQueue!Init
  /\ FQ!TypeOK <=> fileQueue!TypeOK
  /\ FQ!Next <=> fileQueue!Next
<1>1. (FQ!Init <=> fileQueue!Init) /\ (FQ!TypeOK <=> fileQueue!TypeOK)
  BY DEF FQ!Init, fileQueue!Init, FQ!TypeOK, fileQueue!TypeOK, FQ!Slots,
      fileQueue!Slots, FQ!PCs, fileQueue!PCs, FQ!EmptyPCs, fileQueue!EmptyPCs,
      FQ!TryPCs, fileQueue!TryPCs, FQ!WritePCs, fileQueue!WritePCs, FQ!ReadPCs,
      fileQueue!ReadPCs, FQ!Sending, fileQueue!Sending
<1>2. FQ!Next <=> fileQueue!Next
  BY DEF FQ!Emplace, fileQueue!Emplace, FQ!EmplaceSpin, fileQueue!EmplaceSpin,
      FQ!Construct, fileQueue!Construct, FQ!Publish, fileQueue!Publish, FQ!TryEmplace,
      fileQueue!TryEmplace, FQ!TryEmplaceCheck, fileQueue!TryEmplaceCheck,
      FQ!TryEmplaceCas, fileQueue!TryEmplaceCas, FQ!TryEmplaceReload,
      fileQueue!TryEmplaceReload, FQ!Pop, fileQueue!Pop, FQ!PopSpin, fileQueue!PopSpin,
      FQ!Move, fileQueue!Move, FQ!Destroy, fileQueue!Destroy, FQ!Release,
      fileQueue!Release, FQ!TryPop, fileQueue!TryPop, FQ!TryPopCheck,
      fileQueue!TryPopCheck, FQ!TryPopCas, fileQueue!TryPopCas, FQ!TryPopReload,
      fileQueue!TryPopReload, FQ!EmptyLoadHead, fileQueue!EmptyLoadHead,
      FQ!EmptyLoadTail, fileQueue!EmptyLoadTail, FQ!EmplaceStep, fileQueue!EmplaceStep,
      FQ!TryPopStep, fileQueue!TryPopStep, FQ!Begin, fileQueue!Begin, FQ!Continue,
      fileQueue!Continue, FQ!Empty, fileQueue!Empty, FQ!Goto, fileQueue!Goto,
      FQ!Return, fileQueue!Return, FQ!Slot, fileQueue!Slot, FQ!idx, fileQueue!idx,
      FQ!turn, fileQueue!turn, FQ!ProducerTurn, fileQueue!ProducerTurn,
      FQ!ConsumerTurn, fileQueue!ConsumerTurn, FQ!Next, fileQueue!Next
<1> QED
  BY <1>1, <1>2

LEMMA SharedQueueSame ==
  /\ RQ!Init <=> sharedQueue!Init
  /\ RQ!TypeOK <=> sharedQueue!TypeOK
  /\ RQ!Next <=> sharedQueue!Next
<1>1. (RQ!Init <=> sharedQueue!Init) /\ (RQ!TypeOK <=> sharedQueue!TypeOK)
  BY DEF RQ!Init, sharedQueue!Init, RQ!TypeOK, sharedQueue!TypeOK, RQ!Slots,
      sharedQueue!Slots, RQ!PCs, sharedQueue!PCs, RQ!EmptyPCs, sharedQueue!EmptyPCs,
      RQ!TryPCs, sharedQueue!TryPCs, RQ!WritePCs, sharedQueue!WritePCs, RQ!ReadPCs,
      sharedQueue!ReadPCs, RQ!Sending, sharedQueue!Sending
<1>2. RQ!Next <=> sharedQueue!Next
  BY DEF RQ!Emplace, sharedQueue!Emplace, RQ!EmplaceSpin, sharedQueue!EmplaceSpin,
      RQ!Construct, sharedQueue!Construct, RQ!Publish, sharedQueue!Publish,
      RQ!TryEmplace, sharedQueue!TryEmplace, RQ!TryEmplaceCheck,
      sharedQueue!TryEmplaceCheck, RQ!TryEmplaceCas, sharedQueue!TryEmplaceCas,
      RQ!TryEmplaceReload, sharedQueue!TryEmplaceReload, RQ!Pop, sharedQueue!Pop,
      RQ!PopSpin, sharedQueue!PopSpin, RQ!Move, sharedQueue!Move, RQ!Destroy,
      sharedQueue!Destroy, RQ!Release, sharedQueue!Release, RQ!TryPop,
      sharedQueue!TryPop, RQ!TryPopCheck, sharedQueue!TryPopCheck, RQ!TryPopCas,
      sharedQueue!TryPopCas, RQ!TryPopReload, sharedQueue!TryPopReload,
      RQ!EmptyLoadHead, sharedQueue!EmptyLoadHead, RQ!EmptyLoadTail,
      sharedQueue!EmptyLoadTail, RQ!EmplaceStep, sharedQueue!EmplaceStep,
      RQ!TryPopStep, sharedQueue!TryPopStep, RQ!Begin, sharedQueue!Begin, RQ!Continue,
      sharedQueue!Continue, RQ!Empty, sharedQueue!Empty, RQ!Goto, sharedQueue!Goto,
      RQ!Return, sharedQueue!Return, RQ!Slot, sharedQueue!Slot, RQ!idx,
      sharedQueue!idx, RQ!turn, sharedQueue!turn, RQ!ProducerTurn,
      sharedQueue!ProducerTurn, RQ!ConsumerTurn, sharedQueue!ConsumerTurn, RQ!Next,
      sharedQueue!Next
<1> QED
  BY <1>1, <1>2

-----------------------------------------------------------------------------
(* What the workers send.                                                  *)

Spliced(g, a, b, c, n) ==
  \A i \in 1 .. n + 2 :
    g[i] = IF i = 1 THEN a[1] ELSE IF i = n + 2 THEN c[1] ELSE b[i - 1]

LEMMA JoinedAt ==
  ASSUME NEW S, NEW a \in Seq(S), NEW b \in Seq(S), NEW i \in 1 .. Len(a) + Len(b)
  PROVE  (a \o b)[i] = IF i <= Len(a) THEN a[i] ELSE b[i - Len(a)]
BY ConcatProperties

LEMMA ThreeParts ==
  ASSUME NEW S, NEW a \in Seq(S), NEW b \in Seq(S), NEW c \in Seq(S), NEW n \in Nat,
         Len(a) = 1, Len(b) = n, Len(c) = 1
  PROVE  /\ (a \o b) \o c \in Seq(S)
         /\ Len((a \o b) \o c) = n + 2
         /\ Spliced((a \o b) \o c, a, b, c, n)
<1> DEFINE d == a \o b
           g == d \o c
<1>1. d \in Seq(S) /\ Len(d) = Len(a) + Len(b)
  BY ConcatProperties
<1>2. \A i \in 1 .. Len(a) + Len(b) : d[i] = IF i <= Len(a) THEN a[i] ELSE b[i - Len(a)]
  BY JoinedAt
<1> HIDE DEF d
<1>3. g \in Seq(S) /\ Len(g) = Len(d) + Len(c)
  BY <1>1, ConcatProperties
<1>4. \A i \in 1 .. Len(d) + Len(c) : g[i] = IF i <= Len(d) THEN d[i] ELSE c[i - Len(d)]
  BY <1>1, JoinedAt
<1> HIDE DEF g
<1>5. ASSUME NEW i \in 1 .. n + 2
      PROVE  g[i] = IF i = 1 THEN a[1] ELSE IF i = n + 2 THEN c[1] ELSE b[i - 1]
  <2>1. g[i] = IF i <= n + 1 THEN d[i] ELSE c[1]
    BY <1>1, <1>4
  <2>2. i <= n + 1 => d[i] = IF i <= 1 THEN a[i] ELSE b[i - 1]
    BY <1>2
  <2> QED
    BY <2>1, <2>2
<1>6. g \in Seq(S) /\ Len(g) = n + 2
  BY <1>1, <1>3
<1> QED
  BY <1>5, <1>6 DEF d, g, Spliced

\* The calls of the backend for the file f, up to its end e.
Calls(r, f, e) ==
  /\ r \in Seq(Operations)
  /\ Len(r) \in 2 .. MaxDecls + 2
  /\ \A i \in 1 .. Len(r) :
       r[i] = IF i = 1 THEN <<f, "begin">>
              ELSE IF i = Len(r) THEN <<f, e>> ELSE <<f, "decl">>

LEMMA CallsWritten ==
  ASSUME NEW f \in Files, NEW n \in 0 .. MaxDecls, NEW e \in {"end", "end_error"}
  PROVE  LET q == << <<f, "begin">> >> \o [i \in 1 .. n |-> <<f, "decl">>] \o << <<f, e>> >>
         IN  Calls(q, f, e) /\ Len(q) = n + 2
<1> DEFINE a == << <<f, "begin">> >>
           b == [i \in 1 .. n |-> <<f, "decl">>]
           c == << <<f, e>> >>
           q == a \o b \o c
<1>0. /\ MaxDecls \in Nat /\ n \in Nat
      /\ <<f, "begin">> \in Operations /\ <<f, "decl">> \in Operations
      /\ <<f, e>> \in Operations
  BY BoundsAssumption DEF Operations
<1>1. a \in Seq(Operations) /\ Len(a) = 1 /\ a[1] = <<f, "begin">>
  BY <1>0
<1>2. c \in Seq(Operations) /\ Len(c) = 1 /\ c[1] = <<f, e>>
  BY <1>0
<1>3. b \in Seq(Operations) /\ Len(b) = n /\ \A i \in 1 .. n : b[i] = <<f, "decl">>
  BY <1>0
<1> HIDE DEF a, b, c
<1>4. q \in Seq(Operations)
  BY <1>0, <1>1, <1>2, <1>3, ThreeParts
<1>5. Len(q) = n + 2
  BY <1>0, <1>1, <1>2, <1>3, ThreeParts
<1>6. Spliced(q, a, b, c, n)
  BY <1>0, <1>1, <1>2, <1>3, ThreeParts
<1> HIDE DEF q
<1>7. ASSUME NEW i \in 1 .. n + 2
      PROVE  q[i] = IF i = 1 THEN <<f, "begin">>
                    ELSE IF i = n + 2 THEN <<f, e>> ELSE <<f, "decl">>
  <2>1. q[i] = IF i = 1 THEN a[1] ELSE IF i = n + 2 THEN c[1] ELSE b[i - 1]
    BY <1>6 DEF Spliced
  <2>2. i # 1 /\ i # n + 2 => i - 1 \in 1 .. n
    BY <1>0
  <2> QED
    BY <1>1, <1>2, <1>3, <2>1, <2>2
<1>8. Calls(q, f, e)
  BY <1>0, <1>4, <1>5, <1>7 DEF Calls
<1> QED
  BY <1>5, <1>8 DEF q, a, b, c

LEMMA CallsUnique ==
  ASSUME NEW f, NEW e, NEW q, NEW r, Calls(q, f, e), Calls(r, f, e), Len(q) = Len(r)
  PROVE  q = r
<1>1. /\ q \in Seq(Operations) /\ r \in Seq(Operations)
      /\ \A i \in 1 .. Len(q) : q[i] = r[i]
  BY DEF Calls
<1> QED
  BY <1>1, SeqEqual

\* The calls recorded for a file are those that have this form.
LEMMA BackendCallsForm ==
  ASSUME NEW f \in Files
  PROVE  /\ \A r : r \in BackendCalls(f) <=> \E e \in {"end", "end_error"} : Calls(r, f, e)
         /\ \A r : r \in BackendCalls(f) => r \in Seq(Operations) /\ Len(r) \in Nat \ {0, 1}
<1> DEFINE q(n, e) == << <<f, "begin">> >> \o [i \in 1 .. n |-> <<f, "decl">>] \o << <<f, e>> >>
<1>0. BackendCalls(f) = {q(n, e) : n \in 0 .. MaxDecls, e \in {"end", "end_error"}}
  BY DEF BackendCalls
<1>a. ASSUME NEW n \in 0 .. MaxDecls, NEW e \in {"end", "end_error"}
      PROVE  Calls(q(n, e), f, e) /\ Len(q(n, e)) = n + 2
  BY CallsWritten
<1> HIDE DEF q
<1>1. ASSUME NEW r \in BackendCalls(f)
      PROVE  \E e \in {"end", "end_error"} : Calls(r, f, e)
  BY <1>0, <1>a
<1>2. ASSUME NEW r, NEW e \in {"end", "end_error"}, Calls(r, f, e)
      PROVE  r \in BackendCalls(f)
  <2> DEFINE n == Len(r) - 2
  <2>1. n \in 0 .. MaxDecls /\ n + 2 = Len(r)
    BY <1>2, BoundsAssumption DEF Calls
  <2> HIDE DEF n
  <2>2. q(n, e) \in BackendCalls(f)
    BY <1>0, <2>1
  <2>3. q(n, e) = r
    BY <1>2, <1>a, <2>1, CallsUnique
  <2> QED
    BY <2>2, <2>3
<1>3. ASSUME NEW r, NEW e, Calls(r, f, e) PROVE r \in Seq(Operations) /\ Len(r) \in Nat \ {0, 1}
  BY <1>3, BoundsAssumption DEF Calls
<1> QED
  BY <1>1, <1>2, <1>3

\* Every Result is made of operations on one file, and is not empty.
LEMMA ResultForm ==
  ASSUME NEW r \in Results
  PROVE  /\ r \in Seq(Operations)
         /\ Len(r) \in Nat \ {0}
         /\ \E f \in Files : r \in BackendCalls(f) \/ r \in Messages(f)
<1>1. PICK f \in Files : r \in BackendCalls(f) \/ r \in Messages(f)
  BY DEF Results
<1>2. r \in Messages(f) => r \in Seq(Operations) /\ Len(r) \in Nat \ {0}
  <2> SUFFICES ASSUME NEW m \in {"log_unreadable", "log_error", "log_profile"},
                      r = << <<f, m>> >>
               PROVE  r \in Seq(Operations) /\ Len(r) \in Nat \ {0}
    BY DEF Messages
  <2>1. <<f, m>> \in Operations
    BY DEF Operations
  <2> QED
    BY <2>1
<1> QED
  BY <1>1, <1>2, BackendCallsForm

-----------------------------------------------------------------------------
(* What the invariant of a queue says of its counters and its threads.     *)

SendPCs   == {"emplace_spin", "construct", "publish"}
EmptyPCs  == {"empty_head", "empty_tail"}
TryPopPCs == {"try_pop_check", "try_pop_cas", "try_pop_reload"}
ReadPCs   == {"move", "destroy", "release"}
QueuePCs  == {"idle", "pop_spin", "try_emplace_check", "try_emplace_cas",
              "try_emplace_reload"}
               \union SendPCs \union EmptyPCs \union TryPopPCs \union ReadPCs

LEMMA FileQueueParameters ==
  NumFiles \in Nat \ {0} /\ NumFiles \in Nat /\ None \notin Files
BY NumFilesAssumption DEF None, Files

LEMMA FileQueueFacts ==
  ASSUME FQ!IInv
  PROVE  /\ fHead \in 0 .. NumFiles /\ fTail \in 0 .. NumFiles
         /\ fSent \in Seq(Files) /\ Len(fSent) = fHead
         /\ fPc \in [Threads -> QueuePCs]
         /\ fTicket \in [Threads -> Nat]
         /\ fVal \in [Threads -> Files \union {None}]
         /\ fRet \in [Threads -> BOOLEAN]
BY DEF FQ!IInv, FQ!TypeOK, FQ!TurnBehindCounters, FQ!Tickets, QueuePCs, SendPCs,
      EmptyPCs, TryPopPCs, ReadPCs, FQ!PCs, FQ!EmptyPCs, FQ!TryPCs, FQ!WritePCs,
      FQ!ReadPCs

LEMMA FileQueueFactsNext ==
  ASSUME FQ!IInv'
  PROVE  /\ fHead' \in 0 .. NumFiles /\ fTail' \in 0 .. NumFiles
         /\ fSent' \in Seq(Files) /\ Len(fSent') = fHead'
         /\ fPc' \in [Threads -> QueuePCs]
         /\ fTicket' \in [Threads -> Nat]
         /\ fVal' \in [Threads -> Files \union {None}]
BY DEF FQ!IInv, FQ!TypeOK, FQ!TurnBehindCounters, FQ!Tickets, QueuePCs, SendPCs,
      EmptyPCs, TryPopPCs, ReadPCs, FQ!PCs, FQ!EmptyPCs, FQ!TryPCs, FQ!WritePCs,
      FQ!ReadPCs

LEMMA FileConsumer ==
  ASSUME FQ!IInv, NEW t \in Threads
  PROVE  /\ fPc[t] \in ReadPCs => fTicket[t] < fTail /\ fTicket[t] < fHead
         /\ fPc[t] \in {"destroy", "release"} => fVal[t] = fSent[fTicket[t] + 1]
         /\ fPc[t] = "try_pop_cas" /\ fTicket[t] = fTail => fTail < fHead
<1> USE FileQueueParameters, FileQueueFacts
<1>1. \A k \in 0 .. NumFiles : k >= fHead => fTurn[FQ!idx(k)] <= FQ!turn(k) * 2
  BY DEF FQ!IInv, FQ!TurnBehindCounters, FQ!Tickets
<1>2. /\ fPc[t] \in ReadPCs =>
           fTicket[t] < fTail /\ fTurn[FQ!Slot(t)] = FQ!turn(fTicket[t]) * 2 + 1
      /\ fPc[t] = "try_pop_cas" => fTurn[FQ!Slot(t)] >= FQ!turn(fTicket[t]) * 2 + 1
  BY DEF FQ!IInv, FQ!ConsumersInTurn, FQ!Consuming, FQ!ReadPCs, ReadPCs
<1>3. FQ!Slot(t) = FQ!idx(fTicket[t]) /\ FQ!Slot(t) \in FQ!Slots
      /\ FQ!turn(fTicket[t]) \in Nat
  BY FQ!OwnTicket DEF FQ!Slot, FQ!IInv
<1>4. fTurn[FQ!Slot(t)] \in Nat
  BY <1>3 DEF FQ!IInv, FQ!TypeOK
<1>a. fTicket[t] \in 0 .. NumFiles /\ fTicket[t] >= fHead
        => fTurn[FQ!Slot(t)] <= FQ!turn(fTicket[t]) * 2
  BY <1>1, <1>3
<1>5. fPc[t] \in ReadPCs => fTicket[t] < fHead
  BY <1>a, <1>2, <1>3, <1>4
<1>6. fPc[t] = "try_pop_cas" /\ fTicket[t] = fTail => fTail < fHead
  BY <1>a, <1>2, <1>3, <1>4
<1>7. fPc[t] \in {"destroy", "release"} => fVal[t] = fSent[fTicket[t] + 1]
  BY DEF FQ!IInv, FQ!OwnSlot
<1> QED
  BY <1>2, <1>5, <1>6, <1>7

LEMMA SharedQueueParameters ==
  ResultCapacity \in Nat \ {0} /\ 3 * NumFiles \in Nat /\ NoResult \notin Results
<1>1. NoResult \notin Results
  BY ResultForm DEF NoResult
<1> QED
  BY <1>1, CapacityAssumption, NumFilesAssumption

LEMMA SharedQueueFacts ==
  ASSUME RQ!IInv
  PROVE  /\ rHead \in Nat /\ rTail \in Nat
         /\ rSent \in Seq(Results) /\ Len(rSent) = rHead
         /\ rPc \in [Threads -> QueuePCs]
         /\ rTicket \in [Threads -> Nat]
         /\ rVal \in [Threads -> Results \union {NoResult}]
         /\ rRet \in [Threads -> BOOLEAN]
BY DEF RQ!IInv, RQ!TypeOK, QueuePCs, SendPCs, EmptyPCs, TryPopPCs, ReadPCs, RQ!PCs,
      RQ!EmptyPCs, RQ!TryPCs, RQ!WritePCs, RQ!ReadPCs

LEMMA SharedQueueFactsNext ==
  ASSUME RQ!IInv'
  PROVE  /\ rHead' \in Nat /\ rTail' \in Nat
         /\ rSent' \in Seq(Results) /\ Len(rSent') = rHead'
         /\ rPc' \in [Threads -> QueuePCs]
         /\ rTicket' \in [Threads -> Nat]
BY DEF RQ!IInv, RQ!TypeOK, QueuePCs, SendPCs, EmptyPCs, TryPopPCs, ReadPCs, RQ!PCs,
      RQ!EmptyPCs, RQ!TryPCs, RQ!WritePCs, RQ!ReadPCs

LEMMA ResultConsumer ==
  ASSUME RQ!IInv, NEW t \in Threads
  PROVE  /\ rPc[t] \in ReadPCs => rTicket[t] < rTail /\ rTicket[t] < rHead
         /\ rPc[t] \in {"destroy", "release"} => rVal[t] = rSent[rTicket[t] + 1]
         /\ rPc[t] = "try_pop_cas" /\ rTicket[t] = rTail => rTail < rHead
<1> USE SharedQueueParameters, SharedQueueFacts
<1>1. /\ \A k \in 0 .. 3 * NumFiles :
           k >= rHead => rTurn[RQ!idx(k)] <= RQ!turn(k) * 2
      /\ rTail \in 0 .. 3 * NumFiles
  BY DEF RQ!IInv, RQ!TurnBehindCounters, RQ!Tickets
<1>2. /\ rPc[t] \in ReadPCs =>
           rTicket[t] < rTail /\ rTurn[RQ!Slot(t)] = RQ!turn(rTicket[t]) * 2 + 1
      /\ rPc[t] = "try_pop_cas" => rTurn[RQ!Slot(t)] >= RQ!turn(rTicket[t]) * 2 + 1
  BY DEF RQ!IInv, RQ!ConsumersInTurn, RQ!Consuming, RQ!ReadPCs, ReadPCs
<1>3. RQ!Slot(t) = RQ!idx(rTicket[t]) /\ RQ!Slot(t) \in RQ!Slots
      /\ RQ!turn(rTicket[t]) \in Nat
  BY RQ!OwnTicket DEF RQ!Slot, RQ!IInv
<1>4. rTurn[RQ!Slot(t)] \in Nat
  BY <1>3 DEF RQ!IInv, RQ!TypeOK
<1>5. rPc[t] \in ReadPCs => rTicket[t] < rHead
  BY <1>1, <1>2, <1>3, <1>4
<1>6. rPc[t] = "try_pop_cas" /\ rTicket[t] = rTail => rTail < rHead
  BY <1>1, <1>2, <1>3, <1>4
<1>7. rPc[t] \in {"destroy", "release"} => rVal[t] = rSent[rTicket[t] + 1]
  BY DEF RQ!IInv, RQ!OwnSlot
<1> QED
  BY <1>2, <1>5, <1>6, <1>7

-----------------------------------------------------------------------------
(* The invariant that all the proofs rest on.                              *)

SendingPCs == {"unreadable", "push", "error", "profile"}
HoldingPCs == {"load", "parse", "parsed"} \union SendingPCs
OutPCs     == {"none", "leaving", "exited"}

\* What a file's calls are, until the parser calls end.
Recording(q, f) ==
  /\ q \in Seq(Operations)
  /\ Len(q) \in 1 .. MaxDecls + 1
  /\ \A i \in 1 .. Len(q) : q[i] = IF i = 1 THEN <<f, "begin">> ELSE <<f, "decl">>

\* TypeOK without the bound on the number of parsed files.
Types ==
  /\ mPc \in MainPCs
  /\ cnt \in 0 .. NumFiles
  /\ threadCounter \in 0 .. NumFiles
  /\ filesParsed \in Nat
  /\ profile \in BOOLEAN
  /\ result \in Seq(Operations)
  /\ log \in Seq(Operations)
  /\ wPc \in [Workers -> WorkerPCs]
  /\ fSeen \in [Workers -> 0 .. NumFiles]
  /\ m_queue \in [Workers -> Seq(Operations)]

\* A thread is in an operation of a queue only where its code calls it.
InOperation ==
  /\ fPc[Main] # "idle" => mPc = "fill" /\ fPc[Main] \in SendPCs
  /\ rPc[Main] # "idle" => \/ mPc = "test_empty" /\ rPc[Main] \in EmptyPCs
                           \/ mPc = "pop" /\ rPc[Main] \in TryPopPCs \union ReadPCs
  /\ \A w \in Workers :
       /\ fPc[w] # "idle" => \/ wPc[w] = "test" /\ fPc[w] \in EmptyPCs
                             \/ wPc[w] = "take" /\ fPc[w] \in TryPopPCs \union ReadPCs
       /\ rPc[w] # "idle" => wPc[w] \in SendingPCs /\ rPc[w] \in SendPCs

\* threadCounter is the number of the threads still to be started and of those
\* that can still send.
Running == {w \in Workers : wPc[w] \notin OutPCs}

ThreadsCounted ==
  /\ threadCounter = cnt + Cardinality(Running)
  /\ mPc \in {"fill", "generator", "rejected"} => \A w \in Workers : wPc[w] = "none"
  /\ mPc # "start" => cnt = 0
  /\ mPc \in {"test_empty", "join", "destroy", "report", "done"} => threadCounter = 0

\* fileQueue holds the files in the order of the list, and all of them before a
\* thread is started.
FilesListed ==
  /\ \A k \in 1 .. fHead : fSent[k] = k
  /\ mPc # "fill" => fHead = NumFiles

\* A worker holds a file that was taken from fileQueue, and has recorded calls
\* for that file only.
WorkersHoldFiles ==
  \A w \in Workers :
    /\ wPc[w] \in HoldingPCs => fVal[w] \in 1 .. fTail
    /\ wPc[w] = "parse" => Recording(m_queue[w], fVal[w])
    /\ wPc[w] \in {"push", "parsed"} => m_queue[w] \in BackendCalls(fVal[w])

Base ==
  /\ FQ!IInv
  /\ RQ!IInv
  /\ Types
  /\ InOperation
  /\ ThreadsCounted
  /\ FilesListed
  /\ WorkersHoldFiles

-----------------------------------------------------------------------------
(* The steps of the two queues, by their effect.                           *)

FOthers(t) ==
  \A u \in Threads \ {t} :
    fPc'[u] = fPc[u] /\ fTicket'[u] = fTicket[u] /\ fVal'[u] = fVal[u]

ROthers(t) ==
  \A u \in Threads \ {t} : rPc'[u] = rPc[u] /\ rTicket'[u] = rTicket[u]

\* The main thread lists a file, or goes on doing so.
Lists ==
  /\ mPc = "fill"
  /\ FOthers(Main)
  /\ UNCHANGED <<fTail, rVars, cnt, profile, result, log, reported, workerVars,
                 threadCounter, filesParsed>>
  /\ mPc' \in {"fill", "generator"}
  /\ mPc' = "generator" <=> fHead' = NumFiles /\ fPc'[Main] = "idle"
  /\ fPc'[Main] \in SendPCs \union {"idle"}
  /\ \/ fHead' = fHead + 1 /\ fSent' = Append(fSent, fHead + 1)
     \/ UNCHANGED <<fHead, fSent>>

\* The worker w reads one of the counters of fileQueue.
Tests(w) ==
  /\ wPc[w] = "test"
  /\ FOthers(w)
  /\ UNCHANGED <<fHead, fTail, fSent, fVal, rVars, mainVars, m_queue, threadCounter,
                 filesParsed>>
  /\ \/ /\ fPc[w] = "idle"
        /\ \/ fPc'[w] = "empty_tail" /\ fTicket'[w] = fHead
           \/ fPc'[w] = "empty_head" /\ fTicket'[w] <= fTail
        /\ UNCHANGED wPc
     \/ /\ fPc[w] \in EmptyPCs /\ fPc'[w] = "idle"
        /\ \/ WGoto(w, "take")
           \/ /\ WGoto(w, "finish")
              /\ fPc[w] = "empty_head" => fHead <= fTicket[w]
              /\ fPc[w] = "empty_tail" => fTicket[w] <= fTail

\* The worker w tries to take a file, claims one, moves it out, or gives up.
Takes(w) ==
  /\ wPc[w] = "take"
  /\ FOthers(w)
  /\ UNCHANGED <<fHead, fSent, rVars, mainVars, m_queue, threadCounter, filesParsed>>
  /\ \/ /\ fPc[w] \in {"idle"} \union TryPopPCs /\ fPc'[w] \in TryPopPCs
        /\ UNCHANGED <<fTail, fVal, wPc>>
     \/ /\ fPc[w] = "try_pop_cas" /\ fPc'[w] = "move"
        /\ fTail < fHead /\ fTail' = fTail + 1 /\ fTicket'[w] = fTail
        /\ UNCHANGED <<fVal, wPc>>
     \/ /\ fPc[w] \in ReadPCs /\ fPc'[w] \in ReadPCs
        /\ fTicket'[w] = fTicket[w]
        /\ UNCHANGED <<fTail, wPc>>
     \/ /\ fPc[w] = "release" /\ fPc'[w] = "idle"
        /\ fVal'[w] = fSent[fTicket[w] + 1]
        /\ WGoto(w, "load")
        /\ UNCHANGED fTail
     \/ /\ fPc[w] = "try_pop_reload" /\ fPc'[w] = "idle"
        /\ WGoto(w, "test")
        /\ UNCHANGED <<fTail, fVal>>

\* The worker w begins to send r, goes on sending, or has sent it.
Sends(w, from, r, to) ==
  /\ wPc[w] = from
  /\ ROthers(w)
  /\ UNCHANGED <<rTail, fVars, mainVars, fSeen, m_queue, threadCounter, filesParsed>>
  /\ \/ /\ rPc[w] = "idle" /\ rPc'[w] \in SendPCs
        /\ rHead' = rHead + 1 /\ rSent' = Append(rSent, r)
        /\ UNCHANGED wPc
     \/ /\ rPc[w] \in SendPCs /\ rPc'[w] \in SendPCs
        /\ UNCHANGED <<rHead, rSent, wPc>>
     \/ /\ rPc[w] \in SendPCs /\ rPc'[w] = "idle"
        /\ WGoto(w, to)
        /\ UNCHANGED <<rHead, rSent>>

\* The main thread reads one of the counters of sharedQueue.
TestsEmpty ==
  /\ mPc = "test_empty"
  /\ ROthers(Main)
  /\ UNCHANGED <<rHead, rTail, rSent, fVars, cnt, profile, result, log, reported,
                 workerVars, threadCounter, filesParsed>>
  /\ \/ /\ rPc[Main] = "idle"
        /\ \/ rPc'[Main] = "empty_tail" /\ (threadCounter = 0 => rTicket'[Main] = rHead)
           \/ rPc'[Main] = "empty_head" /\ rTicket'[Main] = rTail
        /\ UNCHANGED mPc
     \/ /\ rPc[Main] \in EmptyPCs /\ rPc'[Main] = "idle"
        /\ \/ mPc' = "pop"
           \/ /\ mPc' = "join"
              /\ rPc[Main] = "empty_head" /\ threadCounter = 0 => rHead <= rTicket[Main]
              /\ rPc[Main] = "empty_tail" => rTicket[Main] <= rTail

\* The main thread tries to pop a Result, claims one, moves it out, or gives up.
Pops ==
  /\ mPc = "pop"
  /\ ROthers(Main)
  /\ UNCHANGED <<rHead, rSent, fVars, cnt, profile, log, reported, workerVars,
                 threadCounter, filesParsed>>
  /\ \/ /\ rPc[Main] \in {"idle"} \union TryPopPCs /\ rPc'[Main] \in TryPopPCs
        /\ UNCHANGED <<rTail, mPc, result>>
     \/ /\ rPc[Main] = "try_pop_cas" /\ rPc'[Main] = "move"
        /\ rTail < rHead /\ rTail' = rTail + 1 /\ rTicket'[Main] = rTail
        /\ UNCHANGED <<mPc, result>>
     \/ /\ rPc[Main] \in ReadPCs /\ rPc'[Main] \in ReadPCs
        /\ rTicket'[Main] = rTicket[Main]
        /\ UNCHANGED <<rTail, mPc, result>>
     \/ /\ rPc[Main] = "release" /\ rPc'[Main] = "idle"
        /\ mPc' = "run" /\ result' = rSent[rTicket[Main] + 1]
        /\ UNCHANGED rTail
     \/ /\ rPc[Main] = "try_pop_reload" /\ rPc'[Main] = "idle"
        /\ mPc' = "read_counter"
        /\ UNCHANGED <<rTail, result>>

LEMMA FillEffect ==
  ASSUME Base, FillFileQueue
  PROVE  Lists
<1> USE DEF Base, InOperation, SendPCs
<1>0. /\ fPc \in [Threads -> QueuePCs] /\ fTicket \in [Threads -> Nat]
      /\ fVal \in [Threads -> Files \union {None}] /\ Main \in Threads
  BY FileQueueFacts DEF Threads
<1>1. CASE fileQueue!Emplace(Main, fHead + 1)
  BY <1>0, <1>1 DEF FillFileQueue, Lists, FOthers, fileQueue!Emplace, fileQueue!Goto
<1>2. CASE fileQueue!EmplaceStep(Main)
  BY <1>0, <1>2 DEF FillFileQueue, Lists, FOthers, fileQueue!EmplaceStep,
     fileQueue!EmplaceSpin, fileQueue!Construct, fileQueue!Publish, fileQueue!Goto,
     fileQueue!Return
<1> QED
  BY <1>1, <1>2 DEF FillFileQueue

LEMMA TestEffect ==
  ASSUME Base, NEW w \in Workers, TestFileQueue(w)
  PROVE  Tests(w)
<1> USE DEF Base, InOperation, EmptyPCs
<1>0. /\ fPc \in [Threads -> QueuePCs] /\ fTicket \in [Threads -> Nat]
      /\ fRet \in [Threads -> BOOLEAN] /\ w \in Threads /\ wPc \in [Workers -> WorkerPCs]
      /\ fHead \in Nat /\ fTail \in Nat
  BY FileQueueFacts DEF Threads, Types
<1>b. [wPc EXCEPT ![w] = "test"] = wPc \/ wPc[w] # "test"
  BY <1>0
<1>1. CASE fileQueue!EmptyLoadHead(w, fHead)
  <2>1. CASE fPc[w] = "idle"
    BY <1>0, <1>b, <1>1, <2>1 DEF TestFileQueue, Tests, FOthers, WGoto,
       fileQueue!EmptyLoadHead, fileQueue!Goto
  <2>2. CASE fPc[w] = "empty_head"
    <3>1. /\ fPc' = [fPc EXCEPT ![w] = "idle"]
          /\ fTicket' = [fTicket EXCEPT ![w] = 0]
          /\ fRet' = [fRet EXCEPT ![w] = fHead - fTicket[w] <= 0]
          /\ UNCHANGED <<fHead, fTail, fSent, fVal>>
      BY <1>1, <2>2 DEF fileQueue!EmptyLoadHead, fileQueue!Goto, fileQueue!Return
    <3>2. fRet'[w] => fHead <= fTicket[w]
      <4>1. fRet'[w] = (fHead - fTicket[w] <= 0)
        BY <1>0, <3>1, Zenon
      <4>2. (fHead - fTicket[w] <= 0) = (fHead <= fTicket[w])
        BY <1>0
      <4> QED
        BY <4>1, <4>2
    <3>3. (WGoto(w, "finish") /\ fRet'[w]) \/ WGoto(w, "take")
      BY <1>0, <3>1 DEF TestFileQueue, WGoto
    <3>4. FOthers(w)
      BY <1>0, <3>1 DEF FOthers
    <3> QED
      BY <1>0, <2>2, <3>1, <3>2, <3>3, <3>4 DEF TestFileQueue, Tests
  <2> QED
    BY <1>1, <2>1, <2>2 DEF fileQueue!EmptyLoadHead
<1>2. ASSUME NEW l \in fSeen[w] .. fTail, fileQueue!EmptyLoadTail(w, l)
      PROVE  Tests(w)
  <2>0. l <= fTail
    BY <1>0
  <2>1. CASE fPc[w] = "idle"
    BY <1>0, <1>b, <1>2, <2>0, <2>1 DEF TestFileQueue, Tests, FOthers, WGoto,
       fileQueue!EmptyLoadTail, fileQueue!Goto
  <2>2. CASE fPc[w] = "empty_tail"
    <3>1. /\ fPc' = [fPc EXCEPT ![w] = "idle"]
          /\ fTicket' = [fTicket EXCEPT ![w] = 0]
          /\ fRet' = [fRet EXCEPT ![w] = fTicket[w] - l <= 0]
          /\ UNCHANGED <<fHead, fTail, fSent, fVal>>
      BY <1>2, <2>2 DEF fileQueue!EmptyLoadTail, fileQueue!Goto, fileQueue!Return
    <3>2. fRet'[w] => fTicket[w] <= l
      <4>1. fRet'[w] = (fTicket[w] - l <= 0)
        BY <1>0, <3>1, Zenon
      <4>2. (fTicket[w] - l <= 0) = (fTicket[w] <= l)
        BY <1>0
      <4> QED
        BY <4>1, <4>2
    <3>3. (WGoto(w, "finish") /\ fRet'[w]) \/ WGoto(w, "take")
      BY <1>0, <3>1 DEF TestFileQueue, WGoto
    <3>4. FOthers(w)
      BY <1>0, <3>1 DEF FOthers
    <3> QED
      BY <1>0, <2>0, <2>2, <3>1, <3>2, <3>3, <3>4 DEF TestFileQueue, Tests
  <2> QED
    BY <1>2, <2>1, <2>2 DEF fileQueue!EmptyLoadTail
<1> QED
  BY <1>1, <1>2 DEF TestFileQueue

LEMMA TakeEffect ==
  ASSUME Base, NEW w \in Workers, TakeFile(w)
  PROVE  Takes(w)
<1> USE DEF Base, InOperation, TryPopPCs, ReadPCs
<1>0. /\ fPc \in [Threads -> QueuePCs] /\ fTicket \in [Threads -> Nat]
      /\ fVal \in [Threads -> Files \union {None}]
      /\ fRet \in [Threads -> BOOLEAN] /\ w \in Threads /\ wPc \in [Workers -> WorkerPCs]
      /\ fHead \in Nat /\ fTail \in Nat
  BY FileQueueFacts DEF Threads, Types
<1>a. /\ fPc[w] \in {"destroy", "release"} => fVal[w] = fSent[fTicket[w] + 1]
      /\ fPc[w] = "try_pop_cas" /\ fTicket[w] = fTail => fTail < fHead
  BY <1>0, FileConsumer
<1>b. [wPc EXCEPT ![w] = "take"] = wPc \/ wPc[w] # "take"
  BY <1>0
<1>1. CASE fileQueue!TryPop(w)
  BY <1>0, <1>b, <1>1 DEF TakeFile, Takes, FOthers, WGoto, fileQueue!TryPop, fileQueue!Goto
<1>2. CASE fileQueue!TryPopCas(w)
  BY <1>0, <1>a, <1>b, <1>2 DEF TakeFile, Takes, FOthers, WGoto, fileQueue!TryPopCas, fileQueue!Goto
<1>3. CASE fileQueue!TryPopReload(w)
  BY <1>0, <1>b, <1>3 DEF TakeFile, Takes, FOthers, WGoto, fileQueue!TryPopReload, fileQueue!Goto,
     fileQueue!Return
<1>4. CASE fileQueue!TryPopCheck(w)
  BY <1>0, <1>b, <1>4 DEF TakeFile, Takes, FOthers, WGoto, fileQueue!TryPopCheck, fileQueue!Goto
<1>5. CASE fileQueue!Move(w)
  BY <1>0, <1>b, <1>5 DEF TakeFile, Takes, FOthers, WGoto, fileQueue!Move, fileQueue!Goto
<1>6. CASE fileQueue!Destroy(w)
  BY <1>0, <1>b, <1>6 DEF TakeFile, Takes, FOthers, WGoto, fileQueue!Destroy, fileQueue!Goto
<1>7. CASE fileQueue!Release(w)
  BY <1>0, <1>a, <1>7 DEF TakeFile, Takes, FOthers, WGoto, fileQueue!Release, fileQueue!Goto,
     fileQueue!Return
<1> QED
  BY <1>1, <1>2, <1>3, <1>4, <1>5, <1>6, <1>7 DEF TakeFile

LEMMA SendEffect ==
  ASSUME Base, NEW w \in Workers, NEW from \in SendingPCs, NEW r, NEW to,
         Send(w, from, r, to)
  PROVE  Sends(w, from, r, to)
<1> USE DEF Base, InOperation, SendPCs
<1>0. /\ rPc \in [Threads -> QueuePCs] /\ rTicket \in [Threads -> Nat]
      /\ w \in Threads /\ wPc \in [Workers -> WorkerPCs]
  BY SharedQueueFacts DEF Threads, Types
<1>b. [wPc EXCEPT ![w] = from] = wPc \/ wPc[w] # from
  BY <1>0
<1>1. CASE sharedQueue!Emplace(w, r)
  BY <1>0, <1>b, <1>1 DEF Send, Sends, ROthers, WGoto, sharedQueue!Emplace, sharedQueue!Goto
<1>2. CASE sharedQueue!EmplaceSpin(w)
  BY <1>0, <1>b, <1>2 DEF Send, Sends, ROthers, WGoto, sharedQueue!EmplaceSpin, sharedQueue!Goto
<1>3. CASE sharedQueue!Construct(w)
  BY <1>0, <1>b, <1>3 DEF Send, Sends, ROthers, WGoto, sharedQueue!Construct, sharedQueue!Goto
<1>4. CASE sharedQueue!Publish(w)
  BY <1>0, <1>4 DEF Send, Sends, ROthers, WGoto, sharedQueue!Publish, sharedQueue!Goto,
     sharedQueue!Return
<1> QED
  BY <1>1, <1>2, <1>3, <1>4 DEF Send, sharedQueue!EmplaceStep

LEMMA TestEmptyEffect ==
  ASSUME Base, TestEmpty
  PROVE  TestsEmpty
<1> USE DEF Base, InOperation, EmptyPCs
<1>0. /\ rPc \in [Threads -> QueuePCs] /\ rTicket \in [Threads -> Nat]
      /\ rRet \in [Threads -> BOOLEAN] /\ Main \in Threads
      /\ rHead \in Nat /\ rTail \in Nat
  BY SharedQueueFacts DEF Threads
<1>1. ASSUME NEW h \in 0 .. rHead, threadCounter = 0 => h = rHead,
             sharedQueue!EmptyLoadHead(Main, h)
      PROVE  TestsEmpty
  <2>1. CASE rPc[Main] = "idle"
    BY <1>0, <1>1, <2>1 DEF TestEmpty, TestsEmpty, ROthers, sharedQueue!EmptyLoadHead,
       sharedQueue!Goto
  <2>2. CASE rPc[Main] = "empty_head"
    <3>1. /\ rPc' = [rPc EXCEPT ![Main] = "idle"]
          /\ rTicket' = [rTicket EXCEPT ![Main] = 0]
          /\ rRet' = [rRet EXCEPT ![Main] = h - rTicket[Main] <= 0]
          /\ UNCHANGED <<rHead, rTail, rSent>>
      BY <1>1, <2>2 DEF sharedQueue!EmptyLoadHead, sharedQueue!Goto, sharedQueue!Return
    <3>2. rRet'[Main] => h <= rTicket[Main]
      <4>1. rRet'[Main] = (h - rTicket[Main] <= 0)
        BY <1>0, <3>1, Zenon
      <4>2. (h - rTicket[Main] <= 0) = (h <= rTicket[Main])
        BY <1>0
      <4> QED
        BY <4>1, <4>2
    <3>3. (mPc' = "join" /\ rRet'[Main]) \/ mPc' = "pop"
      BY <1>0, <3>1 DEF TestEmpty
    <3>4. ROthers(Main)
      BY <1>0, <3>1 DEF ROthers
    <3> QED
      BY <1>0, <1>1, <2>2, <3>1, <3>2, <3>3, <3>4 DEF TestEmpty, TestsEmpty
  <2> QED
    BY <1>1, <2>1, <2>2 DEF sharedQueue!EmptyLoadHead
<1>2. CASE sharedQueue!EmptyLoadTail(Main, rTail)
  <2>1. CASE rPc[Main] = "idle"
    BY <1>0, <1>2, <2>1 DEF TestEmpty, TestsEmpty, ROthers, sharedQueue!EmptyLoadTail,
       sharedQueue!Goto
  <2>2. CASE rPc[Main] = "empty_tail"
    <3>1. /\ rPc' = [rPc EXCEPT ![Main] = "idle"]
          /\ rTicket' = [rTicket EXCEPT ![Main] = 0]
          /\ rRet' = [rRet EXCEPT ![Main] = rTicket[Main] - rTail <= 0]
          /\ UNCHANGED <<rHead, rTail, rSent>>
      BY <1>2, <2>2 DEF sharedQueue!EmptyLoadTail, sharedQueue!Goto, sharedQueue!Return
    <3>2. rRet'[Main] => rTicket[Main] <= rTail
      <4>1. rRet'[Main] = (rTicket[Main] - rTail <= 0)
        BY <1>0, <3>1, Zenon
      <4>2. (rTicket[Main] - rTail <= 0) = (rTicket[Main] <= rTail)
        BY <1>0
      <4> QED
        BY <4>1, <4>2
    <3>3. (mPc' = "join" /\ rRet'[Main]) \/ mPc' = "pop"
      BY <1>0, <3>1 DEF TestEmpty
    <3>4. ROthers(Main)
      BY <1>0, <3>1 DEF ROthers
    <3> QED
      BY <1>0, <2>2, <3>1, <3>2, <3>3, <3>4 DEF TestEmpty, TestsEmpty
  <2> QED
    BY <1>2, <2>1, <2>2 DEF sharedQueue!EmptyLoadTail
<1> QED
  BY <1>1, <1>2 DEF TestEmpty

LEMMA PopEffect ==
  ASSUME Base, PopResult
  PROVE  Pops
<1> USE DEF Base, InOperation, TryPopPCs, ReadPCs
<1>0. /\ rPc \in [Threads -> QueuePCs] /\ rTicket \in [Threads -> Nat]
      /\ rVal \in [Threads -> Results \union {NoResult}]
      /\ rRet \in [Threads -> BOOLEAN] /\ Main \in Threads
      /\ rHead \in Nat /\ rTail \in Nat
  BY SharedQueueFacts DEF Threads
<1>a. /\ rPc[Main] \in {"destroy", "release"} => rVal[Main] = rSent[rTicket[Main] + 1]
      /\ rPc[Main] = "try_pop_cas" /\ rTicket[Main] = rTail => rTail < rHead
  BY <1>0, ResultConsumer
<1>1. CASE sharedQueue!TryPop(Main)
  BY <1>0, <1>1 DEF PopResult, Pops, ROthers, sharedQueue!TryPop, sharedQueue!Goto
<1>2. CASE sharedQueue!TryPopCas(Main)
  BY <1>0, <1>a, <1>2 DEF PopResult, Pops, ROthers, sharedQueue!TryPopCas, sharedQueue!Goto
<1>3. CASE sharedQueue!TryPopReload(Main)
  BY <1>0, <1>3 DEF PopResult, Pops, ROthers, sharedQueue!TryPopReload, sharedQueue!Goto,
     sharedQueue!Return
<1>4. CASE sharedQueue!TryPopCheck(Main)
  BY <1>0, <1>4 DEF PopResult, Pops, ROthers, sharedQueue!TryPopCheck, sharedQueue!Goto
<1>5. CASE sharedQueue!Move(Main)
  BY <1>0, <1>5 DEF PopResult, Pops, ROthers, sharedQueue!Move, sharedQueue!Goto
<1>6. CASE sharedQueue!Destroy(Main)
  BY <1>0, <1>6 DEF PopResult, Pops, ROthers, sharedQueue!Destroy, sharedQueue!Goto
<1>7. CASE sharedQueue!Release(Main)
  BY <1>0, <1>a, <1>7 DEF PopResult, Pops, ROthers, sharedQueue!Release, sharedQueue!Goto,
     sharedQueue!Return
<1> QED
  BY <1>1, <1>2, <1>3, <1>4, <1>5, <1>6, <1>7 DEF PopResult, sharedQueue!TryPopStep

\* What each sending step sends, and where it leads.
SendPlan(w, from, r, to) ==
  \/ from = "unreadable" /\ r = << <<fVal[w], "log_unreadable">> >> /\ to = "test"
  \/ from = "push" /\ r = m_queue[w] /\ to = "parsed"
  \/ from = "error" /\ r = << <<fVal[w], "log_error">> >>
       /\ to = IF profile THEN "profile" ELSE "test"
  \/ from = "profile" /\ r = << <<fVal[w], "log_profile">> >> /\ to = "test"

WorkerOutline(w) ==
  \/ Tests(w) \/ Takes(w) \/ LoadFile(w) \/ Parse(w) \/ Parsed(w) \/ Finish(w)
  \/ \E from, r, to : SendPlan(w, from, r, to) /\ Sends(w, from, r, to)

MainOutline ==
  \/ Lists \/ SelectGenerator \/ StartThread \/ ReadCounter \/ TestsEmpty \/ Pops
  \/ RunOperation \/ Join \/ DestroyBackend \/ Report

\* Every step, with the steps of the queues described by their effect.
LEMMA StepOutline ==
  ASSUME Base, [Next]_vars
  PROVE  MainOutline \/ (\E w \in Workers : WorkerOutline(w)) \/ UNCHANGED vars
<1>1. MainStep => MainOutline
  BY FillEffect, TestEmptyEffect, PopEffect DEF MainStep, MainOutline
<1>2. ASSUME NEW w \in Workers, WorkerStep(w)
      PROVE  WorkerOutline(w)
  <2>1. TestFileQueue(w) => Tests(w)
    BY TestEffect
  <2>2. TakeFile(w) => Takes(w)
    BY TakeEffect
  <2>3. ASSUME NEW from, NEW r, NEW to, SendPlan(w, from, r, to), Send(w, from, r, to)
        PROVE  WorkerOutline(w)
    <3>1. from \in SendingPCs
      BY <2>3 DEF SendPlan, SendingPCs
    <3>2. Sends(w, from, r, to)
      BY <2>3, <3>1, SendEffect
    <3> QED
      BY <2>3, <3>2 DEF WorkerOutline
  <2>4. LogUnreadable(w) => WorkerOutline(w)
    BY <2>3 DEF LogUnreadable, SendPlan
  <2>5. PushResult(w) => WorkerOutline(w)
    BY <2>3 DEF PushResult, SendPlan
  <2>6. LogError(w) => WorkerOutline(w)
    BY <2>3 DEF LogError, SendPlan
  <2>7. LogProfile(w) => WorkerOutline(w)
    BY <2>3 DEF LogProfile, SendPlan
  <2> QED
    BY <1>2, <2>1, <2>2, <2>4, <2>5, <2>6, <2>7 DEF WorkerStep, WorkerOutline
<1> QED
  BY <1>1, <1>2 DEF Next, Ended

LEMMA SentIsResult ==
  ASSUME Base, NEW w \in Workers, NEW from, NEW r, NEW to,
         SendPlan(w, from, r, to), wPc[w] = from
  PROVE  r \in Results /\ fVal[w] \in Files
<1>1. fVal[w] \in 1 .. fTail /\ fTail \in 0 .. NumFiles
  BY FileQueueFacts DEF Base, WorkersHoldFiles, HoldingPCs, SendingPCs, SendPlan
<1>2. fVal[w] \in Files
  BY <1>1, FileQueueParameters DEF Files
<1>3. from = "push" => r \in BackendCalls(fVal[w])
  BY DEF SendPlan, Base, WorkersHoldFiles
<1>4. from # "push" => r \in Messages(fVal[w])
  BY DEF SendPlan, Messages
<1> QED
  BY <1>2, <1>3, <1>4 DEF Results

-----------------------------------------------------------------------------
(* The queues take steps of MPMCQueue only, and keep its invariant.        *)

LEMMA FileQueueStep ==
  ASSUME Base, [Next]_vars
  PROVE  [FQ!Next]_(FQ!vars) /\ FQ!IInv'
<1>0. /\ Main \in Threads /\ Workers \subseteq Threads
      /\ fHead \in 0 .. NumFiles /\ fTail \in 0 .. NumFiles /\ NumFiles \in Nat
      /\ fSeen \in [Workers -> 0 .. NumFiles]
  BY FileQueueFacts, FileQueueParameters DEF Threads, Base, Types
<1>1. FillFileQueue => fileQueue!Next
  <2>1. ASSUME fileQueue!Emplace(Main, fHead + 1) PROVE fileQueue!Next
    <3>1. fHead + 1 \in Files
      BY <1>0, <2>1 DEF fileQueue!Emplace, Files
    <3> QED
      BY <1>0, <2>1, <3>1 DEF fileQueue!Next, fileQueue!Begin
  <2>2. ASSUME fileQueue!EmplaceStep(Main) PROVE fileQueue!Next
    BY <1>0, <2>2 DEF fileQueue!Next, fileQueue!Continue
  <2> QED
    BY <2>1, <2>2 DEF FillFileQueue
<1>2. ASSUME NEW w \in Workers, TestFileQueue(w) PROVE fileQueue!Next
  <2>1. ASSUME fileQueue!EmptyLoadHead(w, fHead) PROVE fileQueue!Next
    BY <1>0, <2>1 DEF fileQueue!Next, fileQueue!Empty, fileQueue!EmptyLoadHead
  <2>2. ASSUME NEW l \in fSeen[w] .. fTail, fileQueue!EmptyLoadTail(w, l)
        PROVE  fileQueue!Next
    BY <1>0, <2>2 DEF fileQueue!Next, fileQueue!Empty, fileQueue!EmptyLoadTail
  <2> QED
    BY <1>2, <2>1, <2>2 DEF TestFileQueue
<1>3. ASSUME NEW w \in Workers, TakeFile(w) PROVE fileQueue!Next
  BY <1>0, <1>3 DEF TakeFile, fileQueue!Next, fileQueue!Begin, fileQueue!Continue,
     fileQueue!TryPopStep
<1>4. FillFileQueue \/ (\E w \in Workers : TestFileQueue(w) \/ TakeFile(w)) \/ UNCHANGED fVars
  <2>1. MainStep => FillFileQueue \/ UNCHANGED fVars
    BY DEF MainStep, SelectGenerator, StartThread, ReadCounter, TestEmpty, PopResult,
       RunOperation, Join, DestroyBackend, Report
  <2>2. ASSUME NEW w \in Workers, WorkerStep(w)
        PROVE  TestFileQueue(w) \/ TakeFile(w) \/ UNCHANGED fVars
    BY <2>2 DEF WorkerStep, LoadFile, LogUnreadable, Send, Parse, PushResult, Parsed,
       LogError, LogProfile, Finish
  <2> QED
    BY <2>1, <2>2 DEF Next, Ended, vars
<1>5. [fileQueue!Next]_fVars
  BY <1>1, <1>2, <1>3, <1>4
<1>6. [FQ!Next]_(FQ!vars)
  BY <1>5, FileQueueSame DEF FQ!vars, fVars
<1>7. FQ!IInv'
  <2>1. FQ!IInv
    BY DEF Base
  <2>2. FQ!TypeOK
    BY <2>1 DEF FQ!IInv
  <2>3. FQ!TypeOK'
    BY <1>6, <2>2, FileQueueParameters, FQ!TypeStep
  <2> QED
    BY <1>6, <2>1, <2>3, FileQueueParameters, FQ!InvariantStep
<1> QED
  BY <1>6, <1>7

LEMMA SharedQueueStep ==
  ASSUME Base, [Next]_vars
  PROVE  [RQ!Next]_(RQ!vars) /\ RQ!IInv'
<1>0. /\ Main \in Threads /\ Workers \subseteq Threads
      /\ rHead \in Nat /\ rTail \in Nat
  BY SharedQueueFacts DEF Threads, Base
<1>1. TestEmpty => sharedQueue!Next
  <2>1. ASSUME NEW h \in 0 .. rHead, sharedQueue!EmptyLoadHead(Main, h)
        PROVE  sharedQueue!Next
    BY <1>0, <2>1 DEF sharedQueue!Next, sharedQueue!Empty
  <2>2. ASSUME sharedQueue!EmptyLoadTail(Main, rTail)
        PROVE  sharedQueue!Next
    BY <1>0, <2>2 DEF sharedQueue!Next, sharedQueue!Empty
  <2> QED
    BY <2>1, <2>2 DEF TestEmpty
<1>2. PopResult => sharedQueue!Next
  BY <1>0 DEF PopResult, sharedQueue!Next, sharedQueue!Begin, sharedQueue!Continue
<1>3. ASSUME NEW w \in Workers, NEW from, NEW r, NEW to,
             SendPlan(w, from, r, to), Send(w, from, r, to)
      PROVE  sharedQueue!Next
  <2>1. r \in Results
    BY <1>3, SentIsResult DEF Send
  <2> QED
    BY <1>0, <1>3, <2>1 DEF Send, sharedQueue!Next, sharedQueue!Begin, sharedQueue!Continue
<1>4. \/ TestEmpty \/ PopResult \/ UNCHANGED rVars
      \/ \E w \in Workers : \E from, r, to :
           SendPlan(w, from, r, to) /\ Send(w, from, r, to)
  <2>1. MainStep => TestEmpty \/ PopResult \/ UNCHANGED rVars
    BY DEF MainStep, FillFileQueue, SelectGenerator, StartThread, ReadCounter,
       RunOperation, Join, DestroyBackend, Report
  <2>2. ASSUME NEW w \in Workers, WorkerStep(w)
        PROVE  \/ UNCHANGED rVars
               \/ \E from, r, to : SendPlan(w, from, r, to) /\ Send(w, from, r, to)
    BY <2>2 DEF WorkerStep, TestFileQueue, TakeFile, LoadFile, LogUnreadable, Parse,
       PushResult, Parsed, LogError, LogProfile, Finish, SendPlan
  <2> QED
    BY <2>1, <2>2 DEF Next, Ended, vars
<1>5. [sharedQueue!Next]_rVars
  BY <1>1, <1>2, <1>3, <1>4
<1>6. [RQ!Next]_(RQ!vars)
  BY <1>5, SharedQueueSame DEF RQ!vars, rVars
<1>7. RQ!IInv'
  <2>1. RQ!IInv
    BY DEF Base
  <2>2. RQ!TypeOK
    BY <2>1 DEF RQ!IInv
  <2>3. RQ!TypeOK'
    BY <1>6, <2>2, SharedQueueParameters, RQ!TypeStep
  <2> QED
    BY <1>6, <2>1, <2>3, SharedQueueParameters, RQ!InvariantStep
<1> QED
  BY <1>6, <1>7

-----------------------------------------------------------------------------
(* The other parts of the invariant, step by step.                         *)

\* What the parser records next.
LEMMA RecordedBegin ==
  ASSUME NEW f \in Files
  PROVE  Recording(<< <<f, "begin">> >>, f) /\ << <<f, "begin">> >> \in Seq(Operations)
<1>1. <<f, "begin">> \in Operations
  BY DEF Operations
<1> QED
  BY <1>1, BoundsAssumption DEF Recording

LEMMA RecordedNext ==
  ASSUME NEW f \in Files, NEW q, Recording(q, f), NEW op \in {"decl", "end", "end_error"}
  PROVE  /\ Append(q, <<f, op>>) \in Seq(Operations)
         /\ op = "decl" /\ Len(q) <= MaxDecls => Recording(Append(q, <<f, op>>), f)
         /\ op # "decl" => Calls(Append(q, <<f, op>>), f, op)
<1> DEFINE n == Append(q, <<f, op>>)
<1>1. <<f, op>> \in Operations
  BY DEF Operations
<1>2. n \in Seq(Operations) /\ Len(n) = Len(q) + 1
  BY <1>1 DEF Recording
<1>3. (\A i \in 1 .. Len(q) : n[i] = q[i]) /\ n[Len(q) + 1] = <<f, op>>
  BY <1>1 DEF Recording
<1> HIDE DEF n
<1>4. op = "decl" /\ Len(q) <= MaxDecls => Recording(n, f)
  BY <1>2, <1>3, BoundsAssumption DEF Recording
<1>5. op # "decl" => Calls(n, f, op)
  <2>1. Len(n) \in 2 .. MaxDecls + 2
    BY <1>2, BoundsAssumption DEF Recording
  <2>2. ASSUME NEW i \in 1 .. Len(n)
        PROVE  n[i] = IF i = 1 THEN <<f, "begin">>
                      ELSE IF i = Len(n) THEN <<f, op>> ELSE <<f, "decl">>
    <3>1. Len(q) \in Nat \ {0}
      BY BoundsAssumption DEF Recording
    <3>2. CASE i = Len(n)
      BY <1>2, <1>3, <3>1, <3>2
    <3>3. CASE i # Len(n)
      BY <1>2, <1>3, <3>1, <3>3 DEF Recording
    <3> QED
      BY <3>2, <3>3
  <2> QED
    BY <1>2, <2>1, <2>2 DEF Calls
<1> QED
  BY <1>2, <1>4, <1>5 DEF n

\* A worker moves on: from or to the threads that are out, or not.
LEMMA RunningMoves ==
  ASSUME Types, NEW w \in Workers, NEW l, wPc' = [wPc EXCEPT ![w] = l]
  PROVE  /\ Cardinality(Running) \in Nat
         /\ w \in Running => Cardinality(Running) > 0
         /\ w \in Running /\ l \notin OutPCs => Running' = Running
         /\ w \notin Running /\ l \in OutPCs => Running' = Running
         /\ w \notin Running /\ l \notin OutPCs =>
              Cardinality(Running') = Cardinality(Running) + 1
         /\ w \in Running /\ l \in OutPCs =>
              Cardinality(Running') = Cardinality(Running) - 1
<1>1. IsFiniteSet(Running)
  BY WorkersAssumption, FS_Subset DEF Running
<1>2. Running' = IF l \in OutPCs THEN Running \ {w} ELSE Running \union {w}
  BY DEF Types, Running
<1>3. Cardinality(Running) \in Nat
  BY <1>1, FS_CardinalityType
<1>4. w \in Running => Cardinality(Running) > 0
  BY <1>1, <1>3, FS_EmptySet
<1>5. w \notin Running => Cardinality(Running \union {w}) = Cardinality(Running) + 1
  BY <1>1, FS_AddElement
<1>6. w \in Running => Cardinality(Running \ {w}) = Cardinality(Running) - 1
  BY <1>1, FS_RemoveElement
<1> QED
  BY <1>2, <1>3, <1>4, <1>5, <1>6

\* Every step of a worker but the two of Finish leaves it running.
LEMMA WorkerKeepsRunning ==
  ASSUME Types, NEW w \in Workers, WorkerOutline(w), ~Finish(w)
  PROVE  /\ Running' = Running
         /\ UNCHANGED <<mPc, cnt, threadCounter>>
         /\ w \in Running
         /\ \E l \in WorkerPCs \ OutPCs : wPc' = [wPc EXCEPT ![w] = l]
<1>0. wPc \in [Workers -> WorkerPCs]
  BY DEF Types
<1>1. ASSUME wPc[w] \in WorkerPCs \ OutPCs, NEW l \in WorkerPCs \ OutPCs,
             wPc' = wPc \/ WGoto(w, l)
      PROVE  /\ Running' = Running /\ w \in Running
             /\ \E k \in WorkerPCs \ OutPCs : wPc' = [wPc EXCEPT ![w] = k]
  <2>1. w \in Running
    BY <1>1 DEF Running
  <2>2. PICK k \in WorkerPCs \ OutPCs : wPc' = [wPc EXCEPT ![w] = k]
    BY <1>0, <1>1 DEF WGoto
  <2> QED
    BY <2>1, <2>2, RunningMoves
<1> USE DEF WorkerPCs, OutPCs
<1>2. CASE Tests(w)
  BY <1>1, <1>2 DEF Tests, mainVars
<1>3. CASE Takes(w)
  BY <1>1, <1>3 DEF Takes, mainVars
<1>4. CASE LoadFile(w)
  BY <1>1, <1>4 DEF LoadFile, mainVars
<1>5. CASE Parse(w)
  BY <1>1, <1>5 DEF Parse, mainVars
<1>6. CASE Parsed(w)
  BY <1>1, <1>6 DEF Parsed, mainVars
<1>7. ASSUME NEW from, NEW r, NEW to, SendPlan(w, from, r, to), Sends(w, from, r, to)
      PROVE  /\ Running' = Running
             /\ UNCHANGED <<mPc, cnt, threadCounter>>
             /\ w \in Running
             /\ \E l \in WorkerPCs \ OutPCs : wPc' = [wPc EXCEPT ![w] = l]
  BY <1>1, <1>7 DEF Sends, SendPlan, mainVars
<1> QED
  BY <1>2, <1>3, <1>4, <1>5, <1>6, <1>7 DEF WorkerOutline

LEMMA ThreadCountType ==
  ASSUME NEW hw \in HardwareConcurrencies
  PROVE  ThreadCount(hw) \in 0 .. NumFiles
<1>1. hw \in Nat /\ UnsignedModulus \in Nat \ {0} /\ NumFiles \in Nat
  BY HardwareAssumption, BoundsAssumption, NumFilesAssumption
<1>2. hw + UnsignedModulus - 1 \in Nat
  BY <1>1
<1>3. (hw + UnsignedModulus - 1) % UnsignedModulus \in Nat
  BY <1>1, <1>2
<1> QED
  BY <1>1, <1>3 DEF ThreadCount

LEMMA ThreadsCountedStep ==
  ASSUME Base, MainOutline \/ (\E w \in Workers : WorkerOutline(w)) \/ UNCHANGED vars
  PROVE  /\ ThreadsCounted'
         /\ cnt' \in 0 .. NumFiles /\ threadCounter' \in 0 .. NumFiles
<1> USE DEF Base, ThreadsCounted
<1>0. /\ NumFiles \in Nat /\ Cardinality(Running) \in Nat
      /\ cnt \in 0 .. NumFiles /\ threadCounter \in 0 .. NumFiles
      /\ wPc \in [Workers -> WorkerPCs] /\ IsFiniteSet(Running)
  <2>1. IsFiniteSet(Running)
    BY WorkersAssumption, FS_Subset DEF Running
  <2> QED
    BY <2>1, FS_CardinalityType, NumFilesAssumption DEF Types
<1>1. ASSUME UNCHANGED <<cnt, threadCounter, wPc>>,
             \/ UNCHANGED mPc
             \/ mPc' \in {"read_counter", "pop", "run"} /\ mPc \notin {"start", "fill"}
             \/ mPc' = "generator" /\ mPc = "fill"
             \/ mPc' \in {"test_empty", "join", "destroy", "report", "done"}
                  /\ threadCounter = 0 /\ mPc \notin {"fill", "start"}
      PROVE  /\ ThreadsCounted'
             /\ cnt' \in 0 .. NumFiles /\ threadCounter' \in 0 .. NumFiles
  BY <1>0, <1>1 DEF Running
<1>2. CASE SelectGenerator
  <2>1. Running = {} /\ Cardinality(Running) = 0 /\ Running' = Running
    BY <1>2, FS_EmptySet DEF SelectGenerator, Running, OutPCs, workerVars
  <2>2. CASE mPc' = "rejected"
    BY <1>0, <1>2, <2>1, <2>2 DEF SelectGenerator, workerVars
  <2>3. CASE mPc' = "start"
    BY <1>0, <1>2, <2>1, <2>3, ThreadCountType DEF SelectGenerator, workerVars
  <2> QED
    BY <1>2, <2>2, <2>3 DEF SelectGenerator
<1>3. CASE StartThread
  <2>1. ASSUME cnt > 0, NEW w \in Workers, wPc[w] = "none",
               wPc' = [wPc EXCEPT ![w] = "test"], cnt' = cnt - 1, UNCHANGED mPc
        PROVE  /\ ThreadsCounted'
               /\ cnt' \in 0 .. NumFiles /\ threadCounter' \in 0 .. NumFiles
    <3>1. Cardinality(Running') = Cardinality(Running) + 1
      BY <2>1, RunningMoves DEF Running, OutPCs
    <3> QED
      BY <1>0, <1>3, <2>1, <3>1 DEF StartThread
  <2>2. ASSUME cnt = 0, mPc' = "read_counter", UNCHANGED <<wPc, cnt>>
        PROVE  /\ ThreadsCounted'
               /\ cnt' \in 0 .. NumFiles /\ threadCounter' \in 0 .. NumFiles
    BY <1>0, <1>3, <2>2 DEF StartThread, Running
  <2> QED
    BY <1>3, <2>1, <2>2 DEF StartThread
<1>4. CASE ReadCounter
  BY <1>1, <1>4 DEF ReadCounter, workerVars
<1>5. CASE Lists \/ TestsEmpty \/ Pops
  BY <1>1, <1>5 DEF Lists, TestsEmpty, Pops, workerVars
<1>6. CASE RunOperation \/ Join \/ DestroyBackend \/ Report
  BY <1>1, <1>6 DEF RunOperation, Join, DestroyBackend, Report, workerVars
<1>7. ASSUME NEW w \in Workers, WorkerOutline(w), ~Finish(w)
      PROVE  /\ ThreadsCounted'
             /\ cnt' \in 0 .. NumFiles /\ threadCounter' \in 0 .. NumFiles
  <2>1. Running' = Running /\ UNCHANGED <<mPc, cnt, threadCounter>> /\ w \in Running
    BY <1>7, WorkerKeepsRunning
  <2>2. wPc[w] # "none"
    BY <2>1 DEF Running, OutPCs
  <2> QED
    BY <1>0, <2>1, <2>2
<1>8. ASSUME NEW w \in Workers, Finish(w)
      PROVE  /\ ThreadsCounted'
             /\ cnt' \in 0 .. NumFiles /\ threadCounter' \in 0 .. NumFiles
  <2>1. CASE wPc[w] = "finish"
    <3>1. Cardinality(Running') = Cardinality(Running) - 1 /\ Cardinality(Running) > 0
      BY <1>8, <2>1, RunningMoves DEF Finish, WGoto, Running, OutPCs
    <3> QED
      BY <1>0, <1>8, <2>1, <3>1 DEF Finish, mainVars
  <2>2. CASE wPc[w] = "leaving"
    <3>1. Running' = Running
      BY <1>8, <2>2, RunningMoves DEF Finish, WGoto, Running, OutPCs
    <3> QED
      BY <1>0, <1>8, <2>2, <3>1 DEF Finish, mainVars
  <2> QED
    BY <1>8, <2>1, <2>2 DEF Finish
<1>9. CASE UNCHANGED vars
  BY <1>1, <1>9 DEF vars, mainVars, workerVars
<1> QED
  BY <1>2, <1>3, <1>4, <1>5, <1>6, <1>7, <1>8, <1>9 DEF MainOutline

\* The newest tail_ a worker has read is one that tail_ has had.
LEMMA SeenStep ==
  ASSUME Base, [Next]_vars, FQ!IInv'
  PROVE  fSeen' \in [Workers -> 0 .. NumFiles]
<1>0. /\ fSeen \in [Workers -> 0 .. NumFiles] /\ NumFiles \in Nat
      /\ fTail \in 0 .. NumFiles /\ fTail' \in 0 .. NumFiles
  BY FileQueueFacts, FileQueueFactsNext, NumFilesAssumption DEF Base, Types
<1>1. MainStep => UNCHANGED fSeen
  BY DEF MainStep, FillFileQueue, SelectGenerator, StartThread, ReadCounter, TestEmpty,
     PopResult, RunOperation, Join, DestroyBackend, Report, workerVars
<1>2. ASSUME NEW w \in Workers, WorkerStep(w)
      PROVE  UNCHANGED fSeen \/ \E l \in 0 .. NumFiles : Saw(w, l)
  <2>1. TestFileQueue(w) => UNCHANGED fSeen \/ \E l \in 0 .. NumFiles : Saw(w, l)
    <3>1. \A l \in fSeen[w] .. fTail : l \in 0 .. NumFiles
      BY <1>0
    <3> QED
      BY <3>1 DEF TestFileQueue
  <2>2. TakeFile(w) => UNCHANGED fSeen \/ \E l \in 0 .. NumFiles : Saw(w, l)
    BY <1>0 DEF TakeFile
  <2>3. WorkerStep(w) /\ ~TestFileQueue(w) /\ ~TakeFile(w) => UNCHANGED fSeen
    BY DEF WorkerStep, LoadFile, LogUnreadable, Send, Parse, PushResult, Parsed,
       LogError, LogProfile, Finish
  <2> QED
    BY <1>2, <2>1, <2>2, <2>3
<1>3. ASSUME NEW w \in Workers, NEW l \in 0 .. NumFiles, Saw(w, l)
      PROVE  fSeen' \in [Workers -> 0 .. NumFiles]
  BY <1>0, <1>3 DEF Saw
<1> QED
  BY <1>0, <1>1, <1>2, <1>3 DEF Next, Ended, vars, workerVars

\* A popped Result is one that was sent.
LEMMA PoppedIsResult ==
  ASSUME RQ!IInv, rPc[Main] = "release"
  PROVE  /\ rTicket[Main] + 1 \in 1 .. Len(rSent)
         /\ rSent[rTicket[Main] + 1] \in Results
<1>1. Main \in Threads /\ rHead = Len(rSent) /\ rTicket[Main] \in Nat
      /\ rHead \in Nat /\ rSent \in Seq(Results)
  BY SharedQueueFacts DEF Threads
<1>2. rTicket[Main] < rHead
  BY <1>1, ResultConsumer DEF ReadPCs
<1> QED
  BY <1>1, <1>2

LEMMA TypesStep ==
  ASSUME Base, [Next]_vars, FQ!IInv', RQ!IInv'
  PROVE  Types'
<1>0. Types
  BY DEF Base
<1>1. MainOutline \/ (\E w \in Workers : WorkerOutline(w)) \/ UNCHANGED vars
  BY StepOutline
<1>2. cnt' \in 0 .. NumFiles /\ threadCounter' \in 0 .. NumFiles
  BY <1>1, ThreadsCountedStep
<1>3. fSeen' \in [Workers -> 0 .. NumFiles]
  BY SeenStep
<1>4. mPc' \in MainPCs /\ profile' \in BOOLEAN
  <2>1. MainOutline => mPc' \in MainPCs /\ profile' = profile
    BY <1>0 DEF MainOutline, Types, MainPCs, Lists, SelectGenerator, StartThread,
       ReadCounter, TestsEmpty, Pops, RunOperation, Join, DestroyBackend, Report
  <2>2. ASSUME NEW w \in Workers, WorkerOutline(w) PROVE UNCHANGED mainVars
    BY <2>2 DEF WorkerOutline, Tests, Takes, LoadFile, Parse, Parsed, Finish, Sends
  <2> QED
    BY <1>0, <1>1, <2>1, <2>2 DEF Types, mainVars, vars
<1>5. result' \in Seq(Operations) /\ log' \in Seq(Operations)
  <2>1. RunOperation => result' \in Seq(Operations) /\ log' \in Seq(Operations)
    <3>1. CASE result = NoResult
      BY <1>0, <3>1 DEF RunOperation, Types
    <3>2. CASE result # NoResult
      <4>1. Head(result) \in Operations /\ Tail(result) \in Seq(Operations)
        BY <1>0, <3>2, HeadTailProperties DEF Types, NoResult
      <4> QED
        <5>1. Append(log, Head(result)) \in Seq(Operations)
          BY <1>0, <4>1, AppendProperties DEF Types
        <5> QED
          BY <3>2, <4>1, <5>1 DEF RunOperation
    <3> QED
      BY <3>1, <3>2
  <2>2. Pops => result' \in Seq(Operations) /\ log' \in Seq(Operations)
    <3>1. rPc[Main] = "release" => rSent[rTicket[Main] + 1] \in Seq(Operations)
      BY PoppedIsResult, ResultForm DEF Base
    <3> QED
      BY <1>0, <3>1 DEF Pops, Types
  <2>3. MainOutline /\ ~RunOperation /\ ~Pops => UNCHANGED <<result, log>>
    BY DEF MainOutline, Lists, SelectGenerator, StartThread, ReadCounter, TestsEmpty,
       Join, DestroyBackend, Report
  <2>4. ASSUME NEW w \in Workers, WorkerOutline(w) PROVE UNCHANGED <<result, log>>
    BY <2>4 DEF WorkerOutline, Tests, Takes, LoadFile, Parse, Parsed, Finish, Sends,
       mainVars
  <2> QED
    BY <1>0, <1>1, <2>1, <2>2, <2>3, <2>4 DEF Types, mainVars, vars
<1>6. wPc' \in [Workers -> WorkerPCs]
  <2>1. MainOutline => wPc' \in [Workers -> WorkerPCs]
    BY <1>0 DEF MainOutline, Types, WorkerPCs, Lists, SelectGenerator, StartThread,
       ReadCounter, TestsEmpty, Pops, RunOperation, Join, DestroyBackend, Report,
       workerVars
  <2>2. ASSUME NEW w \in Workers, WorkerOutline(w) PROVE wPc' \in [Workers -> WorkerPCs]
    <3>1. Finish(w) => wPc' \in [Workers -> WorkerPCs]
      BY <1>0 DEF Finish, WGoto, Types, WorkerPCs
    <3>2. ~Finish(w) => wPc' \in [Workers -> WorkerPCs]
      BY <1>0, <2>2, WorkerKeepsRunning DEF Types
    <3> QED
      BY <3>1, <3>2
  <2> QED
    BY <1>0, <1>1, <2>1, <2>2 DEF Types, vars, workerVars
<1>7. m_queue' \in [Workers -> Seq(Operations)] /\ filesParsed' \in Nat
  <2>1. MainOutline => UNCHANGED <<m_queue, filesParsed>>
    BY DEF MainOutline, Lists, SelectGenerator, StartThread, ReadCounter, TestsEmpty,
       Pops, RunOperation, Join, DestroyBackend, Report, workerVars
  <2>2. ASSUME NEW w \in Workers, LoadFile(w)
        PROVE  m_queue' \in [Workers -> Seq(Operations)] /\ filesParsed' \in Nat
    <3>1. wPc[w] = "load" => fVal[w] \in Files
      BY FileQueueFacts, NumFilesAssumption DEF Base, WorkersHoldFiles, HoldingPCs, Files
    <3>2. wPc[w] = "load" => << <<fVal[w], "begin">> >> \in Seq(Operations)
      BY <3>1, RecordedBegin
    <3> QED
      BY <1>0, <2>2, <3>2 DEF LoadFile, Types
  <2>3. ASSUME NEW w \in Workers, Parse(w)
        PROVE  m_queue' \in [Workers -> Seq(Operations)] /\ filesParsed' \in Nat
    <3>1. fVal[w] \in Files /\ Recording(m_queue[w], fVal[w])
      BY <2>3, FileQueueFacts, NumFilesAssumption DEF Parse, Base, WorkersHoldFiles,
         HoldingPCs, Files
    <3>2. PICK op \in {"decl", "end", "end_error"} :
            m_queue' = [m_queue EXCEPT ![w] = Append(@, <<fVal[w], op>>)]
      BY <2>3 DEF Parse
    <3>3. Append(m_queue[w], <<fVal[w], op>>) \in Seq(Operations)
      BY <3>1, RecordedNext
    <3> QED
      BY <1>0, <2>3, <3>2, <3>3 DEF Parse, Types
  <2>4. ASSUME NEW w \in Workers, Parsed(w)
        PROVE  m_queue' \in [Workers -> Seq(Operations)] /\ filesParsed' \in Nat
    <3>1. << >> \in Seq(Operations)
      OBVIOUS
    <3> QED
      BY <1>0, <2>4, <3>1 DEF Parsed, Types
  <2>5. ASSUME NEW w \in Workers, WorkerOutline(w), ~LoadFile(w), ~Parse(w), ~Parsed(w)
        PROVE  UNCHANGED <<m_queue, filesParsed>>
    BY <2>5 DEF WorkerOutline, Tests, Takes, Finish, Sends
  <2> QED
    BY <1>0, <1>1, <2>1, <2>2, <2>3, <2>4, <2>5 DEF Types, vars, workerVars
<1> QED
  BY <1>2, <1>3, <1>4, <1>5, <1>6, <1>7 DEF Types

LEMMA InOperationStep ==
  ASSUME Base, MainOutline \/ (\E w \in Workers : WorkerOutline(w)) \/ UNCHANGED vars
  PROVE  InOperation'
<1> USE DEF Base, InOperation
<1>0. Main \notin Workers /\ Threads = Workers \union {Main}
      /\ wPc \in [Workers -> WorkerPCs]
  BY MainAssumption DEF Threads, Types
<1>1. CASE Lists
  BY <1>0, <1>1 DEF Lists, FOthers, rVars, workerVars
<1>2. CASE TestsEmpty
  BY <1>0, <1>2 DEF TestsEmpty, ROthers, fVars, workerVars, EmptyPCs
<1>3. CASE Pops
  BY <1>0, <1>3 DEF Pops, ROthers, fVars, workerVars, TryPopPCs, ReadPCs
<1>4. CASE StartThread
  BY <1>0, <1>4 DEF StartThread, fVars, rVars, SendingPCs
<1>5. CASE SelectGenerator \/ ReadCounter \/ RunOperation \/ Join \/ DestroyBackend \/ Report
  BY <1>0, <1>5 DEF SelectGenerator, ReadCounter, RunOperation, Join, DestroyBackend,
     Report, fVars, rVars, workerVars
<1>6. ASSUME NEW w \in Workers, Tests(w)
      PROVE  InOperation'
  BY <1>0, <1>6 DEF Tests, FOthers, WGoto, rVars, mainVars, EmptyPCs, SendingPCs
<1>7. ASSUME NEW w \in Workers, Takes(w)
      PROVE  InOperation'
  BY <1>0, <1>7 DEF Takes, FOthers, WGoto, rVars, mainVars, TryPopPCs, ReadPCs, SendingPCs
<1>8. ASSUME NEW w \in Workers, LoadFile(w) \/ Parse(w) \/ Parsed(w) \/ Finish(w)
      PROVE  InOperation'
  BY <1>0, <1>8 DEF LoadFile, Parse, Parsed, Finish, WGoto, fVars, rVars, mainVars, SendingPCs
<1>9. ASSUME NEW w \in Workers, NEW from, NEW r, NEW to,
             SendPlan(w, from, r, to), Sends(w, from, r, to)
      PROVE  InOperation'
  <2>1. from \in SendingPCs
    BY <1>9 DEF SendPlan, SendingPCs
  <2> QED
    BY <1>0, <1>9, <2>1 DEF Sends, ROthers, WGoto, fVars, mainVars, SendingPCs
<1>10. CASE UNCHANGED vars
  BY <1>10 DEF vars, fVars, rVars, mainVars, workerVars
<1> QED
  BY <1>1, <1>2, <1>3, <1>4, <1>5, <1>6, <1>7, <1>8, <1>9, <1>10 DEF MainOutline, WorkerOutline

LEMMA FilesListedStep ==
  ASSUME Base, MainOutline \/ (\E w \in Workers : WorkerOutline(w)) \/ UNCHANGED vars
  PROVE  FilesListed'
<1> USE DEF Base, FilesListed
<1>0. fHead \in Nat /\ fSent \in Seq(Files) /\ Len(fSent) = fHead
  BY FileQueueFacts
<1>1. CASE Lists
  <2>1. CASE fHead' = fHead + 1 /\ fSent' = Append(fSent, fHead + 1)
    <3>1. ASSUME NEW k \in 1 .. fHead + 1 PROVE fSent'[k] = k
      BY <1>0, <2>1
    <3> QED
      BY <1>0, <1>1, <2>1, <3>1 DEF Lists
  <2>2. CASE UNCHANGED <<fHead, fSent>>
    BY <1>1, <2>2 DEF Lists
  <2> QED
    BY <1>1, <2>1, <2>2 DEF Lists
<1>2. MainOutline /\ ~Lists => UNCHANGED <<fHead, fSent>> /\ mPc # "fill"
  BY DEF MainOutline, TestsEmpty, Pops, StartThread, SelectGenerator, ReadCounter,
     RunOperation, Join, DestroyBackend, Report, fVars
<1>3. ASSUME NEW w \in Workers, WorkerOutline(w) PROVE UNCHANGED <<fHead, fSent, mPc>>
  BY <1>3 DEF WorkerOutline, Tests, Takes, LoadFile, Parse, Parsed, Finish, Sends, fVars,
     mainVars
<1> QED
  BY <1>1, <1>2, <1>3 DEF vars, fVars, mainVars

LEMMA WorkersHoldFilesStep ==
  ASSUME Base, FQ!IInv',
         MainOutline \/ (\E w \in Workers : WorkerOutline(w)) \/ UNCHANGED vars
  PROVE  WorkersHoldFiles'
<1> USE DEF Base, WorkersHoldFiles
<1>0. /\ Main \notin Workers /\ Threads = Workers \union {Main}
      /\ wPc \in [Workers -> WorkerPCs] /\ m_queue \in [Workers -> Seq(Operations)]
      /\ fTail \in 0 .. NumFiles /\ fTail' \in 0 .. NumFiles /\ fHead \in Nat
      /\ fVal \in [Threads -> Files \union {None}] /\ NumFiles \in Nat
  BY MainAssumption, FileQueueFacts, FileQueueFactsNext, NumFilesAssumption
     DEF Threads, Types
<1>a. \A w \in Workers : wPc[w] \in HoldingPCs => fVal[w] \in Files
  BY <1>0 DEF Files
<1>1. CASE Lists
  BY <1>0, <1>1 DEF Lists, FOthers, workerVars
<1>2. CASE TestsEmpty \/ Pops \/ SelectGenerator \/ ReadCounter \/ RunOperation \/ Join
             \/ DestroyBackend \/ Report
  BY <1>2 DEF TestsEmpty, Pops, SelectGenerator, ReadCounter, RunOperation, Join,
     DestroyBackend, Report, fVars, workerVars
<1>4. CASE StartThread
  BY <1>0, <1>4 DEF StartThread, fVars, HoldingPCs, SendingPCs
<1>6. ASSUME NEW w \in Workers, Tests(w)
      PROVE  WorkersHoldFiles'
  BY <1>0, <1>6 DEF Tests, FOthers, WGoto, HoldingPCs, SendingPCs
<1>7. ASSUME NEW w \in Workers, Takes(w)
      PROVE  WorkersHoldFiles'
  <2>1. fTail' >= fTail
    BY <1>0, <1>7 DEF Takes
  <2>2. CASE UNCHANGED wPc
    BY <1>0, <1>7, <2>1, <2>2 DEF Takes, FOthers, HoldingPCs, SendingPCs
  <2>3. CASE WGoto(w, "load") /\ fPc[w] = "release" /\ fVal'[w] = fSent[fTicket[w] + 1]
             /\ fTail' = fTail
    <3>1. fTicket[w] < fTail /\ fTicket[w] < fHead /\ fTicket[w] \in Nat
      BY <1>0, <2>3, FileConsumer, FileQueueFacts DEF ReadPCs
    <3>2. fVal'[w] = fTicket[w] + 1
      BY <1>0, <2>3, <3>1 DEF FilesListed
    <3> QED
      BY <1>0, <1>7, <2>3, <3>1, <3>2 DEF Takes, FOthers, WGoto, HoldingPCs, SendingPCs
  <2>4. CASE WGoto(w, "test") /\ UNCHANGED <<fTail, fVal>>
    BY <1>0, <1>7, <2>4 DEF Takes, WGoto, HoldingPCs, SendingPCs
  <2> QED
    BY <1>7, <2>2, <2>3, <2>4 DEF Takes
<1>8. ASSUME NEW w \in Workers, LoadFile(w)
      PROVE  WorkersHoldFiles'
  <2>1. fVal[w] \in Files
    BY <1>a, <1>8 DEF LoadFile, HoldingPCs
  <2>2. Recording(<< <<fVal[w], "begin">> >>, fVal[w])
    BY <2>1, RecordedBegin
  <2> QED
    BY <1>0, <1>8, <2>2 DEF LoadFile, WGoto, fVars, HoldingPCs, SendingPCs
<1>9. ASSUME NEW w \in Workers, Parse(w)
      PROVE  WorkersHoldFiles'
  <2>1. fVal[w] \in Files /\ Recording(m_queue[w], fVal[w])
    BY <1>a, <1>9 DEF Parse, HoldingPCs
  <2>2. PICK op \in {"decl", "end", "end_error"} :
          /\ op = "decl" => Len(m_queue[w]) <= MaxDecls
          /\ m_queue' = [m_queue EXCEPT ![w] = Append(m_queue[w], <<fVal[w], op>>)]
          /\ WGoto(w, IF op = "decl" THEN "parse" ELSE "push")
    BY <1>9 DEF Parse
  <2>3. CASE op = "decl"
    <3>1. Recording(m_queue'[w], fVal[w])
      BY <1>0, <2>1, <2>2, <2>3, RecordedNext
    <3> QED
      BY <1>0, <1>9, <2>2, <2>3, <3>1 DEF Parse, WGoto, fVars, HoldingPCs, SendingPCs
  <2>4. CASE op # "decl"
    <3>1. Calls(m_queue'[w], fVal[w], op)
      <4>1. m_queue'[w] = Append(m_queue[w], <<fVal[w], op>>)
        BY <1>0, <2>2
      <4>2. Calls(Append(m_queue[w], <<fVal[w], op>>), fVal[w], op)
        BY <2>1, <2>4, RecordedNext
      <4> QED
        BY <4>1, <4>2
    <3>2. m_queue'[w] \in BackendCalls(fVal[w])
      BY <2>1, <2>2, <2>4, <3>1, BackendCallsForm
    <3> QED
      BY <1>0, <1>9, <2>2, <2>4, <3>2 DEF Parse, WGoto, fVars, HoldingPCs, SendingPCs
  <2> QED
    BY <2>3, <2>4
<1>10. ASSUME NEW w \in Workers, Parsed(w) \/ Finish(w)
      PROVE  WorkersHoldFiles'
  BY <1>0, <1>10 DEF Parsed, Finish, WGoto, fVars, HoldingPCs, SendingPCs
<1>11. ASSUME NEW w \in Workers, NEW from, NEW r, NEW to,
             SendPlan(w, from, r, to), Sends(w, from, r, to)
      PROVE  WorkersHoldFiles'
  <2>1. CASE UNCHANGED wPc
    BY <1>11, <2>1 DEF Sends, fVars
  <2>2. CASE WGoto(w, to)
    BY <1>0, <1>11, <2>2 DEF Sends, SendPlan, WGoto, fVars, HoldingPCs, SendingPCs
  <2> QED
    BY <1>11, <2>1, <2>2 DEF Sends
<1>12. CASE UNCHANGED vars
  BY <1>12 DEF vars, fVars, workerVars
<1> QED
  BY <1>1, <1>2, <1>4, <1>6, <1>7, <1>8, <1>9, <1>10, <1>11, <1>12 DEF MainOutline,
     WorkerOutline

-----------------------------------------------------------------------------

LEMMA BaseInit ==
  ASSUME Init
  PROVE  Base
<1>1. FQ!IInv
  BY FileQueueSame, FileQueueParameters, FQ!InitInvariant DEF Init
<1>2. RQ!IInv
  BY SharedQueueSame, SharedQueueParameters, RQ!InitInvariant DEF Init
<1>3. fHead = 0 /\ fPc = [t \in Threads |-> "idle"] /\ rPc = [t \in Threads |-> "idle"]
  BY DEF Init, fileQueue!Init, sharedQueue!Init
<1>4. Running = {} /\ Cardinality(Running) = 0
  BY FS_EmptySet DEF Init, Running, OutPCs
<1>5. Types
  BY NumFilesAssumption DEF Init, Types, MainPCs, WorkerPCs, NoResult
<1>6. InOperation
  BY <1>3 DEF InOperation, Threads
<1>7. ThreadsCounted
  BY <1>4 DEF Init, ThreadsCounted
<1>8. FilesListed
  BY <1>3 DEF Init, FilesListed
<1>9. WorkersHoldFiles
  BY DEF Init, WorkersHoldFiles, HoldingPCs, SendingPCs
<1> QED
  BY <1>1, <1>2, <1>5, <1>6, <1>7, <1>8, <1>9 DEF Base

LEMMA BaseStep ==
  ASSUME Base, [Next]_vars
  PROVE  Base'
<1>1. FQ!IInv' /\ RQ!IInv'
  BY FileQueueStep, SharedQueueStep
<1>2. MainOutline \/ (\E w \in Workers : WorkerOutline(w)) \/ UNCHANGED vars
  BY StepOutline
<1> QED
  BY <1>1, <1>2, TypesStep, InOperationStep, ThreadsCountedStep, FilesListedStep,
     WorkersHoldFilesStep DEF Base

\* The invariant that the other proofs rest on.
THEOREM BaseHolds == Spec => []Base
<1>1. Init => Base
  BY BaseInit
<1>2. Base /\ [Next]_vars => Base'
  BY BaseStep
<1> QED
  BY <1>1, <1>2, PTL DEF Spec

-----------------------------------------------------------------------------
(* The promises of the queues, for the two queues of main().               *)

\* The threads of main.cc use both queues by their operations only, with the
\* values and within the bounds that MPMCQueue expects: the workers send Results
\* (lines 120-150), the main thread files (lines 74-77).
THEOREM QueuesUsed == Spec => fileQueue!Spec /\ sharedQueue!Spec
<1>1. Init => fileQueue!Init /\ sharedQueue!Init
  BY DEF Init
<1>2. Base /\ [Next]_vars =>
        [fileQueue!Next]_(fileQueue!vars) /\ [sharedQueue!Next]_(sharedQueue!vars)
  <2> SUFFICES ASSUME Base, [Next]_vars
               PROVE  /\ [fileQueue!Next]_(fileQueue!vars)
                      /\ [sharedQueue!Next]_(sharedQueue!vars)
    OBVIOUS
  <2>1. [FQ!Next]_(FQ!vars) /\ [RQ!Next]_(RQ!vars)
    BY FileQueueStep, SharedQueueStep
  <2> QED
    BY <2>1, FileQueueSame, SharedQueueSame
    DEF FQ!vars, RQ!vars, fileQueue!vars, sharedQueue!vars
<1> QED
  BY <1>1, <1>2, BaseHolds, PTL DEF Spec, fileQueue!Spec, sharedQueue!Spec

\* Hence both are the channel of FifoChannel: whatever the threads of main.cc do,
\* a file and a Result are delivered once, in the order of the tickets.
THEOREM QueuesAreChannels == Spec => FQ!ImplementsChannel /\ RQ!ImplementsChannel
<1>1. Init => FQ!Init /\ RQ!Init
  BY FileQueueSame, SharedQueueSame DEF Init
<1>2. Base /\ [Next]_vars => [FQ!Next]_(FQ!vars) /\ [RQ!Next]_(RQ!vars)
  BY FileQueueStep, SharedQueueStep
<1>3. FQ!Spec => FQ!ImplementsChannel
  BY FileQueueParameters, FQ!ChannelImplemented
<1>4. RQ!Spec => RQ!ImplementsChannel
  BY SharedQueueParameters, RQ!ChannelImplemented
<1> QED
  BY <1>1, <1>2, <1>3, <1>4, BaseHolds, PTL DEF Spec, FQ!Spec, RQ!Spec

-----------------------------------------------------------------------------
(* Nobody waits in vain.                                                   *)

EndedPCs == {"join", "destroy", "report", "done"}

\* When threadCounter was read as zero, no thread is left that could send.
LEMMA NoneRunning ==
  ASSUME Base, mPc \in EndedPCs \union {"test_empty"}
  PROVE  Running = {}
<1>1. threadCounter = 0 /\ threadCounter = cnt + Cardinality(Running) /\ cnt \in Nat
  BY NumFilesAssumption DEF Base, ThreadsCounted, EndedPCs, Types
<1>2. IsFiniteSet(Running)
  BY WorkersAssumption, FS_Subset DEF Running
<1>3. Cardinality(Running) \in Nat
  BY <1>2, FS_CardinalityType
<1>4. Cardinality(Running) = 0
  BY <1>1, <1>3
<1> QED
  BY <1>2, <1>4, FS_EmptySet

\* The main thread is the only one that takes Results, and never waits for one.
LEMMA OnlyMainTakes ==
  ASSUME Base, NEW u \in Threads, RQ!Consuming(u)
  PROVE  u = Main /\ rPc[Main] \in ReadPCs
<1>1. rPc[u] \in {"pop_spin"} \union ReadPCs
  BY DEF RQ!Consuming, RQ!ReadPCs, ReadPCs
<1>2. CASE u = Main
  BY <1>1, <1>2 DEF Base, InOperation, EmptyPCs, TryPopPCs, ReadPCs
<1>3. CASE u \in Workers
  BY <1>1, <1>3 DEF Base, InOperation, SendPCs, ReadPCs
<1> QED
  BY <1>2, <1>3 DEF Threads

\* fileQueue has a slot for each file, so none is ever waited for.
LEMMA FillNeverWaits ==
  ASSUME Base, fPc[Main] = "emplace_spin"
  PROVE  fileQueue!ProducerTurn(Main)
<1> DEFINE k == fTicket[Main]
<1>1. /\ Main \in Threads /\ FQ!IInv /\ FQ!Producing(Main)
  BY DEF Threads, Base, FQ!Producing
<1>2. /\ k \in Nat /\ k < fHead /\ fHead <= NumFiles /\ fHead \in Nat
      /\ fTurn[FQ!Slot(Main)] <= FQ!turn(k) * 2
  BY <1>1, FileQueueFacts, FileQueueParameters DEF FQ!IInv, FQ!ProducersInTurn
<1>3. /\ FQ!Slot(Main) \in FQ!Slots /\ FQ!turn(k) \in Nat
      /\ fTurn[FQ!Slot(Main)] \in Nat
  <2>1. FQ!Slot(Main) \in FQ!Slots /\ FQ!turn(k) \in Nat
    BY <1>1, FQ!OwnTicket, FileQueueParameters DEF FQ!IInv, FQ!Slot
  <2> QED
    BY <1>1, <2>1 DEF FQ!IInv, FQ!TypeOK
<1>4. FQ!turn(k) = 0
  BY <1>2, FileQueueParameters DEF FQ!turn
<1>5. fTurn[FQ!Slot(Main)] = FQ!turn(k) * 2
  BY <1>2, <1>3, <1>4
<1> QED
  BY <1>5 DEF fileQueue!ProducerTurn, fileQueue!Slot, FQ!Slot, fileQueue!idx, FQ!idx,
              fileQueue!turn, FQ!turn

\* Nobody waits in vain, whatever the number of files and threads and the room in
\* sharedQueue (main.cc:74-77 and 120-167, MPMCQueue.h:171).
THEOREM NoVainWaits == Spec => []NobodyWaitsInVain
<1>1. ASSUME Base, RQ!TicketsKept
      PROVE  NobodyWaitsInVain
  <2>1. ASSUME NEW w \in Workers, WaitsForRoom(w)
        PROVE  mPc \in {"start", "read_counter", "pop", "run"}
    <3>1. wPc[w] \in SendingPCs
      BY <1>1, <2>1 DEF WaitsForRoom, Base, InOperation
    <3>2. mPc \notin {"fill", "generator", "rejected"}
      BY <1>1, <3>1 DEF Base, ThreadsCounted, SendingPCs
    <3>3. w \in Running
      BY <3>1 DEF Running, SendingPCs, OutPCs
    <3>4. mPc \notin EndedPCs \union {"test_empty"}
      BY <1>1, <3>3, NoneRunning
    <3> QED
      BY <1>1, <3>2, <3>4 DEF Base, Types, MainPCs, EndedPCs
  <2>2. ASSUME NEW w \in Workers, WaitsForRoom(w)
        PROVE  \/ rTicket[w] - ResultCapacity >= rTail
               \/ TakingOut(rTicket[w] - ResultCapacity)
    <3>1. /\ w \in Threads /\ RQ!IInv /\ rPc[w] = "emplace_spin" /\ ~RQ!ProducerTurn(w)
      BY <1>1, <2>2
      DEF Threads, Base, WaitsForRoom, sharedQueue!ProducerTurn, RQ!ProducerTurn,
          sharedQueue!Slot, RQ!Slot, sharedQueue!idx, RQ!idx, sharedQueue!turn, RQ!turn
    <3>2. \/ rTicket[w] - ResultCapacity >= rTail
          \/ \E u \in Threads :
               RQ!Consuming(u) /\ rTicket[u] = rTicket[w] - ResultCapacity
      BY <1>1, <3>1, SharedQueueParameters, RQ!ProducerWaits
    <3>3. ASSUME NEW u \in Threads, RQ!Consuming(u),
                 rTicket[u] = rTicket[w] - ResultCapacity
          PROVE  TakingOut(rTicket[w] - ResultCapacity)
      BY <1>1, <3>3, OnlyMainTakes DEF TakingOut, sharedQueue!ReadPCs, ReadPCs
    <3> QED
      BY <3>2, <3>3
  <2> QED
    BY <1>1, <2>1, <2>2, FillNeverWaits DEF NobodyWaitsInVain
<1>2. Init => RQ!Init
  BY SharedQueueSame DEF Init
<1>3. Base /\ [Next]_vars => [RQ!Next]_(RQ!vars)
  BY SharedQueueStep
<1>4. RQ!Spec => [](RQ!IInv /\ RQ!TicketsKept)
  BY SharedQueueParameters, RQ!TicketsAlwaysKept
<1> QED
  BY <1>1, <1>2, <1>3, <1>4, BaseHolds, PTL DEF Spec, RQ!Spec

-----------------------------------------------------------------------------
(* What the main thread runs: the invariant.                               *)

\* The Result being run is the rest of the one popped last, and the main loop
\* ends only when none is left.
PopsInOrder ==
  /\ rTail <= rHead
  /\ mPc # "run" => result = NoResult
  /\ rPc[Main] \in ReadPCs => rTail > 0 /\ rTicket[Main] = rTail - 1
  /\ rPc[Main] = "empty_head" => rTicket[Main] = rTail
  /\ rPc[Main] = "empty_tail" => rTicket[Main] = rHead
  /\ mPc \in EndedPCs => rTail = rHead

\* How many Results the main thread has popped.
Popped == IF rPc[Main] \in ReadPCs THEN rTail - 1 ELSE rTail

RestOf(r, q) ==
  /\ Len(q) <= Len(r)
  /\ \A i \in 1 .. Len(q) : q[i] = r[Len(r) - Len(q) + i]

RunsRest == result # NoResult => rTail > 0 /\ RestOf(rSent[rTail], result)

RunInOrder == log \o result = FlattenSeq(SubSeq(rSent, 1, Popped))

\* How many operations of the k-th Result have been run.
Executed(k) ==
  IF k < rTail THEN Len(rSent[k])
  ELSE IF k = rTail /\ rPc[Main] \notin ReadPCs THEN Len(rSent[k]) - Len(result) ELSE 0

Logged(op) == \E i \in 1 .. Len(log) : log[i] = op

LogComplete ==
  \A k \in 1 .. rTail : \A j \in 1 .. Executed(k) : Logged(rSent[k][j])

LogInv == PopsInOrder /\ RunsRest /\ RunInOrder /\ LogComplete

\* Messages.
HasSent(f, e, n) == \E j \in 1 .. n : Calls(rSent[j], f, e)

MessagesSentLast ==
  \A k \in 1 .. Len(rSent) : \A f \in Files :
    /\ rSent[k] = << <<f, "log_error">> >> => HasSent(f, "end_error", k - 1)
    /\ rSent[k] = << <<f, "log_profile">> >> =>
         HasSent(f, "end", k - 1) \/ HasSent(f, "end_error", k - 1)

Pushed(w) == wPc[w] = "parsed" \/ (wPc[w] = "push" /\ rPc[w] # "idle")

WorkersHaveSent ==
  \A w \in Workers :
    /\ Pushed(w) => \E j \in 1 .. Len(rSent) : rSent[j] = m_queue[w]
    /\ wPc[w] = "error" => HasSent(fVal[w], "end_error", Len(rSent))
    /\ wPc[w] = "profile" =>
         HasSent(fVal[w], "end", Len(rSent)) \/ HasSent(fVal[w], "end_error", Len(rSent))

\* Counting.
EndsWell(r) == r[Len(r)][2] = "end"

SentWell    == {k \in 1 .. Len(rSent) : EndsWell(rSent[k])}
Uncounted   == {w \in Workers : Pushed(w) /\ EndsWell(m_queue[w])}
ExecutedWell == {k \in 1 .. rTail : Executed(k) = Len(rSent[k]) /\ EndsWell(rSent[k])}
EndsLogged  == {i \in 1 .. Len(log) : log[i][2] = "end"}

-----------------------------------------------------------------------------
(* Sequences.                                                              *)

\* What is appended to a sequence does not change its beginning.
LEMMA AppendAt ==
  ASSUME NEW S, NEW s \in Seq(S), NEW x \in S
  PROVE  /\ Append(s, x) \in Seq(S) /\ Len(Append(s, x)) = Len(s) + 1
         /\ Len(s) \in Nat
         /\ \A i \in 1 .. Len(s) : Append(s, x)[i] = s[i]
         /\ Append(s, x)[Len(s) + 1] = x
OBVIOUS

LEMMA PrefixKept ==
  ASSUME NEW S, NEW s \in Seq(S), NEW x \in S, NEW n \in 0 .. Len(s)
  PROVE  SubSeq(Append(s, x), 1, n) = SubSeq(s, 1, n)
<1> DEFINE t == Append(s, x)
<1>0. Len(s) \in Nat /\ n \in Int
  BY LenProperties
<1>1. \A i \in 1 .. n : s[i] \in S /\ t[i] = s[i]
  BY <1>0, AppendAt, ElementOfSeq
<1> HIDE DEF t
<1>2. /\ SubSeq(s, 1, n) \in Seq(S)
      /\ Len(SubSeq(s, 1, n)) = IF 1 <= n THEN n - 1 + 1 ELSE 0
      /\ \A i \in 1 .. n - 1 + 1 : SubSeq(s, 1, n)[i] = s[1 + i - 1]
  BY <1>0, <1>1, SubSeqProperties
<1>3. /\ SubSeq(t, 1, n) \in Seq(S)
      /\ Len(SubSeq(t, 1, n)) = IF 1 <= n THEN n - 1 + 1 ELSE 0
      /\ \A i \in 1 .. n - 1 + 1 : SubSeq(t, 1, n)[i] = t[1 + i - 1]
  BY <1>0, <1>1, SubSeqProperties
<1> DEFINE a == SubSeq(s, 1, n)
           b == SubSeq(t, 1, n)
<1>4. Len(a) = n /\ Len(b) = n
  BY <1>0, <1>2, <1>3
<1>5. \A i \in 1 .. n : a[i] = b[i]
  BY <1>0, <1>1, <1>2, <1>3
<1>6. a \in Seq(S) /\ b \in Seq(S)
  BY <1>2, <1>3
<1>7. a = b
  <2> HIDE DEF a, b
  <2> QED
    BY <1>4, <1>5, <1>6, SeqEqual
<1> QED
  BY <1>7 DEF t

LEMMA PrefixNext ==
  ASSUME NEW S, NEW s \in Seq(S), NEW n \in 0 .. Len(s) - 1
  PROVE  /\ SubSeq(s, 1, n) \in Seq(S)
         /\ SubSeq(s, 1, n + 1) = Append(SubSeq(s, 1, n), s[n + 1])
<1>0. Len(s) \in Nat /\ n \in Int /\ n + 1 \in 1 .. Len(s) /\ 1 \in 1 .. Len(s)
  BY LenProperties
<1>1. \A i \in 1 .. n : s[i] \in S
  BY <1>0, ElementOfSeq
<1>2. SubSeq(s, 1, n) \in Seq(S)
  BY <1>0, <1>1, SubSeqProperties
<1>3. SubSeq(s, 1, n + 1) = SubSeq(s, 1, n + 1 - 1) \o << s[n + 1] >>
  BY <1>0, SubSeqRecursiveSecond
<1>4. n + 1 - 1 = n
  BY <1>0
<1>5. s[n + 1] \in S
  BY <1>0, ElementOfSeq
<1>6. SubSeq(s, 1, n) \o << s[n + 1] >> = Append(SubSeq(s, 1, n), s[n + 1])
  <2> DEFINE a == SubSeq(s, 1, n)
             x == s[n + 1]
  <2>1. a \in Seq(S) /\ x \in S
    BY <1>2, <1>5
  <2> HIDE DEF a, x
  <2>2. a \o <<x>> = Append(a, x)
    BY <2>1, AppendIsConcat
  <2> QED
    BY <2>2 DEF a, x
<1> QED
  BY <1>2, <1>3, <1>4, <1>6

\* Moving the head of a sequence behind another.
LEMMA HeadMoved ==
  ASSUME NEW S, NEW s \in Seq(S), NEW q \in Seq(S), q # << >>
  PROVE  Append(s, Head(q)) \o Tail(q) = s \o q
<1>1. /\ Head(q) \in S /\ Tail(q) \in Seq(S)
  BY HeadTailProperties
<1>2. <<Head(q)>> \o Tail(q) = q
  BY HeadTailProperties
<1>3. Append(s, Head(q)) = s \o <<Head(q)>> /\ <<Head(q)>> \in Seq(S)
  BY <1>1, AppendIsConcat
<1>4. (s \o <<Head(q)>>) \o Tail(q) = s \o (<<Head(q)>> \o Tail(q))
  BY <1>1, <1>3, ConcatAssociative
<1> QED
  BY <1>2, <1>3, <1>4

-----------------------------------------------------------------------------
(* Which steps matter to the Results.                                      *)

LEMMA SentTypes ==
  ASSUME Base
  PROVE  /\ rHead \in Nat /\ rTail \in Nat /\ Len(rSent) = rHead
         /\ rSent \in Seq(Results) /\ rSent \in Seq(Seq(Operations))
         /\ \A k \in 1 .. rHead :
              /\ rSent[k] \in Results
              /\ rSent[k] \in Seq(Operations)
              /\ Len(rSent[k]) \in Nat \ {0}
         /\ result \in Seq(Operations) /\ log \in Seq(Operations)
<1>1. /\ rHead \in Nat /\ rTail \in Nat /\ Len(rSent) = rHead /\ rSent \in Seq(Results)
  BY SharedQueueFacts DEF Base
<1>2. \A r \in Results : r \in Seq(Operations) /\ Len(r) \in Nat \ {0}
  BY ResultForm
<1>3. \A k \in 1 .. rHead : rSent[k] \in Results
  BY <1>1, ElementOfSeq
<1>4. rSent \in Seq(Seq(Operations))
  BY <1>1, <1>2
<1> QED
  BY <1>1, <1>2, <1>3, <1>4 DEF Base, Types

\* Neither the Results nor what was run of them change.
Quiet ==
  /\ UNCHANGED <<rHead, rTail, rSent, rPc, rTicket, result, log>>
  /\ \/ UNCHANGED mPc
     \/ mPc \in EndedPCs /\ mPc' \in EndedPCs
     \/ mPc \in {"fill", "generator", "start", "read_counter"}
          /\ mPc' \notin EndedPCs \union {"run"}

\* A worker begins to send r.
Adds(w, r) ==
  /\ wPc[w] \in SendingPCs /\ rPc[w] = "idle"
  /\ r \in Results
  /\ rHead' = rHead + 1 /\ rSent' = Append(rSent, r)
  /\ rPc'[Main] = rPc[Main] /\ rTicket'[Main] = rTicket[Main]
  /\ UNCHANGED <<rTail, result, log, mPc>>
  /\ mPc \notin EndedPCs \union {"test_empty"}

\* A worker goes on sending.
GoesOn ==
  /\ rPc'[Main] = rPc[Main] /\ rTicket'[Main] = rTicket[Main]
  /\ UNCHANGED <<rHead, rTail, rSent, result, log, mPc>>

LEMMA SendsAdds ==
  ASSUME Base, NEW w \in Workers, NEW from, NEW r, NEW to,
         SendPlan(w, from, r, to), Sends(w, from, r, to)
  PROVE  /\ rPc[w] = "idle" /\ rPc'[w] \in SendPCs /\ wPc' = wPc => Adds(w, r)
         /\ Adds(w, r) \/ GoesOn
         /\ rPc[w] # "idle" => GoesOn
<1>1. Main \in Threads \ {w} /\ w \in Threads
  BY MainAssumption DEF Threads
<1>2. r \in Results /\ wPc[w] = from /\ from \in SendingPCs
  BY SentIsResult DEF Sends, SendPlan, SendingPCs
<1>3. w \in Running /\ Cardinality(Running) > 0
  <2>1. w \in Running
    BY <1>2 DEF Running, OutPCs, SendingPCs
  <2>2. IsFiniteSet(Running)
    BY WorkersAssumption, FS_Subset DEF Running
  <2> QED
    <3>1. Cardinality(Running) \in Nat
      BY <2>2, FS_CardinalityType
    <3>2. Cardinality(Running) # 0
      BY <2>1, <2>2, FS_EmptySet
    <3> QED
      BY <2>1, <3>1, <3>2
<1>4. mPc \notin EndedPCs \union {"test_empty"}
  <2>1. Cardinality(Running) \in Nat /\ cnt \in Nat
    <3>1. IsFiniteSet(Running)
      BY WorkersAssumption, FS_Subset DEF Running
    <3> QED
      BY <3>1, FS_CardinalityType, NumFilesAssumption DEF Base, Types
  <2>2. threadCounter = cnt + Cardinality(Running)
    BY DEF Base, ThreadsCounted
  <2>3. threadCounter # 0
    BY <1>3, <2>1, <2>2
  <2> QED
    BY <2>3 DEF Base, ThreadsCounted, EndedPCs
<1>5. "idle" \notin SendPCs
  BY DEF SendPCs
<1> QED
  BY <1>1, <1>2, <1>4, <1>5 DEF Sends, ROthers, Adds, GoesOn, mainVars

LEMMA LogOutline ==
  ASSUME Base, [Next]_vars
  PROVE  Quiet \/ TestsEmpty \/ Pops \/ RunOperation \/ GoesOn
         \/ \E w \in Workers : \E r : Adds(w, r)
<1>1. MainOutline \/ (\E w \in Workers : WorkerOutline(w)) \/ UNCHANGED vars
  BY StepOutline
<1>2. MainOutline => Quiet \/ TestsEmpty \/ Pops \/ RunOperation
  BY DEF MainOutline, Quiet, EndedPCs, Lists, SelectGenerator, StartThread, ReadCounter,
     Join, DestroyBackend, Report, rVars
<1>3. ASSUME NEW w \in Workers, WorkerOutline(w)
      PROVE  Quiet \/ GoesOn \/ \E r : Adds(w, r)
  <2>1. ASSUME NEW from, NEW r, NEW to, SendPlan(w, from, r, to), Sends(w, from, r, to)
        PROVE  GoesOn \/ Adds(w, r)
    BY <2>1, SendsAdds
  <2>2. Tests(w) \/ Takes(w) \/ LoadFile(w) \/ Parse(w) \/ Parsed(w) \/ Finish(w) => Quiet
    BY DEF Tests, Takes, LoadFile, Parse, Parsed, Finish, Quiet, rVars, mainVars
  <2> QED
    BY <1>3, <2>1, <2>2 DEF WorkerOutline
<1>4. UNCHANGED vars => Quiet
  BY DEF vars, Quiet, rVars, mainVars
<1> QED
  BY <1>1, <1>2, <1>3, <1>4

-----------------------------------------------------------------------------
(* All that was sent is run, in order.                                     *)

LEMMA PopsInOrderStep ==
  ASSUME Base, PopsInOrder, [Next]_vars
  PROVE  PopsInOrder'
<1> USE DEF PopsInOrder
<1>0. rHead \in Nat /\ rTail \in Nat
  BY SentTypes
<1>1. CASE Quiet
  <2>1. UNCHANGED <<rHead, rTail, rPc, rTicket, result>>
    BY <1>1 DEF Quiet
  <2>2. mPc' # "run" => mPc # "run" \/ mPc' = mPc
    BY <1>1 DEF Quiet, EndedPCs
  <2>3. mPc' \in EndedPCs => mPc \in EndedPCs
    BY <1>1 DEF Quiet
  <2>4. mPc' # "run" => result = NoResult
    BY <2>2
  <2> QED
    BY <2>1, <2>3, <2>4
<1>2. CASE TestsEmpty
  <2>1. threadCounter = 0 /\ mPc \notin EndedPCs /\ mPc # "run"
    BY <1>2 DEF TestsEmpty, Base, ThreadsCounted, EndedPCs
  <2> QED
    BY <1>0, <1>2, <2>1 DEF TestsEmpty, EmptyPCs, ReadPCs, EndedPCs
<1>3. CASE Pops
  BY <1>0, <1>3 DEF Pops, TryPopPCs, ReadPCs, EndedPCs
<1>4. CASE RunOperation
  BY <1>0, <1>4 DEF RunOperation, rVars, EndedPCs
<1>5. CASE GoesOn
  BY <1>5 DEF GoesOn
<1>6. ASSUME NEW w \in Workers, NEW r, Adds(w, r)
      PROVE  PopsInOrder'
  <2>1. rPc[Main] # "empty_tail"
    BY <1>6 DEF Adds, Base, InOperation, EmptyPCs, TryPopPCs, ReadPCs
  <2> QED
    BY <1>0, <1>6, <2>1 DEF Adds
<1> QED
  BY <1>1, <1>2, <1>3, <1>4, <1>5, <1>6, LogOutline

\* A Result is started with its first operation and run from one to the next.
LEMMA RunsRestStep ==
  ASSUME Base, PopsInOrder, RunsRest, [Next]_vars
  PROVE  RunsRest'
<1> USE DEF PopsInOrder, RunsRest
<1>0. /\ rHead \in Nat /\ rTail \in Nat /\ Len(rSent) = rHead /\ rSent \in Seq(Results)
      /\ \A k \in 1 .. rHead : rSent[k] \in Seq(Operations) /\ Len(rSent[k]) \in Nat
      /\ result \in Seq(Operations) /\ Len(result) \in Nat
  BY SentTypes, LenProperties
<1>1. CASE Quiet \/ GoesOn
  BY <1>1 DEF Quiet, GoesOn
<1>2. CASE TestsEmpty
  BY <1>2 DEF TestsEmpty
<1>3. CASE Pops
  <2>1. CASE result' = result
    BY <1>3, <2>1 DEF Pops
  <2>2. CASE rPc[Main] = "release" /\ result' = rSent[rTicket[Main] + 1] /\ rTail' = rTail
    <3>1. result' = rSent[rTail] /\ rTail \in 1 .. rHead
      BY <1>0, <2>2 DEF ReadPCs
    <3>2. RestOf(rSent[rTail], rSent[rTail])
      BY <1>0, <3>1 DEF RestOf
    <3> QED
      BY <1>3, <2>2, <3>1, <3>2 DEF Pops
  <2> QED
    BY <1>3, <2>1, <2>2 DEF Pops
<1>4. CASE RunOperation
  <2>1. CASE result = NoResult
    BY <1>4, <2>1 DEF RunOperation
  <2>2. CASE result # NoResult
    <3>1. /\ Tail(result) \in Seq(Operations) /\ Len(Tail(result)) = Len(result) - 1
          /\ \A i \in 1 .. Len(Tail(result)) : Tail(result)[i] = result[i + 1]
      BY <1>0, <2>2, HeadTailProperties DEF NoResult
    <3>2. rTail \in 1 .. rHead /\ RestOf(rSent[rTail], result)
      BY <1>0, <2>2
    <3>3. RestOf(rSent[rTail], Tail(result))
      BY <1>0, <3>1, <3>2 DEF RestOf
    <3> QED
      BY <1>4, <2>2, <3>2, <3>3 DEF RunOperation, rVars
  <2> QED
    BY <2>1, <2>2
<1>5. ASSUME NEW w \in Workers, NEW r, Adds(w, r)
      PROVE  RunsRest'
  <2>1. rTail > 0 => rSent'[rTail] = rSent[rTail]
    BY <1>0, <1>5, AppendAt DEF Adds
  <2> QED
    BY <1>5, <2>1 DEF Adds
<1> QED
  BY <1>1, <1>2, <1>3, <1>4, <1>5, LogOutline

LEMMA RunInOrderStep ==
  ASSUME Base, PopsInOrder, RunInOrder, [Next]_vars
  PROVE  RunInOrder'
<1> USE DEF PopsInOrder, RunInOrder
<1>0. /\ rHead \in Nat /\ rTail \in Nat /\ Len(rSent) = rHead
      /\ rSent \in Seq(Results) /\ rSent \in Seq(Seq(Operations))
      /\ \A k \in 1 .. rHead : rSent[k] \in Seq(Operations)
      /\ result \in Seq(Operations) /\ log \in Seq(Operations)
  BY SentTypes
<1>1. CASE Quiet \/ GoesOn
  BY <1>1 DEF Quiet, GoesOn, Popped
<1>2. CASE TestsEmpty
  <2>1. Popped' = Popped
    BY <1>2 DEF TestsEmpty, Popped, EmptyPCs, ReadPCs
  <2> QED
    BY <1>2, <2>1 DEF TestsEmpty
<1>3. CASE Pops
  <2>1. CASE result' = result /\ Popped' = Popped
    BY <1>3, <2>1 DEF Pops, RunInOrder
  <2>2. CASE rPc[Main] = "release" /\ result' = rSent[rTicket[Main] + 1] /\ rTail' = rTail
             /\ rPc'[Main] = "idle"
    <3> DEFINE n == rTail - 1
    <3>1. n \in 0 .. Len(rSent) - 1 /\ result' = rSent[n + 1] /\ result = << >>
      BY <1>0, <1>3, <2>2 DEF ReadPCs, Pops, NoResult
    <3>2. Popped = n /\ Popped' = n + 1
      BY <1>0, <2>2 DEF Popped, ReadPCs
    <3> HIDE DEF n
    <3>3. /\ SubSeq(rSent, 1, n) \in Seq(Seq(Operations))
          /\ SubSeq(rSent, 1, n + 1) = Append(SubSeq(rSent, 1, n), rSent[n + 1])
      BY <1>0, <3>1, PrefixNext
    <3>4. rSent[n + 1] \in Seq(Operations)
      BY <1>0, <3>1
    <3>5. FlattenSeq(Append(SubSeq(rSent, 1, n), rSent[n + 1]))
            = FlattenSeq(SubSeq(rSent, 1, n)) \o rSent[n + 1]
      BY <3>3, <3>4, FlattenAppend
    <3>6. log \o result = log
      BY <1>0, <3>1, ConcatEmptySeq
    <3>7. log = FlattenSeq(SubSeq(rSent, 1, n))
      BY <3>2, <3>6
    <3>8. log' = log /\ rSent' = rSent
      BY <1>3 DEF Pops
    <3> QED
      BY <3>1, <3>2, <3>3, <3>5, <3>7, <3>8
  <2>3. CASE rPc[Main] \in {"idle"} \union TryPopPCs /\ rPc'[Main] \in TryPopPCs
             /\ UNCHANGED <<rTail, mPc, result>>
    BY <2>1, <2>3 DEF Popped, TryPopPCs, ReadPCs
  <2>4. CASE rPc[Main] = "try_pop_cas" /\ rPc'[Main] = "move"
             /\ rTail' = rTail + 1 /\ UNCHANGED <<mPc, result>>
    BY <1>0, <2>1, <2>4 DEF Popped, ReadPCs
  <2>5. CASE rPc[Main] \in ReadPCs /\ rPc'[Main] \in ReadPCs
             /\ UNCHANGED <<rTail, mPc, result>>
    BY <2>1, <2>5 DEF Popped
  <2>6. CASE rPc[Main] = "try_pop_reload" /\ rPc'[Main] = "idle"
             /\ UNCHANGED <<rTail, result>>
    BY <2>1, <2>6 DEF Popped, ReadPCs
  <2> QED
    BY <1>3, <2>2, <2>3, <2>4, <2>5, <2>6 DEF Pops
<1>4. CASE RunOperation
  <2>0. Popped' = Popped /\ rSent' = rSent
    BY <1>4 DEF RunOperation, rVars, Popped
  <2>1. CASE result = NoResult
    BY <1>4, <2>0, <2>1 DEF RunOperation
  <2>2. CASE result # NoResult
    <3>1. Append(log, Head(result)) \o Tail(result) = log \o result
      BY <1>0, <2>2, HeadMoved DEF NoResult
    <3> QED
      BY <1>4, <2>0, <2>2, <3>1 DEF RunOperation
  <2> QED
    BY <2>1, <2>2
<1>5. ASSUME NEW w \in Workers, NEW r, Adds(w, r)
      PROVE  RunInOrder'
  <2>1. Popped' = Popped
    BY <1>5 DEF Adds, Popped
  <2>2. Popped \in 0 .. Len(rSent)
    BY <1>0 DEF Popped
  <2>3. r \in Results /\ rSent' = Append(rSent, r)
    BY <1>5 DEF Adds
  <2>4. SubSeq(Append(rSent, r), 1, Popped) = SubSeq(rSent, 1, Popped)
    BY <1>0, <2>2, <2>3, PrefixKept
  <2> QED
    BY <1>5, <2>1, <2>3, <2>4 DEF Adds
<1> QED
  BY <1>1, <1>2, <1>3, <1>4, <1>5, LogOutline


\* What is executed of each Result, step by step.
LEMMA ExecutedStep ==
  ASSUME Base, PopsInOrder, RunsRest, [Next]_vars, NEW k \in 1 .. rTail'
  PROVE  /\ rSent'[k] = rSent[k]
         /\ \/ /\ k <= rTail /\ Executed(k)' = Executed(k)
               /\ RunOperation /\ result # NoResult => k # rTail
            \/ k = rTail + 1 /\ Executed(k)' = 0
            \/ /\ RunOperation /\ result # NoResult /\ k = rTail
               /\ Executed(k) \in Nat /\ Executed(k)' = Executed(k) + 1
               /\ Executed(k)' \in 1 .. Len(rSent[k])
               /\ Head(result) = rSent[k][Executed(k)']
<1> USE DEF PopsInOrder
<1>0. /\ rHead \in Nat /\ rTail \in Nat /\ Len(rSent) = rHead /\ rSent \in Seq(Results)
      /\ \A i \in 1 .. rHead : rSent[i] \in Seq(Operations) /\ Len(rSent[i]) \in Nat
      /\ result \in Seq(Operations) /\ Len(result) \in Nat
  BY SentTypes, LenProperties
<1>1. CASE ~(RunOperation /\ result # NoResult) /\ (Quiet \/ GoesOn)
  BY <1>1 DEF Quiet, GoesOn, Executed
<1>2. CASE ~(RunOperation /\ result # NoResult) /\ TestsEmpty
  <2>1. rPc[Main] \notin ReadPCs /\ rPc'[Main] \notin ReadPCs
    BY <1>2 DEF TestsEmpty, EmptyPCs, ReadPCs
  <2> QED
    BY <1>2, <2>1 DEF TestsEmpty, Executed
<1>3. CASE ~(RunOperation /\ result # NoResult) /\ Pops
  <2>1. rSent' = rSent
    BY <1>3 DEF Pops
  <2>2. CASE rPc[Main] \in {"idle"} \union TryPopPCs /\ rPc'[Main] \in TryPopPCs
             /\ UNCHANGED <<rTail, mPc, result>>
    BY <1>3, <2>1, <2>2 DEF Executed, TryPopPCs, ReadPCs
  <2>3. CASE rPc[Main] = "try_pop_cas" /\ rPc'[Main] = "move"
             /\ rTail' = rTail + 1 /\ UNCHANGED <<mPc, result>>
    <3>1. Len(result) = 0
      BY <1>3 DEF Pops, NoResult
    <3>2. rTail' <= rHead
      BY <1>0, <1>3, <2>3 DEF Pops
    <3>3. Len(rSent[k]) \in Nat
      BY <1>0, <1>3, <3>2, <2>3
    <3>4. CASE k = rTail'
      BY <1>0, <1>3, <2>1, <2>3, <3>4 DEF Executed, ReadPCs
    <3>5. CASE k = rTail
      BY <1>0, <1>3, <2>1, <2>3, <3>1, <3>3, <3>5 DEF Executed, ReadPCs
    <3>6. CASE k < rTail
      BY <1>0, <1>3, <2>1, <2>3, <3>6 DEF Executed, ReadPCs
    <3> QED
      BY <1>0, <1>3, <2>3, <3>4, <3>5, <3>6
  <2>4. CASE rPc[Main] \in ReadPCs /\ rPc'[Main] \in ReadPCs
             /\ UNCHANGED <<rTail, mPc, result>>
    BY <1>3, <2>1, <2>4 DEF Executed
  <2>5. CASE rPc[Main] = "release" /\ rPc'[Main] = "idle"
             /\ result' = rSent[rTicket[Main] + 1] /\ UNCHANGED rTail
    <3>1. result' = rSent[rTail]
      BY <1>0, <1>3, <2>5 DEF ReadPCs
    <3>2. Len(rSent[k]) \in Nat
      BY <1>0, <1>3, <2>5
    <3>3. CASE k = rTail
      <4>1. Executed(k)' = Len(rSent[k]) - Len(rSent[k]) /\ Executed(k) = 0
        BY <1>3, <2>1, <2>5, <3>1, <3>3 DEF Executed, ReadPCs
      <4> QED
        BY <1>3, <2>1, <3>2, <3>3, <4>1
    <3>4. CASE k # rTail
      BY <1>0, <1>3, <2>1, <2>5, <3>4 DEF Executed
    <3> QED
      BY <1>3, <3>3, <3>4
  <2>6. CASE rPc[Main] = "try_pop_reload" /\ rPc'[Main] = "idle"
             /\ UNCHANGED <<rTail, result>>
    BY <1>3, <2>1, <2>6 DEF Executed, ReadPCs
  <2> QED
    BY <1>3, <2>2, <2>3, <2>4, <2>5, <2>6 DEF Pops
<1>4. CASE RunOperation /\ result # NoResult
  <2>1. UNCHANGED <<rTail, rSent, rPc>> /\ rPc[Main] \notin ReadPCs
    BY <1>4 DEF RunOperation, rVars, Base, InOperation, ReadPCs
  <2>2. /\ result' = Tail(result) /\ Len(Tail(result)) = Len(result) - 1
        /\ Len(result) > 0 /\ Head(result) = result[1]
    BY <1>0, <1>4, HeadTailProperties DEF RunOperation, NoResult
  <2>3. CASE k # rTail
    BY <1>0, <2>1, <2>3 DEF Executed
  <2>4. CASE k = rTail
    <3>1. RestOf(rSent[k], result) /\ Len(rSent[k]) \in Nat
      BY <1>0, <1>4, <2>4 DEF RunsRest
    <3>2. /\ Executed(k) = Len(rSent[k]) - Len(result)
          /\ Executed(k)' = Len(rSent[k]) - (Len(result) - 1)
      <4>1. Executed(k) = Len(rSent[k]) - Len(result)
        BY <1>0, <2>1, <2>4 DEF Executed
      <4>2. Executed(k)' = Len(rSent[k]) - Len(Tail(result))
        <5>1. Executed(k)' = Len(rSent'[k]) - Len(result')
          BY <1>0, <2>1, <2>4 DEF Executed
        <5> QED
          BY <2>1, <2>2, <5>1
      <4> QED
        BY <2>2, <4>1, <4>2
    <3>3. /\ Executed(k) \in Nat /\ Executed(k)' = Executed(k) + 1
          /\ Executed(k)' \in 1 .. Len(rSent[k])
      BY <1>0, <2>2, <3>1, <3>2 DEF RestOf
    <3>4. result[1] = rSent[k][Len(rSent[k]) - Len(result) + 1]
      BY <1>0, <2>2, <3>1 DEF RestOf
    <3>5. Executed(k)' = Len(rSent[k]) - Len(result) + 1
      BY <1>0, <3>1, <3>2
    <3> QED
      BY <1>4, <2>1, <2>2, <2>4, <3>3, <3>4, <3>5
  <2> QED
    BY <2>3, <2>4
<1>5. ASSUME NEW w \in Workers, NEW r, Adds(w, r)
      PROVE  k <= rTail /\ rSent'[k] = rSent[k] /\ Executed(k)' = Executed(k)
  <2>1. k \in 1 .. rTail /\ rSent'[k] = rSent[k]
    BY <1>0, <1>5, AppendAt DEF Adds
  <2> QED
    BY <1>5, <2>1 DEF Adds, Executed
<1>6. CASE RunOperation /\ result = NoResult
  BY <1>6 DEF RunOperation, rVars, Executed
<1> QED
  BY <1>1, <1>2, <1>3, <1>4, <1>5, <1>6, LogOutline

\* The log only grows, by the operation that is run.
LEMMA LogGrows ==
  ASSUME Base, [Next]_vars
  PROVE  \/ log' = log /\ ~(RunOperation /\ result # NoResult)
         \/ /\ RunOperation /\ result # NoResult
            /\ log' = Append(log, Head(result)) /\ Head(result) \in Operations
<1>0. result \in Seq(Operations) /\ log \in Seq(Operations)
  BY SentTypes
<1>1. CASE RunOperation /\ result # NoResult
  BY <1>0, <1>1, HeadTailProperties DEF RunOperation, NoResult
<1>2. CASE ~(RunOperation /\ result # NoResult)
  <2>1. RunOperation => log' = log
    BY <1>2 DEF RunOperation
  <2>2. \A w, r : Adds(w, r) => log' = log
    BY DEF Adds
  <2>3. Quiet \/ TestsEmpty \/ Pops \/ GoesOn => log' = log
    BY DEF Quiet, TestsEmpty, Pops, GoesOn
  <2> QED
    BY <1>2, <2>1, <2>2, <2>3, LogOutline
<1> QED
  BY <1>1, <1>2

\* What has been logged stays logged.
LEMMA LoggedStays ==
  ASSUME Base, [Next]_vars, NEW op, Logged(op)
  PROVE  \E i \in 1 .. Len(log') : log'[i] = op
<1>1. log \in Seq(Operations)
  BY SentTypes
<1>2. PICK i \in 1 .. Len(log) : log[i] = op
  BY DEF Logged
<1>3. log' = log \/ \E x \in Operations : log' = Append(log, x)
  BY LogGrows
<1> QED
  BY <1>1, <1>2, <1>3, AppendAt DEF Logged

LEMMA LogCompleteStep ==
  ASSUME Base, PopsInOrder, RunsRest, LogComplete, [Next]_vars
  PROVE  LogComplete'
<1> SUFFICES ASSUME NEW k \in 1 .. rTail', NEW j \in 1 .. Executed(k)'
             PROVE  \E i \in 1 .. Len(log') : log'[i] = rSent'[k][j]
  BY DEF LogComplete, Logged
<1>0. rTail \in Nat /\ log \in Seq(Operations) /\ k \in Nat \ {0}
  BY SentTypes
<1>1. rSent'[k] = rSent[k]
  BY ExecutedStep
<1>2. CASE k <= rTail /\ Executed(k)' = Executed(k)
  <2>1. Logged(rSent[k][j])
    BY <1>0, <1>2 DEF LogComplete
  <2> QED
    BY <1>1, <2>1, LoggedStays
<1>3. CASE k = rTail + 1 /\ Executed(k)' = 0
  BY <1>3
<1>4. CASE /\ RunOperation /\ result # NoResult /\ k = rTail
           /\ Executed(k) \in Nat /\ Executed(k)' = Executed(k) + 1
           /\ Head(result) = rSent[k][Executed(k)']
  <2>1. CASE j = Executed(k)'
    <3>1. log' = Append(log, rSent[k][j]) /\ rSent[k][j] \in Operations
      BY <1>4, <2>1, LogGrows
    <3>2. log'[Len(log) + 1] = rSent[k][j] /\ Len(log') = Len(log) + 1 /\ Len(log) \in Nat
      BY <1>0, <3>1, AppendAt
    <3> QED
      BY <1>1, <3>2
  <2>2. CASE j # Executed(k)'
    <3>1. j \in 1 .. Executed(k) /\ k \in 1 .. rTail
      BY <1>0, <1>4, <2>2
    <3>2. Logged(rSent[k][j])
      BY <3>1 DEF LogComplete
    <3> QED
      BY <1>1, <3>2, LoggedStays
  <2> QED
    BY <2>1, <2>2
<1> QED
  BY <1>2, <1>3, <1>4, ExecutedStep

-----------------------------------------------------------------------------

LEMMA LogInit ==
  ASSUME Init
  PROVE  LogInv
<1>1. /\ rHead = 0 /\ rTail = 0 /\ rSent = << >> /\ rPc = [t \in Threads |-> "idle"]
      /\ mPc = "fill" /\ result = << >> /\ log = << >> /\ Main \in Threads
  BY DEF Init, sharedQueue!Init, NoResult, Threads
<1>2. PopsInOrder
  BY <1>1 DEF PopsInOrder, ReadPCs, EndedPCs, NoResult
<1>3. RunsRest
  BY <1>1 DEF RunsRest, NoResult
<1>4. RunInOrder
  <2>1. Popped = 0
    BY <1>1 DEF Popped, ReadPCs
  <2>2. SubSeq(rSent, 1, 0) = << >>
    BY <1>1, SubSeqEmpty
  <2>3. << >> \o << >> = << >>
    OBVIOUS
  <2> QED
    BY <1>1, <2>1, <2>2, <2>3, FlattenEmpty DEF RunInOrder
<1>5. LogComplete
  BY <1>1 DEF LogComplete
<1> QED
  BY <1>2, <1>3, <1>4, <1>5 DEF LogInv

LEMMA LogStep ==
  ASSUME Base, LogInv, [Next]_vars
  PROVE  LogInv'
BY PopsInOrderStep, RunsRestStep, RunInOrderStep, LogCompleteStep DEF LogInv

LEMMA LogHolds == Spec => [](Base /\ LogInv)
<1>1. Init => LogInv
  BY LogInit
<1>2. Base /\ LogInv /\ [Next]_vars => LogInv'
  BY LogStep
<1> QED
  BY <1>1, <1>2, BaseHolds, PTL DEF Spec

\* When the main loop has ended, all that the workers sent has been run, in
\* order, and none of them is still to send (lines 157-167).
THEOREM AllCollected == Spec => []CollectedAll
<1>1. Base /\ LogInv => CollectedAll
  <2> SUFFICES ASSUME Base, LogInv, mPc \in EndedPCs
               PROVE  /\ log = FlattenSeq(rSent)
                      /\ \A w \in Workers : wPc[w] \in {"none", "leaving", "exited"}
    BY DEF CollectedAll, EndedPCs
  <2>0. /\ rSent \in Seq(Results) /\ Len(rSent) = rHead /\ rTail \in Nat
        /\ log \in Seq(Operations)
    BY SentTypes
  <2>1. result = << >> /\ rTail = rHead /\ rPc[Main] = "idle"
    BY DEF LogInv, PopsInOrder, EndedPCs, NoResult, Base, InOperation
  <2>2. Popped = Len(rSent)
    BY <2>0, <2>1 DEF Popped, ReadPCs
  <2>3. SubSeq(rSent, 1, Len(rSent)) = rSent
    BY <2>0, SubSeqFull
  <2>4. log \o << >> = log
    BY <2>0, ConcatEmptySeq
  <2>5. log = FlattenSeq(rSent)
    BY <2>1, <2>2, <2>3, <2>4 DEF LogInv, RunInOrder
  <2>6. \A w \in Workers : wPc[w] \in OutPCs
    BY NoneRunning DEF Running
  <2> QED
    BY <2>5, <2>6 DEF OutPCs
<1> QED
  BY <1>1, LogHolds, PTL


-----------------------------------------------------------------------------
(* What the operations of a Result are.                                    *)

LEMMA CallsEnds ==
  ASSUME NEW f, NEW e, NEW r, Calls(r, f, e)
  PROVE  /\ Len(r) \in Nat \ {0, 1}
         /\ r[1] = <<f, "begin">>
         /\ r[Len(r)] = <<f, e>>
         /\ Last(r) = <<f, e>>
         /\ \A i \in 2 .. Len(r) - 1 : r[i] = <<f, "decl">>
<1>1. Len(r) \in Nat \ {0, 1}
  BY BoundsAssumption DEF Calls
<1>2. \A i \in 1 .. Len(r) :
        r[i] = IF i = 1 THEN <<f, "begin">>
               ELSE IF i = Len(r) THEN <<f, e>> ELSE <<f, "decl">>
  BY DEF Calls
<1>3. 1 \in 1 .. Len(r) /\ Len(r) \in 1 .. Len(r) /\ Len(r) # 1
  BY <1>1
<1>4. r[1] = <<f, "begin">> /\ r[Len(r)] = <<f, e>>
  BY <1>2, <1>3
<1>5. ASSUME NEW i \in 2 .. Len(r) - 1
      PROVE  r[i] = <<f, "decl">>
  <2>1. i \in 1 .. Len(r) /\ i # 1 /\ i # Len(r)
    BY <1>1
  <2> QED
    BY <1>2, <2>1
<1> QED
  BY <1>1, <1>4, <1>5 DEF Last

\* A line to print is sent alone; the end of a file is the last of its calls.
LEMMA OperationForm ==
  ASSUME NEW r \in Results, NEW i \in 1 .. Len(r)
  PROVE  /\ \A m \in {"log_error", "log_profile"} :
              r[i][2] = m => \E f \in Files : r = << <<f, m>> >> /\ r[i] = <<f, m>>
         /\ r[i][2] = "end" <=> i = Len(r) /\ EndsWell(r)
<1>0. Len(r) \in Nat \ {0}
  BY ResultForm
<1>1. PICK f \in Files : r \in BackendCalls(f) \/ r \in Messages(f)
  BY ResultForm
<1>2. CASE r \in BackendCalls(f)
  <2>1. PICK e \in {"end", "end_error"} : Calls(r, f, e)
    BY <1>2, BackendCallsForm
  <2>2. /\ Len(r) \in Nat \ {0, 1} /\ r[1] = <<f, "begin">> /\ r[Len(r)] = <<f, e>>
        /\ \A j \in 2 .. Len(r) - 1 : r[j] = <<f, "decl">>
    BY <2>1, CallsEnds
  <2>3. CASE i = 1
    BY <2>2, <2>3 DEF EndsWell
  <2>4. CASE i = Len(r)
    BY <2>2, <2>4 DEF EndsWell
  <2>5. CASE i \in 2 .. Len(r) - 1
    BY <2>2, <2>5 DEF EndsWell
  <2> QED
    BY <2>2, <2>3, <2>4, <2>5
<1>3. CASE r \in Messages(f)
  <2>1. PICK m \in {"log_unreadable", "log_error", "log_profile"} : r = << <<f, m>> >>
    BY <1>3 DEF Messages
  <2>2. Len(r) = 1 /\ i = 1 /\ r[i] = <<f, m>>
    BY <2>1
  <2> QED
    BY <2>1, <2>2 DEF EndsWell
<1> QED
  BY <1>1, <1>2, <1>3

\* What was sent stays sent.
LEMMA SentGrows ==
  ASSUME Base, [Next]_vars
  PROVE  /\ \/ rSent' = rSent
            \/ \E r \in Results : rSent' = Append(rSent, r)
         /\ Len(rSent) \in Nat /\ Len(rSent') \in Nat /\ Len(rSent') >= Len(rSent)
         /\ \A k \in 1 .. Len(rSent) : rSent'[k] = rSent[k]
<1>0. rSent \in Seq(Results)
  BY SentTypes
<1>1. rSent' = rSent \/ \E r \in Results : rSent' = Append(rSent, r)
  <2>1. Quiet \/ TestsEmpty \/ Pops \/ RunOperation \/ GoesOn => rSent' = rSent
    BY DEF Quiet, TestsEmpty, Pops, RunOperation, GoesOn, rVars
  <2>2. \A w, r : Adds(w, r) => r \in Results /\ rSent' = Append(rSent, r)
    BY DEF Adds
  <2> QED
    BY <2>1, <2>2, LogOutline
<1> QED
  BY <1>0, <1>1, AppendAt

LEMMA HasSentStays ==
  ASSUME Base, [Next]_vars, NEW f, NEW e, NEW n \in 0 .. Len(rSent), HasSent(f, e, n)
  PROVE  /\ \E j \in 1 .. n : Calls(rSent'[j], f, e)
         /\ \E j \in 1 .. Len(rSent') : Calls(rSent'[j], f, e)
<1>1. PICK j \in 1 .. n : Calls(rSent[j], f, e)
  BY DEF HasSent
<1>2. j \in 1 .. Len(rSent) /\ j \in 1 .. Len(rSent') /\ rSent'[j] = rSent[j]
  BY SentGrows
<1> QED
  BY <1>1, <1>2

-----------------------------------------------------------------------------
(* The messages about a file follow its calls.                             *)

\* What a step of the worker w leaves to the other threads.
LEMMA OtherWorkers ==
  ASSUME Base, NEW w \in Workers, WorkerOutline(w), NEW u \in Workers \ {w}
  PROVE  /\ wPc'[u] = wPc[u] /\ m_queue'[u] = m_queue[u]
         /\ fPc'[u] = fPc[u] /\ fTicket'[u] = fTicket[u] /\ fVal'[u] = fVal[u]
         /\ rPc'[u] = rPc[u]
<1>0. /\ wPc \in [Workers -> WorkerPCs] /\ m_queue \in [Workers -> Seq(Operations)]
      /\ u \in Threads \ {w}
  BY DEF Base, Types, Threads
<1> USE DEF WGoto
<1>1. CASE Tests(w)
  BY <1>0, <1>1 DEF Tests, FOthers, rVars
<1>2. CASE Takes(w)
  BY <1>0, <1>2 DEF Takes, FOthers, rVars
<1>3. CASE LoadFile(w)
  BY <1>0, <1>3 DEF LoadFile, fVars, rVars
<1>4. CASE Parse(w)
  BY <1>0, <1>4 DEF Parse, fVars, rVars
<1>5. CASE Parsed(w)
  BY <1>0, <1>5 DEF Parsed, fVars, rVars
<1>6. CASE Finish(w)
  BY <1>0, <1>6 DEF Finish, fVars, rVars
<1>7. CASE \E from, r, to : SendPlan(w, from, r, to) /\ Sends(w, from, r, to)
  BY <1>0, <1>7 DEF Sends, ROthers, fVars
<1> QED
  BY <1>1, <1>2, <1>3, <1>4, <1>5, <1>6, <1>7 DEF WorkerOutline

\* What a step of the main thread leaves to the workers.
LEMMA MainLeaves ==
  ASSUME Base, MainOutline, NEW w \in Workers
  PROVE  /\ wPc'[w] = wPc[w] \/ (wPc[w] = "none" /\ wPc'[w] = "test")
         /\ m_queue'[w] = m_queue[w]
         /\ fPc'[w] = fPc[w] /\ fTicket'[w] = fTicket[w] /\ fVal'[w] = fVal[w]
         /\ rPc'[w] = rPc[w]
         /\ rSent' = rSent /\ rHead' = rHead /\ fTail' = fTail
<1>0. w \in Threads \ {Main} /\ wPc \in [Workers -> WorkerPCs]
  BY MainAssumption DEF Threads, Base, Types
<1> USE DEF workerVars
<1>1. CASE Lists
  BY <1>0, <1>1 DEF Lists, FOthers, rVars
<1>2. CASE TestsEmpty
  BY <1>0, <1>2 DEF TestsEmpty, ROthers, fVars
<1>3. CASE Pops
  BY <1>0, <1>3 DEF Pops, ROthers, fVars
<1>4. CASE StartThread
  BY <1>0, <1>4 DEF StartThread, fVars, rVars
<1>5. CASE SelectGenerator \/ ReadCounter \/ RunOperation \/ Join \/ DestroyBackend \/ Report
  BY <1>5 DEF SelectGenerator, ReadCounter, RunOperation, Join, DestroyBackend, Report,
     fVars, rVars
<1> QED
  BY <1>1, <1>2, <1>3, <1>4, <1>5 DEF MainOutline


\* A message of a file is behind its calls, among the Results as well.
SentMessages == MessagesSentLast /\ WorkersHaveSent

LEMMA MessagesKept ==
  ASSUME Base, SentMessages, [Next]_vars, rSent' = rSent
  PROVE  MessagesSentLast'
BY DEF SentMessages, MessagesSentLast, HasSent

\* The part of WorkersHaveSent about one worker.
HasSentBefore(w) ==
  /\ Pushed(w) => \E j \in 1 .. Len(rSent) : rSent[j] = m_queue[w]
  /\ wPc[w] = "error" => HasSent(fVal[w], "end_error", Len(rSent))
  /\ wPc[w] = "profile" =>
       HasSent(fVal[w], "end", Len(rSent)) \/ HasSent(fVal[w], "end_error", Len(rSent))

LEMMA HasSentBeforeKept ==
  ASSUME Base, [Next]_vars, NEW w \in Workers, HasSentBefore(w),
         m_queue'[w] = m_queue[w], fVal'[w] = fVal[w],
         Pushed(w)' => Pushed(w),
         wPc'[w] = "error" => HasSent(fVal[w], "end_error", Len(rSent)),
         wPc'[w] = "profile" =>
           HasSent(fVal[w], "end", Len(rSent)) \/ HasSent(fVal[w], "end_error", Len(rSent))
  PROVE  HasSentBefore(w)'
<1>1. Len(rSent) \in 0 .. Len(rSent)
  BY SentGrows
<1>2. Pushed(w)' => \E j \in 1 .. Len(rSent') : rSent'[j] = m_queue'[w]
  <2> SUFFICES ASSUME Pushed(w)' PROVE \E j \in 1 .. Len(rSent') : rSent'[j] = m_queue'[w]
    OBVIOUS
  <2>1. PICK j \in 1 .. Len(rSent) : rSent[j] = m_queue[w]
    BY DEF HasSentBefore
  <2>2. j \in 1 .. Len(rSent') /\ rSent'[j] = rSent[j]
    BY SentGrows
  <2> QED
    BY <2>1, <2>2
<1>3. ASSUME NEW e, HasSent(fVal[w], e, Len(rSent))
      PROVE  \E j \in 1 .. Len(rSent') : Calls(rSent'[j], fVal'[w], e)
  BY <1>1, <1>3, HasSentStays
<1> QED
  BY <1>2, <1>3 DEF HasSentBefore, HasSent

LEMMA SentMessagesMain ==
  ASSUME Base, SentMessages, [Next]_vars, MainOutline
  PROVE  SentMessages'
<1>1. MessagesSentLast'
  <2>1. rSent' = rSent
    BY WorkersAssumption, MainLeaves, NumFilesAssumption, FS_EmptySet
  <2> QED
    BY <2>1, MessagesKept
<1>2. ASSUME NEW w \in Workers
      PROVE  HasSentBefore(w)'
  <2>1. HasSentBefore(w)
    BY DEF SentMessages, WorkersHaveSent, HasSentBefore
  <2>2. /\ m_queue'[w] = m_queue[w] /\ fVal'[w] = fVal[w] /\ rPc'[w] = rPc[w]
        /\ wPc'[w] = wPc[w] \/ wPc'[w] = "test"
    BY MainLeaves
  <2>3. Pushed(w)' => Pushed(w)
    BY <2>2 DEF Pushed
  <2> QED
    BY <2>1, <2>2, <2>3, HasSentBeforeKept DEF HasSentBefore
<1> QED
  BY <1>1, <1>2 DEF SentMessages, WorkersHaveSent, HasSentBefore

\* The file that was parsed by w, and the last of its calls.
LEMMA ParsedCalls ==
  ASSUME Base, NEW w \in Workers, wPc[w] \in {"push", "parsed"}
  PROVE  /\ fVal[w] \in Files
         /\ \E e \in {"end", "end_error"} :
              Calls(m_queue[w], fVal[w], e) /\ Last(m_queue[w]) = <<fVal[w], e>>
<1>1. fVal[w] \in Files /\ m_queue[w] \in BackendCalls(fVal[w])
  BY FileQueueFacts, FileQueueParameters DEF Base, WorkersHoldFiles, HoldingPCs,
     SendingPCs, Files
<1>2. PICK e \in {"end", "end_error"} : Calls(m_queue[w], fVal[w], e)
  BY <1>1, BackendCallsForm
<1>3. Last(m_queue[w]) = <<fVal[w], e>>
  BY <1>2, CallsEnds
<1> QED
  BY <1>1, <1>2, <1>3

LEMMA SentMessagesSend ==
  ASSUME Base, SentMessages, [Next]_vars, NEW w \in Workers, NEW from, NEW r, NEW to,
         SendPlan(w, from, r, to), Sends(w, from, r, to)
  PROVE  MessagesSentLast' /\ HasSentBefore(w)'
<1>0. HasSentBefore(w) /\ rSent \in Seq(Results)
  BY SentTypes DEF SentMessages, WorkersHaveSent, HasSentBefore
<1>1. /\ m_queue'[w] = m_queue[w] /\ fVal'[w] = fVal[w] /\ wPc[w] = from
      /\ wPc \in [Workers -> WorkerPCs]
  BY DEF Sends, fVars, Base, Types
<1>2. CASE rPc[w] = "idle" /\ rPc'[w] \in SendPCs /\ rSent' = Append(rSent, r)
           /\ UNCHANGED wPc
  <2>0. /\ r \in Results /\ Len(rSent') = Len(rSent) + 1 /\ rSent'[Len(rSent) + 1] = r
        /\ Len(rSent) \in Nat /\ \A k \in 1 .. Len(rSent) : rSent'[k] = rSent[k]
    BY <1>0, <1>1, <1>2, SentIsResult, AppendAt
  <2>1. ASSUME NEW f \in Files, r = << <<f, "log_error">> >>
        PROVE  HasSent(f, "end_error", Len(rSent))
    <3>1. from # "push"
      BY <1>1, <2>1, ParsedCalls, CallsEnds DEF SendPlan
    <3>2. from = "error" /\ f = fVal[w]
      BY <2>1, <3>1 DEF SendPlan
    <3> QED
      BY <1>0, <1>1, <3>2 DEF HasSentBefore
  <2>2. ASSUME NEW f \in Files, r = << <<f, "log_profile">> >>
        PROVE  HasSent(f, "end", Len(rSent)) \/ HasSent(f, "end_error", Len(rSent))
    <3>1. from # "push"
      BY <1>1, <2>2, ParsedCalls, CallsEnds DEF SendPlan
    <3>2. from = "profile" /\ f = fVal[w]
      BY <2>2, <3>1 DEF SendPlan
    <3> QED
      BY <1>0, <1>1, <3>2 DEF HasSentBefore
  <2>3. ASSUME NEW k \in 1 .. Len(rSent'), NEW f \in Files
        PROVE  /\ rSent'[k] = << <<f, "log_error">> >> =>
                    \E j \in 1 .. k - 1 : Calls(rSent'[j], f, "end_error")
               /\ rSent'[k] = << <<f, "log_profile">> >> =>
                    \/ \E j \in 1 .. k - 1 : Calls(rSent'[j], f, "end")
                    \/ \E j \in 1 .. k - 1 : Calls(rSent'[j], f, "end_error")
    <3>1. k - 1 \in 0 .. Len(rSent)
      BY <2>0
    <3>2. /\ rSent'[k] = << <<f, "log_error">> >> => HasSent(f, "end_error", k - 1)
          /\ rSent'[k] = << <<f, "log_profile">> >> =>
               HasSent(f, "end", k - 1) \/ HasSent(f, "end_error", k - 1)
      <4>1. CASE k = Len(rSent) + 1
        <5>1. k - 1 = Len(rSent) /\ rSent'[k] = r
          BY <2>0, <4>1
        <5> QED
          BY <2>1, <2>2, <5>1
      <4>2. CASE k \in 1 .. Len(rSent)
        BY <2>0, <4>2 DEF SentMessages, MessagesSentLast
      <4> QED
        BY <2>0, <4>1, <4>2
    <3>3. ASSUME NEW e, HasSent(f, e, k - 1)
          PROVE  \E j \in 1 .. k - 1 : Calls(rSent'[j], f, e)
      BY <3>1, <3>3, HasSentStays
    <3> QED
      BY <3>2, <3>3
  <2>4. MessagesSentLast'
    BY <2>3 DEF MessagesSentLast, HasSent
  <2>5. HasSentBefore(w)'
    <3>1. CASE from = "push"
      <4>1. rSent'[Len(rSent) + 1] = m_queue'[w]
        BY <1>1, <2>0, <3>1 DEF SendPlan
      <4>2. wPc'[w] = "push"
        BY <1>1, <1>2, <3>1
      <4> QED
        BY <2>0, <4>1, <4>2 DEF HasSentBefore
    <3>2. CASE from # "push"
      <4>1. Pushed(w)' => Pushed(w)
        BY <1>1, <1>2, <3>2 DEF Pushed
      <4> QED
        BY <1>0, <1>1, <1>2, <4>1, HasSentBeforeKept DEF HasSentBefore
    <3> QED
      BY <3>1, <3>2
  <2> QED
    BY <2>4, <2>5
<1>3. CASE rPc[w] \in SendPCs /\ rSent' = rSent
           /\ \/ rPc'[w] \in SendPCs /\ UNCHANGED wPc
              \/ rPc'[w] = "idle" /\ WGoto(w, to)
  <2>1. wPc'[w] = from \/ wPc'[w] = to
    BY <1>1, <1>3 DEF WGoto
  <2>2. Pushed(w)' => Pushed(w)
    BY <1>1, <1>3, <2>1 DEF Pushed, SendPlan, SendPCs
  <2>3. /\ wPc'[w] = "error" => wPc[w] = "error"
        /\ wPc'[w] = "profile" => wPc[w] \in {"error", "profile"}
    BY <1>1, <2>1 DEF SendPlan
  <2> QED
    BY <1>0, <1>1, <1>3, <2>2, <2>3, MessagesKept, HasSentBeforeKept DEF HasSentBefore
<1> QED
  BY <1>2, <1>3 DEF Sends

LEMMA SentMessagesStep ==
  ASSUME Base, SentMessages, [Next]_vars
  PROVE  SentMessages'
<1>1. CASE MainOutline
  BY <1>1, SentMessagesMain
<1>2. ASSUME NEW w \in Workers, WorkerOutline(w)
      PROVE  SentMessages'
  <2>0. /\ HasSentBefore(w) /\ wPc \in [Workers -> WorkerPCs]
        /\ m_queue \in [Workers -> Seq(Operations)]
    BY DEF SentMessages, WorkersHaveSent, HasSentBefore, Base, Types
  <2>1. ASSUME NEW u \in Workers \ {w} PROVE HasSentBefore(u)'
    <3>1. /\ m_queue'[u] = m_queue[u] /\ fVal'[u] = fVal[u] /\ rPc'[u] = rPc[u]
          /\ wPc'[u] = wPc[u]
      BY <1>2, OtherWorkers
    <3>2. HasSentBefore(u) /\ (Pushed(u)' => Pushed(u))
      BY <3>1 DEF SentMessages, WorkersHaveSent, HasSentBefore, Pushed
    <3> QED
      BY <3>1, <3>2, HasSentBeforeKept DEF HasSentBefore
  <2>2. MessagesSentLast' /\ HasSentBefore(w)'
    <3>1. CASE Tests(w)
      <4>1. rSent' = rSent /\ wPc'[w] \in {"test", "take", "finish"}
        BY <2>0, <3>1 DEF Tests, rVars, WGoto
      <4> QED
        BY <4>1, MessagesKept DEF HasSentBefore, Pushed
    <3>2. CASE Takes(w)
      <4>1. rSent' = rSent /\ wPc'[w] \in {"test", "take", "load"}
        BY <2>0, <3>2 DEF Takes, rVars, WGoto
      <4> QED
        BY <4>1, MessagesKept DEF HasSentBefore, Pushed
    <3>3. CASE LoadFile(w) \/ Finish(w)
      <4>1. rSent' = rSent /\ wPc'[w] \in {"unreadable", "parse", "leaving", "exited"}
        BY <2>0, <3>3 DEF LoadFile, Finish, rVars, WGoto
      <4> QED
        BY <4>1, MessagesKept DEF HasSentBefore, Pushed
    <3>4. CASE Parse(w)
      <4>1. rSent' = rSent /\ wPc'[w] \in {"parse", "push"} /\ rPc'[w] = "idle"
        BY <2>0, <3>4 DEF Parse, rVars, WGoto, Base, InOperation, SendingPCs
      <4> QED
        BY <4>1, MessagesKept DEF HasSentBefore, Pushed
    <3>5. CASE Parsed(w)
      <4>1. PICK e \in {"end", "end_error"} :
              Calls(m_queue[w], fVal[w], e) /\ Last(m_queue[w]) = <<fVal[w], e>>
        BY <3>5, ParsedCalls DEF Parsed
      <4>2. HasSent(fVal[w], e, Len(rSent))
        BY <2>0, <3>5, <4>1 DEF Parsed, HasSentBefore, Pushed, HasSent
      <4>3. /\ wPc'[w] \in {"error", "profile", "test"}
            /\ wPc'[w] = "error" => e = "end_error"
            /\ fVal'[w] = fVal[w] /\ rSent' = rSent
        BY <2>0, <3>5, <4>1 DEF Parsed, WGoto, fVars, rVars
      <4>4. HasSent(fVal[w], e, Len(rSent))'
        BY <4>2, <4>3 DEF HasSent
      <4> QED
        BY <2>0, <4>3, <4>4, MessagesKept DEF HasSentBefore, Pushed
    <3>6. ASSUME NEW from, NEW r, NEW to, SendPlan(w, from, r, to), Sends(w, from, r, to)
          PROVE  MessagesSentLast' /\ HasSentBefore(w)'
      BY <3>6, SentMessagesSend
    <3> QED
      BY <1>2, <3>1, <3>2, <3>3, <3>4, <3>5, <3>6 DEF WorkerOutline
  <2> QED
    BY <2>1, <2>2 DEF SentMessages, WorkersHaveSent, HasSentBefore
<1>3. CASE UNCHANGED vars
  BY <1>3 DEF vars, fVars, rVars, workerVars, SentMessages, MessagesSentLast,
     WorkersHaveSent, HasSent, Pushed
<1> QED
  BY <1>1, <1>2, <1>3, StepOutline


\* The operation run next is one of the Result popped last.
LEMMA HeadOfPopped ==
  ASSUME Base, LogInv, result # NoResult
  PROVE  /\ rTail \in 1 .. rHead /\ rSent[rTail] \in Results
         /\ \E x \in 1 .. Len(rSent[rTail]) : Head(result) = rSent[rTail][x]
<1>0. /\ rTail \in 1 .. rHead /\ rSent[rTail] \in Results /\ Len(rSent[rTail]) \in Nat
      /\ RestOf(rSent[rTail], result) /\ result \in Seq(Operations)
  BY SentTypes DEF LogInv, PopsInOrder, RunsRest
<1>1. Len(result) \in Nat \ {0} /\ Head(result) = result[1]
  BY <1>0, LenProperties, HeadTailProperties DEF NoResult
<1>2. result[1] = rSent[rTail][Len(rSent[rTail]) - Len(result) + 1]
  BY <1>0, <1>1 DEF RestOf
<1>3. Len(rSent[rTail]) - Len(result) + 1 \in 1 .. Len(rSent[rTail])
  BY <1>0, <1>1 DEF RestOf
<1> QED
  BY <1>0, <1>1, <1>2, <1>3

\* Of the Results before the one popped last, all has been run.
LEMMA RunBefore ==
  ASSUME Base, LogInv, NEW f, NEW e, HasSent(f, e, rTail - 1)
  PROVE  \E j \in 1 .. Len(log) : log[j] = <<f, e>>
<1>1. PICK k \in 1 .. rTail - 1 : Calls(rSent[k], f, e)
  BY DEF HasSent
<1>2. k \in 1 .. rTail /\ Executed(k) = Len(rSent[k])
  BY SentTypes DEF Executed
<1>3. Len(rSent[k]) \in 1 .. Len(rSent[k]) /\ rSent[k][Len(rSent[k])] = <<f, e>>
  BY <1>1, CallsEnds
<1> QED
  BY <1>2, <1>3 DEF LogInv, LogComplete, Logged

LEMMA MessagesFollowStep ==
  ASSUME Base, LogInv, SentMessages, MessagesFollowFile, [Next]_vars
  PROVE  MessagesFollowFile'
<1>0. log \in Seq(Operations)
  BY SentTypes
<1>1. CASE log' = log
  BY <1>1 DEF MessagesFollowFile, InLog
<1>2. CASE result # NoResult /\ log' = Append(log, Head(result)) /\ Head(result) \in Operations
  <2> DEFINE n == Len(log)
             op == Head(result)
  <2>1. /\ n \in Nat /\ Len(log') = n + 1 /\ log'[n + 1] = op
        /\ \A i \in 1 .. n : log'[i] = log[i]
    BY <1>0, <1>2, AppendAt
  <2>2. op[2] = "log_error" => \E j \in 1 .. n : log[j] = <<op[1], "end_error">>
    <3> SUFFICES ASSUME op[2] = "log_error"
                 PROVE  \E j \in 1 .. n : log[j] = <<op[1], "end_error">>
      OBVIOUS
    <3>1. PICK f \in Files : rSent[rTail] = << <<f, "log_error">> >> /\ op = <<f, "log_error">>
      BY <1>2, HeadOfPopped, OperationForm
    <3>2. HasSent(f, "end_error", rTail - 1)
      BY <1>2, <3>1, HeadOfPopped, SentTypes DEF SentMessages, MessagesSentLast
    <3>3. \E j \in 1 .. n : log[j] = <<f, "end_error">>
      BY <3>2, RunBefore
    <3> QED
      BY <3>1, <3>3
  <2>3. op[2] = "log_profile" =>
          \E j \in 1 .. n : log[j] = <<op[1], "end">> \/ log[j] = <<op[1], "end_error">>
    <3> SUFFICES ASSUME op[2] = "log_profile"
                 PROVE  \E j \in 1 .. n :
                          log[j] = <<op[1], "end">> \/ log[j] = <<op[1], "end_error">>
      OBVIOUS
    <3>1. PICK f \in Files :
            rSent[rTail] = << <<f, "log_profile">> >> /\ op = <<f, "log_profile">>
      BY <1>2, HeadOfPopped, OperationForm
    <3>2. HasSent(f, "end", rTail - 1) \/ HasSent(f, "end_error", rTail - 1)
      BY <1>2, <3>1, HeadOfPopped, SentTypes DEF SentMessages, MessagesSentLast
    <3>3. \E j \in 1 .. n : log[j] = <<f, "end">> \/ log[j] = <<f, "end_error">>
      BY <3>2, RunBefore
    <3> QED
      BY <3>1, <3>3
  <2> HIDE DEF n, op
  <2>4. ASSUME NEW i \in 1 .. n + 1
        PROVE  /\ log'[i][2] = "log_error" =>
                    \E j \in 1 .. i : j \in 1 .. n + 1 /\ log'[j] = <<log'[i][1], "end_error">>
               /\ log'[i][2] = "log_profile" =>
                    \E j \in 1 .. i :
                      \/ j \in 1 .. n + 1 /\ log'[j] = <<log'[i][1], "end">>
                      \/ j \in 1 .. n + 1 /\ log'[j] = <<log'[i][1], "end_error">>
    <3>1. CASE i = n + 1
      BY <2>1, <2>2, <2>3, <3>1
    <3>2. CASE i \in 1 .. n
      <4>1. /\ log[i][2] = "log_error" => \E j \in 1 .. i : log[j] = <<log[i][1], "end_error">>
            /\ log[i][2] = "log_profile" =>
                 \E j \in 1 .. i :
                   log[j] = <<log[i][1], "end">> \/ log[j] = <<log[i][1], "end_error">>
        BY <3>2 DEF MessagesFollowFile, InLog, n
      <4>2. log'[i] = log[i] /\ \A j \in 1 .. i : j \in 1 .. n + 1 /\ log'[j] = log[j]
        BY <2>1, <3>2
      <4> QED
        BY <4>1, <4>2
    <3> QED
      BY <2>1, <3>1, <3>2
  <2> QED
    BY <2>1, <2>4 DEF MessagesFollowFile, InLog, n
<1> QED
  BY <1>1, <1>2, LogGrows

LEMMA MessagesHold == Spec => [](Base /\ LogInv /\ SentMessages /\ MessagesFollowFile)
<1>1. Init => SentMessages /\ MessagesFollowFile
  BY DEF Init, sharedQueue!Init, SentMessages, MessagesSentLast, WorkersHaveSent, Pushed,
     MessagesFollowFile
<1>2. /\ Base /\ LogInv /\ SentMessages /\ MessagesFollowFile /\ [Next]_vars
      => SentMessages' /\ MessagesFollowFile'
  BY SentMessagesStep, MessagesFollowStep
<1> QED
  BY <1>1, <1>2, LogHolds, PTL DEF Spec

\* The error and the profile of a file are run after the file's end (lines
\* 140-150), whatever the other workers send in between.
THEOREM MessagesBehindFile == Spec => []MessagesFollowFile
BY MessagesHold, PTL


-----------------------------------------------------------------------------
(* As many files are reported as the backend was given without an error.   *)

LEMMA CountedSetsFinite ==
  ASSUME Base
  PROVE  /\ IsFiniteSet(Uncounted) /\ Cardinality(Uncounted) \in Nat
         /\ IsFiniteSet(SentWell) /\ Cardinality(SentWell) \in Nat
         /\ IsFiniteSet(EndsLogged) /\ Cardinality(EndsLogged) \in Nat
         /\ IsFiniteSet(ExecutedWell) /\ Cardinality(ExecutedWell) \in Nat
<1>0. Len(rSent) \in Int /\ Len(log) \in Int /\ rTail \in Int /\ 1 \in Int
  BY SentTypes, LenProperties
<1>1. IsFiniteSet(1 .. Len(rSent)) /\ IsFiniteSet(1 .. Len(log)) /\ IsFiniteSet(1 .. rTail)
  BY <1>0, FS_Interval
<1>2. IsFiniteSet(Uncounted)
  BY WorkersAssumption, FS_Subset DEF Uncounted
<1>3. IsFiniteSet(SentWell)
  BY <1>1, FS_Subset DEF SentWell
<1>4. IsFiniteSet(EndsLogged)
  BY <1>1, FS_Subset DEF EndsLogged
<1>5. IsFiniteSet(ExecutedWell)
  BY <1>1, FS_Subset DEF ExecutedWell
<1> QED
  BY <1>2, <1>3, <1>4, <1>5, FS_CardinalityType

\* The lines to print end no file.
LEMMA MessagesEndNothing ==
  ASSUME NEW w, NEW from, NEW r, NEW to, SendPlan(w, from, r, to), from # "push"
  PROVE  ~EndsWell(r)
<1>1. PICK m \in {"log_unreadable", "log_error", "log_profile"} : r = << <<fVal[w], m>> >>
  BY DEF SendPlan
<1>2. r[Len(r)] = <<fVal[w], m>>
  BY <1>1
<1> QED
  BY <1>1, <1>2 DEF EndsWell

\* Files that were counted and those that are still to be.
Balanced == filesParsed + Cardinality(Uncounted) = Cardinality(SentWell)

LEMMA BalancedKept ==
  ASSUME Balanced, rSent' = rSent, filesParsed' = filesParsed,
         \A w \in Workers : /\ Pushed(w)' <=> Pushed(w)
                            /\ Pushed(w) => m_queue'[w] = m_queue[w]
  PROVE  Balanced'
<1>1. Uncounted' = Uncounted /\ SentWell' = SentWell
  BY DEF Uncounted, SentWell, EndsWell
<1> QED
  BY <1>1 DEF Balanced

LEMMA BalancedParsed ==
  ASSUME Base, Balanced, [Next]_vars, NEW w \in Workers, Parsed(w)
  PROVE  Balanced'
<1>0. /\ filesParsed \in Nat /\ rSent' = rSent
      /\ wPc[w] = "parsed" /\ wPc'[w] # "parsed" /\ wPc'[w] # "push"
  BY DEF Parsed, WGoto, rVars, Base, Types
<1>1. PICK e \in {"end", "end_error"} :
        Calls(m_queue[w], fVal[w], e) /\ Last(m_queue[w]) = <<fVal[w], e>>
  BY <1>0, ParsedCalls
<1>2. EndsWell(m_queue[w]) <=> e = "end"
  BY <1>1, CallsEnds DEF EndsWell
<1>3. filesParsed' = IF e = "end" THEN filesParsed + 1 ELSE filesParsed
  BY <1>1 DEF Parsed
<1>4. w \in Uncounted <=> e = "end"
  BY <1>0, <1>2 DEF Uncounted, Pushed
<1>5. Uncounted' = Uncounted \ {w}
  <2>1. ~Pushed(w)'
    BY <1>0 DEF Pushed
  <2>2. ASSUME NEW u \in Workers \ {w}
        PROVE  (Pushed(u)' <=> Pushed(u)) /\ m_queue'[u] = m_queue[u]
    <3>1. WorkerOutline(w)
      BY DEF WorkerOutline
    <3> QED
      BY <3>1, OtherWorkers DEF Pushed
  <2> QED
    BY <2>1, <2>2 DEF Uncounted, EndsWell
<1>6. Cardinality(Uncounted') = IF e = "end" THEN Cardinality(Uncounted) - 1
                                ELSE Cardinality(Uncounted)
  BY <1>4, <1>5, CountedSetsFinite, FS_RemoveElement
<1>7. Cardinality(SentWell') = Cardinality(SentWell)
  BY <1>0 DEF SentWell, EndsWell
<1> QED
  BY <1>0, <1>3, <1>6, <1>7, CountedSetsFinite DEF Balanced

LEMMA BalancedSend ==
  ASSUME Base, Balanced, [Next]_vars, NEW w \in Workers, NEW from, NEW r, NEW to,
         SendPlan(w, from, r, to), Sends(w, from, r, to)
  PROVE  Balanced'
<1>0. /\ filesParsed \in Nat /\ filesParsed' = filesParsed /\ wPc[w] = from
      /\ wPc \in [Workers -> WorkerPCs] /\ m_queue' = m_queue /\ rSent \in Seq(Results)
  BY SentTypes DEF Sends, Base, Types
<1>1. ASSUME NEW u \in Workers \ {w}
      PROVE  Pushed(u)' <=> Pushed(u)
  <2>1. WorkerOutline(w)
    BY DEF WorkerOutline
  <2> QED
    BY <2>1, OtherWorkers DEF Pushed
<1>2. CASE rPc[w] = "idle" /\ rPc'[w] \in SendPCs /\ rSent' = Append(rSent, r)
           /\ UNCHANGED wPc
  <2> DEFINE n == Len(rSent)
  <2>1. /\ n \in Nat /\ Len(rSent') = n + 1 /\ rSent'[n + 1] = r
        /\ \A k \in 1 .. n : rSent'[k] = rSent[k]
    BY <1>0, <1>2, SentIsResult, AppendAt
  <2>2. SentWell' = IF EndsWell(r) THEN SentWell \union {n + 1} ELSE SentWell
    BY <2>1 DEF SentWell, EndsWell
  <2>3. n + 1 \notin SentWell
    BY <2>1 DEF SentWell
  <2>4. Cardinality(SentWell') =
          IF EndsWell(r) THEN Cardinality(SentWell) + 1 ELSE Cardinality(SentWell)
    BY <2>2, <2>3, CountedSetsFinite, FS_AddElement
  <2>5. /\ ~Pushed(w)
        /\ Pushed(w)' <=> from = "push"
        /\ from = "push" => r = m_queue[w]
        /\ from # "push" => ~EndsWell(r)
    BY <1>0, <1>2, MessagesEndNothing DEF Pushed, SendPlan, SendPCs
  <2>6. Uncounted' = IF EndsWell(r) THEN Uncounted \union {w} ELSE Uncounted
    BY <1>0, <1>1, <2>5 DEF Uncounted, EndsWell
  <2>7. w \notin Uncounted
    BY <2>5 DEF Uncounted
  <2>8. Cardinality(Uncounted') =
          IF EndsWell(r) THEN Cardinality(Uncounted) + 1 ELSE Cardinality(Uncounted)
    BY <2>6, <2>7, CountedSetsFinite, FS_AddElement
  <2> QED
    BY <1>0, <2>4, <2>8, CountedSetsFinite DEF Balanced
<1>3. CASE rPc[w] \in SendPCs /\ rSent' = rSent
           /\ \/ rPc'[w] \in SendPCs /\ UNCHANGED wPc
              \/ rPc'[w] = "idle" /\ WGoto(w, to)
  <2>1. Pushed(w)' <=> Pushed(w)
    <3>1. CASE rPc'[w] \in SendPCs /\ UNCHANGED wPc
      BY <1>0, <1>3, <3>1 DEF Pushed, SendPCs
    <3>2. CASE rPc'[w] = "idle" /\ WGoto(w, to)
      BY <1>0, <1>3, <3>2 DEF Pushed, SendPCs, SendPlan, WGoto
    <3> QED
      BY <1>3, <3>1, <3>2
  <2> QED
    BY <1>0, <1>1, <1>3, <2>1, BalancedKept
<1> QED
  BY <1>2, <1>3 DEF Sends

LEMMA BalancedStep ==
  ASSUME Base, Balanced, [Next]_vars
  PROVE  Balanced'
<1>1. CASE MainOutline
  <2>1. filesParsed' = filesParsed
    BY <1>1 DEF MainOutline, Lists, SelectGenerator, StartThread, ReadCounter, TestsEmpty,
       Pops, RunOperation, Join, DestroyBackend, Report
  <2>2. rSent' = rSent
    BY <1>1, WorkersAssumption, MainLeaves, NumFilesAssumption, FS_EmptySet
  <2>3. ASSUME NEW w \in Workers
        PROVE  (Pushed(w)' <=> Pushed(w)) /\ m_queue'[w] = m_queue[w]
    BY <1>1, MainLeaves DEF Pushed
  <2> QED
    BY <2>1, <2>2, <2>3, BalancedKept
<1>2. ASSUME NEW w \in Workers, WorkerOutline(w)
      PROVE  Balanced'
  <2>1. CASE Parsed(w)
    BY <2>1, BalancedParsed
  <2>2. ASSUME NEW from, NEW r, NEW to, SendPlan(w, from, r, to), Sends(w, from, r, to)
        PROVE  Balanced'
    BY <2>2, BalancedSend
  <2>3. CASE Tests(w) \/ Takes(w) \/ LoadFile(w) \/ Parse(w) \/ Finish(w)
    <3>0. wPc \in [Workers -> WorkerPCs] /\ (wPc[w] \notin SendingPCs => rPc[w] = "idle")
      BY DEF Base, Types, InOperation
    <3>1. rSent' = rSent /\ filesParsed' = filesParsed
      BY <2>3 DEF Tests, Takes, LoadFile, Parse, Finish, rVars
    <3>2. ~Pushed(w) /\ ~Pushed(w)'
      BY <2>3, <3>0 DEF Tests, Takes, LoadFile, Parse, Finish, rVars, Pushed, WGoto,
         SendingPCs
    <3>3. ASSUME NEW u \in Workers \ {w}
          PROVE  (Pushed(u)' <=> Pushed(u)) /\ m_queue'[u] = m_queue[u]
      BY <1>2, OtherWorkers DEF Pushed
    <3> QED
      BY <3>1, <3>2, <3>3, BalancedKept
  <2> QED
    BY <1>2, <2>1, <2>2, <2>3 DEF WorkerOutline
<1>3. CASE UNCHANGED vars
  BY <1>3, BalancedKept DEF vars, rVars, workerVars, Pushed
<1> QED
  BY <1>1, <1>2, <1>3, StepOutline

\* The files whose end was run, and the Results that were run to an end.
Tallied == Cardinality(EndsLogged) = Cardinality(ExecutedWell)

LEMMA TalliedStep ==
  ASSUME Base, LogInv, Tallied, [Next]_vars
  PROVE  Tallied'
<1>0. /\ log \in Seq(Operations) /\ rTail \in Nat /\ rHead \in Nat
      /\ \A k \in 1 .. rHead : rSent[k] \in Results /\ Len(rSent[k]) \in Nat \ {0}
      /\ rTail <= rHead
  BY SentTypes DEF LogInv, PopsInOrder
<1>1. CASE ~(RunOperation /\ result # NoResult)
  <2>1. EndsLogged' = EndsLogged
    BY <1>1, LogGrows DEF EndsLogged
  <2>2. ASSUME NEW k \in 1 .. rTail'
        PROVE  /\ rSent'[k] = rSent[k]
               /\ \/ k <= rTail /\ Executed(k)' = Executed(k)
                  \/ k = rTail + 1 /\ Executed(k)' = 0
    BY <1>1, ExecutedStep DEF LogInv
  <2>3. rTail' >= rTail /\ rTail' \in Nat /\ rTail' <= rTail + 1 /\ rTail' <= Len(rSent')
    <3>1. LogInv' /\ Base'
      BY LogStep, BaseStep
    <3>2. rTail' = rTail \/ rTail' = rTail + 1
      <4>1. Quiet \/ TestsEmpty \/ RunOperation \/ GoesOn \/ Pops => rTail' = rTail \/ rTail' = rTail + 1
        BY DEF Quiet, TestsEmpty, RunOperation, GoesOn, Pops, rVars
      <4>2. \A w, r : Adds(w, r) => rTail' = rTail
        BY DEF Adds
      <4> QED
        BY <4>1, <4>2, LogOutline
    <3>3. rTail' <= rHead' /\ Len(rSent') = rHead'
      BY <3>1, SharedQueueFactsNext DEF LogInv, PopsInOrder, Base
    <3> QED
      BY <1>0, <3>2, <3>3
  <2>4. ASSUME NEW k \in 1 .. rTail'
        PROVE  k \in ExecutedWell' <=> k \in ExecutedWell
    <3>1. k \in ExecutedWell' <=> Executed(k)' = Len(rSent'[k]) /\ EndsWell(rSent'[k])
      BY DEF ExecutedWell
    <3>2. k \in ExecutedWell <=>
            k \in 1 .. rTail /\ Executed(k) = Len(rSent[k]) /\ EndsWell(rSent[k])
      BY DEF ExecutedWell
    <3>3. CASE k <= rTail /\ Executed(k)' = Executed(k)
      BY <1>0, <2>2, <3>1, <3>2, <3>3
    <3>4. CASE k = rTail + 1 /\ Executed(k)' = 0
      <4>1. Len(rSent'[k]) # 0
        <5>1. k \in 1 .. Len(rSent')
          BY <2>3
        <5>2. rSent' \in Seq(Results)
          BY BaseStep, SharedQueueFactsNext DEF Base
        <5>3. rSent'[k] \in Results
          BY <5>1, <5>2, ElementOfSeq
        <5> QED
          BY <5>3, ResultForm
      <4> QED
        BY <1>0, <3>1, <3>2, <3>4, <4>1
    <3> QED
      BY <2>2, <3>3, <3>4
  <2>5. ExecutedWell' = ExecutedWell
    <3>1. ExecutedWell' \subseteq 1 .. rTail' /\ ExecutedWell \subseteq 1 .. rTail'
      BY <1>0, <2>3 DEF ExecutedWell
    <3> QED
      BY <2>4, <3>1
  <2> QED
    BY <2>1, <2>5 DEF Tallied
<1>2. CASE RunOperation /\ result # NoResult
  <2> DEFINE n == Len(log)
             op == Head(result)
  <2>1. /\ n \in Nat /\ Len(log') = n + 1 /\ log'[n + 1] = op
        /\ \A i \in 1 .. n : log'[i] = log[i]
    BY <1>0, <1>2, LogGrows, AppendAt
  <2>2. rTail' = rTail /\ rSent' = rSent /\ rTail \in 1 .. rHead
    BY <1>2, HeadOfPopped DEF RunOperation, rVars
  <2>3. PICK m \in 1 .. rTail' : m = rTail
    BY <1>0, <2>2
  <2>4. /\ Executed(m) \in Nat /\ Executed(m)' = Executed(m) + 1
        /\ Executed(m)' \in 1 .. Len(rSent[m]) /\ op = rSent[m][Executed(m)']
    BY <1>0, <1>2, <2>3, ExecutedStep DEF LogInv
  <2>5. op[2] = "end" <=> Executed(m)' = Len(rSent[m]) /\ EndsWell(rSent[m])
    BY <1>0, <2>2, <2>3, <2>4, OperationForm
  <2> HIDE DEF n, op
  <2>6. m \notin ExecutedWell
    BY <1>0, <2>2, <2>3, <2>4 DEF ExecutedWell
  <2>7. m \in ExecutedWell' <=> op[2] = "end"
    BY <2>2, <2>3, <2>5 DEF ExecutedWell
  <2>8. ASSUME NEW k \in 1 .. rTail, k # m
        PROVE  k \in ExecutedWell' <=> k \in ExecutedWell
    <3>1. Executed(k)' = Executed(k)
      BY <1>0, <1>2, <2>2, <2>3, <2>8, ExecutedStep DEF LogInv
    <3> QED
      BY <2>2, <3>1 DEF ExecutedWell
  <2>9. ExecutedWell' = IF op[2] = "end" THEN ExecutedWell \union {m} ELSE ExecutedWell
    <3>1. ExecutedWell' \subseteq 1 .. rTail /\ ExecutedWell \subseteq 1 .. rTail
      BY <2>2 DEF ExecutedWell
    <3>2. ASSUME NEW k \in 1 .. rTail
          PROVE  k \in ExecutedWell' <=> k \in ExecutedWell \/ (k = m /\ op[2] = "end")
      BY <2>6, <2>7, <2>8
    <3>3. m \in 1 .. rTail
      BY <2>2
    <3> QED
      BY <3>1, <3>2, <3>3
  <2>10. EndsLogged' = IF op[2] = "end" THEN EndsLogged \union {n + 1} ELSE EndsLogged
    BY <2>1 DEF EndsLogged, n
  <2>11. n + 1 \notin EndsLogged
    BY <2>1 DEF EndsLogged, n
  <2>12. Cardinality(ExecutedWell') =
           IF op[2] = "end" THEN Cardinality(ExecutedWell) + 1 ELSE Cardinality(ExecutedWell)
    BY <2>6, <2>9, CountedSetsFinite, FS_AddElement
  <2>13. Cardinality(EndsLogged') =
           IF op[2] = "end" THEN Cardinality(EndsLogged) + 1 ELSE Cardinality(EndsLogged)
    BY <2>10, <2>11, CountedSetsFinite, FS_AddElement
  <2> QED
    BY <2>12, <2>13 DEF Tallied
<1> QED
  BY <1>1, <1>2

\* The number of parsed files is read when no thread can change it any more.
Reported == reported = IF mPc = "done" THEN filesParsed ELSE -1

LEMMA ReportedStep ==
  ASSUME Base, Reported, [Next]_vars
  PROVE  Reported'
<1>1. CASE MainOutline
  <2>1. CASE Report
    BY <2>1 DEF Report, Reported
  <2>2. CASE Lists \/ SelectGenerator \/ StartThread \/ ReadCounter \/ TestsEmpty \/ Pops
             \/ RunOperation \/ Join \/ DestroyBackend
    BY <2>2 DEF Lists, SelectGenerator, StartThread, ReadCounter, TestsEmpty, Pops,
       RunOperation, Join, DestroyBackend, Reported
  <2> QED
    BY <1>1, <2>1, <2>2 DEF MainOutline
<1>2. ASSUME NEW w \in Workers, WorkerOutline(w)
      PROVE  Reported'
  <2>1. UNCHANGED <<mPc, reported>>
    BY <1>2 DEF WorkerOutline, Tests, Takes, LoadFile, Parse, Parsed, Finish, Sends, mainVars
  <2>2. filesParsed' = filesParsed \/ mPc # "done"
    <3>1. Parsed(w) => w \in Running
      BY DEF Parsed, Running, OutPCs
    <3>2. ~Parsed(w) => filesParsed' = filesParsed
      BY <1>2 DEF WorkerOutline, Tests, Takes, LoadFile, Parse, Finish, Sends
    <3> QED
      BY <3>1, <3>2, NoneRunning DEF EndedPCs
  <2> QED
    BY <2>1, <2>2 DEF Reported
<1>3. CASE UNCHANGED vars
  BY <1>3 DEF vars, mainVars, Reported
<1> QED
  BY <1>1, <1>2, <1>3, StepOutline

CountInv == Balanced /\ Tallied /\ Reported

LEMMA CountInit ==
  ASSUME Init
  PROVE  CountInv
<1>1. /\ rTail = 0 /\ rSent = << >> /\ log = << >> /\ filesParsed = 0 /\ reported = -1
      /\ mPc = "fill" /\ \A w \in Workers : ~Pushed(w)
  BY DEF Init, sharedQueue!Init, Pushed
<1>2. Uncounted = {} /\ SentWell = {} /\ EndsLogged = {} /\ ExecutedWell = {}
  BY <1>1 DEF Uncounted, SentWell, EndsLogged, ExecutedWell
<1> QED
  BY <1>1, <1>2, FS_EmptySet DEF CountInv, Balanced, Tallied, Reported

LEMMA CountHolds == Spec => [](Base /\ LogInv /\ CountInv)
<1>1. Base /\ LogInv /\ CountInv /\ [Next]_vars => CountInv'
  BY BalancedStep, TalliedStep, ReportedStep DEF CountInv
<1> QED
  BY <1>1, CountInit, LogHolds, PTL DEF Spec

\* The number printed at the end (line 179) is that of the files whose end the
\* backend was given without an error.
THEOREM FilesReported == Spec => []ReportsParsedFiles
<1>1. Base /\ LogInv /\ CountInv => ReportsParsedFiles
  <2> SUFFICES ASSUME Base, LogInv, CountInv, mPc = "done"
               PROVE  reported = Cardinality(EndsLogged)
    BY DEF ReportsParsedFiles, EndsLogged
  <2>1. Uncounted = {}
    <3>1. Running = {}
      BY NoneRunning DEF EndedPCs
    <3> QED
      BY <3>1 DEF Uncounted, Pushed, Running, OutPCs
  <2>2. ExecutedWell = SentWell
    <3>1. /\ result = << >> /\ rTail = rHead /\ rPc[Main] = "idle"
          /\ Len(rSent) = rHead /\ rTail \in Nat
          /\ \A k \in 1 .. rHead : Len(rSent[k]) \in Nat
      BY SentTypes DEF LogInv, PopsInOrder, EndedPCs, NoResult, Base, InOperation
    <3>2. \A k \in 1 .. rTail : Executed(k) = Len(rSent[k])
      BY <3>1 DEF Executed, ReadPCs
    <3> QED
      BY <3>1, <3>2 DEF ExecutedWell, SentWell
  <2>3. Cardinality(Uncounted) = 0 /\ filesParsed \in Nat
    BY <2>1, FS_EmptySet DEF Base, Types
  <2> QED
    BY <2>2, <2>3 DEF CountInv, Balanced, Tallied, Reported
<1> QED
  BY <1>1, CountHolds, PTL

=============================================================================
