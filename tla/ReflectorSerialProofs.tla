------------------------- MODULE ReflectorSerialProofs -------------------------
(***************************************************************************)
(* Proofs that the backend cannot tell how many threads were at work: each *)
(* file is taken by one worker, which sends its calls once, and the calls  *)
(* of a file are run with nothing of another file in between.              *)
(***************************************************************************)
EXTENDS ReflectorProofs

-----------------------------------------------------------------------------
(* The invariant.                                                          *)

\* Nothing else is run than what was sent.
LogSound ==
  \A i \in 1 .. Len(log) :
    \E k \in 1 .. rTail : \E j \in 1 .. Executed(k) : log[i] = rSent[k][j]

\* The file a worker has taken, and whether nothing was sent of it yet.
Owns(w)   == wPc[w] \in HoldingPCs \/ fPc[w] \in ReadPCs
FileOf(w) == IF fPc[w] \in ReadPCs THEN fTicket[w] + 1 ELSE fVal[w]
Fresh(w) ==
  \/ fPc[w] \in ReadPCs
  \/ wPc[w] \in {"load", "parse"}
  \/ wPc[w] \in {"unreadable", "push"} /\ rPc[w] = "idle"

\* The file a Result is about, and what it is about it.
About(k) == rSent[k][1][1]
Kind(k)  == rSent[k][1][2]
Said(f, m) == \E k \in 1 .. Len(rSent) : About(k) = f /\ Kind(k) = m

\* No two workers hold one file.
OneOwner ==
  \A w \in Workers : Owns(w) =>
    /\ FileOf(w) \in 1 .. fTail
    /\ \A u \in Workers \ {w} : Owns(u) => FileOf(u) # FileOf(w)

\* Of a file, no Result is sent twice, and none beside that it is unreadable.
SentOnce ==
  \A j, k \in 1 .. Len(rSent) :
    j # k /\ About(j) = About(k) => Kind(j) # Kind(k) /\ Kind(j) # "log_unreadable"

SentAfterTaken == \A k \in 1 .. Len(rSent) : About(k) \in 1 .. fTail

\* What a worker has not sent yet of the file it holds, and what it has.
UnsaidBy(w) ==
  /\ Fresh(w) => \A k \in 1 .. Len(rSent) : About(k) # FileOf(w)
  /\ \/ wPc[w] \in {"push", "parsed"}
     \/ wPc[w] = "error" /\ rPc[w] = "idle"
     => ~Said(fVal[w], "log_error")
  /\ \/ wPc[w] \in {"push", "parsed", "error"}
     \/ wPc[w] = "profile" /\ rPc[w] = "idle"
     => ~Said(fVal[w], "log_profile")
  /\ Pushed(w) \/ wPc[w] \in {"error", "profile"} => Said(fVal[w], "begin")

Unsaid == \A w \in Workers : UnsaidBy(w)

\* A file that was taken is in a worker's hands until it is sent.
NoneForgotten ==
  \A f \in 1 .. fTail :
    \/ Said(f, "begin") \/ Said(f, "log_unreadable")
    \/ \E w \in Workers : Fresh(w) /\ FileOf(w) = f

\* A worker leaves only when all the files have been taken.
LeavesWhenEmpty ==
  \A w \in Workers :
    /\ fPc[w] = "empty_tail" => fTicket[w] = NumFiles
    /\ fPc[w] = "empty_head" => fTicket[w] <= fTail
    /\ wPc[w] \in {"finish", "leaving", "exited"} => fTail = NumFiles

\* What hardware_concurrency() returns allows for one worker at least.
OneThread == \A hw \in HardwareConcurrencies : ThreadCount(hw) > 0

SomeStarted ==
  OneThread /\ mPc \notin {"fill", "generator", "rejected"} =>
    cnt > 0 \/ \E w \in Workers : wPc[w] # "none"

FilesInv ==
  OneOwner /\ SentOnce /\ SentAfterTaken /\ Unsaid /\ NoneForgotten /\ LeavesWhenEmpty

-----------------------------------------------------------------------------
(* What a step does to the file a worker holds.                            *)

LEMMA FileTypes ==
  ASSUME Base
  PROVE  /\ NumFiles \in Nat /\ fHead \in Nat /\ fTail \in 0 .. NumFiles
         /\ rSent \in Seq(Results) /\ Len(rSent) \in Nat
         /\ wPc \in [Workers -> WorkerPCs] /\ fVal \in [Threads -> Files \union {None}]
         /\ fTicket \in [Threads -> Nat] /\ Workers \subseteq Threads
BY SentTypes, SentGrows, FileQueueFacts, NumFilesAssumption, LenProperties
   DEF Base, Types, Threads

LEMMA OutsideQueues ==
  ASSUME Base, NEW w \in Workers
  PROVE  /\ wPc[w] \notin {"test", "take"} => fPc[w] = "idle"
         /\ wPc[w] = "test" => fPc[w] \notin ReadPCs
         /\ wPc[w] \notin SendingPCs => rPc[w] = "idle"
         /\ wPc[w] \in HoldingPCs => fPc[w] = "idle" /\ FileOf(w) = fVal[w]
         /\ Fresh(w) => Owns(w)
BY DEF Base, InOperation, EmptyPCs, TryPopPCs, ReadPCs, SendingPCs, HoldingPCs, FileOf,
   Fresh, Owns

LEMMA OutsideQueuesNext ==
  ASSUME Base', NEW w \in Workers
  PROVE  Fresh(w)' => Owns(w)'
BY DEF Base, InOperation, EmptyPCs, TryPopPCs, ReadPCs, SendingPCs, HoldingPCs, Fresh, Owns

\* A worker takes the next file, or keeps the one it has, or has none.
LEMMA OwnsStep ==
  ASSUME Base, NEW w \in Workers, WorkerOutline(w)
  PROVE  \/ /\ fPc'[w] \in ReadPCs /\ ~Owns(w) /\ fTail' = fTail + 1
            /\ FileOf(w)' = fTail + 1 /\ rSent' = rSent
            /\ wPc'[w] = "take"
         \/ /\ fTail' = fTail
            /\ Owns(w)' => Owns(w) /\ FileOf(w)' = FileOf(w)
            /\ Fresh(w)' => Fresh(w) /\ rSent' = rSent
<1>0. /\ wPc \in [Workers -> WorkerPCs] /\ w \in Threads
      /\ fTail \in Nat /\ fHead \in Nat
  BY FileTypes
<1>1. CASE Tests(w)
  <2>1. fTail' = fTail /\ fPc'[w] \notin ReadPCs /\ wPc'[w] \in {"test", "take", "finish"}
    BY <1>0, <1>1 DEF Tests, WGoto, EmptyPCs, ReadPCs
  <2> QED
    BY <2>1 DEF Owns, Fresh, HoldingPCs, SendingPCs
<1>2. CASE Takes(w)
  <2>0. wPc[w] = "take" /\ rSent' = rSent
    BY <1>2 DEF Takes, rVars, Base, InOperation, EmptyPCs, TryPopPCs, ReadPCs
  <2>1. CASE fPc[w] \in {"idle"} \union TryPopPCs /\ fPc'[w] \in TryPopPCs
             /\ UNCHANGED <<fTail, fVal, wPc>>
    BY <2>0, <2>1 DEF Owns, Fresh, FileOf, HoldingPCs, SendingPCs, TryPopPCs, ReadPCs
  <2>2. CASE fPc[w] = "try_pop_cas" /\ fPc'[w] = "move" /\ fTail' = fTail + 1
             /\ fTicket'[w] = fTail /\ UNCHANGED wPc
    BY <2>0, <2>2 DEF Owns, FileOf, HoldingPCs, SendingPCs, ReadPCs
  <2>3. CASE fPc[w] \in ReadPCs /\ fPc'[w] \in ReadPCs /\ fTicket'[w] = fTicket[w]
             /\ UNCHANGED <<fTail, wPc>>
    BY <2>0, <2>3 DEF Owns, Fresh, FileOf
  <2>4. CASE fPc[w] = "release" /\ fPc'[w] = "idle" /\ fVal'[w] = fSent[fTicket[w] + 1]
             /\ UNCHANGED fTail
    <3>1. fTicket[w] \in Nat /\ fTicket[w] < fHead
      BY <1>0, <2>4, FileTypes, FileConsumer DEF ReadPCs, Base
    <3>2. fVal'[w] = fTicket[w] + 1
      BY <1>0, <2>4, <3>1 DEF Base, FilesListed
    <3> QED
      BY <2>0, <2>4, <3>2 DEF Owns, Fresh, FileOf, ReadPCs
  <2>5. CASE fPc[w] = "try_pop_reload" /\ fPc'[w] = "idle" /\ WGoto(w, "test")
             /\ UNCHANGED <<fTail, fVal>>
    BY <1>0, <2>0, <2>5 DEF Owns, Fresh, WGoto, HoldingPCs, SendingPCs, ReadPCs
  <2> QED
    BY <1>2, <2>1, <2>2, <2>3, <2>4, <2>5 DEF Takes
<1>3. CASE LoadFile(w) \/ Parse(w) \/ Parsed(w) \/ Finish(w)
  <2>1. /\ UNCHANGED <<fTail, fPc, fTicket, fVal, rPc, rSent>> /\ fPc[w] \notin ReadPCs
        /\ wPc[w] \notin SendingPCs
    BY <1>3, OutsideQueues DEF LoadFile, Parse, Parsed, Finish, fVars, rVars, SendingPCs,
       ReadPCs
  <2>2. wPc'[w] \in HoldingPCs => wPc[w] \in HoldingPCs
    BY <1>0, <1>3 DEF LoadFile, Parse, Parsed, Finish, WGoto, HoldingPCs, SendingPCs
  <2>3. wPc'[w] \in {"load", "parse", "unreadable", "push"} => wPc[w] \in {"load", "parse"}
    BY <1>0, <1>3 DEF LoadFile, Parse, Parsed, Finish, WGoto
  <2> QED
    BY <2>1, <2>2, <2>3 DEF Owns, Fresh, FileOf
<1>4. ASSUME NEW from, NEW r, NEW to, SendPlan(w, from, r, to), Sends(w, from, r, to)
      PROVE  /\ fTail' = fTail
             /\ Owns(w)' => Owns(w) /\ FileOf(w)' = FileOf(w)
             /\ Fresh(w)' => Fresh(w) /\ rSent' = rSent
  <2>1. UNCHANGED <<fTail, fPc, fTicket, fVal>> /\ wPc[w] = from /\ from \in SendingPCs
    BY <1>4 DEF Sends, SendPlan, fVars, SendingPCs
  <2>2. Owns(w) /\ FileOf(w)' = FileOf(w) /\ fPc[w] \notin ReadPCs
    BY <2>1, OutsideQueues DEF Owns, FileOf, HoldingPCs, ReadPCs
  <2>3. ~Fresh(w)'
    BY <1>0, <1>4, <2>1, <2>2 DEF Sends, SendPlan, Fresh, WGoto, SendPCs
  <2> QED
    BY <2>1, <2>2, <2>3
<1> QED
  BY <1>1, <1>2, <1>3, <1>4 DEF WorkerOutline

\* What a step leaves of the other workers' files.
LEMMA OwnsOthers ==
  ASSUME Base, NEW w \in Workers, WorkerOutline(w), NEW u \in Workers \ {w}
  PROVE  /\ Owns(u)' <=> Owns(u)
         /\ FileOf(u)' = FileOf(u)
         /\ Fresh(u)' <=> Fresh(u)
BY OtherWorkers DEF Owns, FileOf, Fresh

LEMMA OwnsMain ==
  ASSUME Base, MainOutline, NEW w \in Workers
  PROVE  /\ Owns(w)' <=> Owns(w)
         /\ FileOf(w)' = FileOf(w)
         /\ Fresh(w)' <=> Fresh(w)
BY MainLeaves DEF Owns, FileOf, Fresh, HoldingPCs, SendingPCs

LEMMA SameFiles ==
  ASSUME UNCHANGED vars, NEW w \in Workers
  PROVE  /\ Owns(w)' <=> Owns(w)
         /\ FileOf(w)' = FileOf(w)
         /\ Fresh(w)' <=> Fresh(w)
BY DEF vars, fVars, rVars, workerVars, Owns, FileOf, Fresh

LEMMA OneOwnerStep ==
  ASSUME Base, OneOwner, [Next]_vars
  PROVE  OneOwner'
<1>0. fTail \in Nat
  BY FileTypes
<1>1. CASE MainOutline
  <2>1. fTail' = fTail \/ Workers = {}
    BY <1>1, MainLeaves
  <2> QED
    BY <1>1, <2>1, OwnsMain DEF OneOwner
<1>2. ASSUME NEW w \in Workers, WorkerOutline(w)
      PROVE  OneOwner'
  <2>1. ASSUME NEW u \in Workers \ {w}
        PROVE  (Owns(u)' <=> Owns(u)) /\ FileOf(u)' = FileOf(u)
    BY <1>2, OwnsOthers
  <2>2. CASE ~Owns(w) /\ fTail' = fTail + 1 /\ FileOf(w)' = fTail + 1
    <3>1. \A u \in Workers \ {w} : Owns(u)' => FileOf(u)' \in 1 .. fTail
      BY <2>1 DEF OneOwner
    <3> QED
      BY <1>0, <2>1, <2>2, <3>1 DEF OneOwner
  <2>3. CASE fTail' = fTail /\ (Owns(w)' => Owns(w) /\ FileOf(w)' = FileOf(w))
    BY <2>1, <2>3 DEF OneOwner
  <2> QED
    BY <1>2, <2>2, <2>3, OwnsStep
<1>3. CASE UNCHANGED vars
  <2>1. fTail' = fTail
    BY <1>3 DEF vars, fVars
  <2> QED
    BY <1>3, <2>1, SameFiles DEF OneOwner
<1> QED
  BY <1>1, <1>2, <1>3, StepOutline

-----------------------------------------------------------------------------
(* What a worker sends of its file.                                        *)

SentKind(from) ==
  CASE from = "unreadable" -> "log_unreadable"
    [] from = "push"       -> "begin"
    [] from = "error"      -> "log_error"
    [] from = "profile"    -> "log_profile"

\* The worker w begins to send r.
Begins(w, from, r, to) ==
  /\ SendPlan(w, from, r, to) /\ wPc[w] = from /\ from \in SendingPCs
  /\ rPc[w] = "idle" /\ rPc'[w] \in SendPCs
  /\ rSent' = Append(rSent, r) /\ rHead' = rHead + 1
  /\ UNCHANGED <<wPc, fVars, m_queue>>

LEMMA SentCases ==
  ASSUME Base, NEW w \in Workers, WorkerOutline(w)
  PROVE  \/ rSent' = rSent
         \/ \E from, r, to : Begins(w, from, r, to)
<1>1. Tests(w) \/ Takes(w) \/ LoadFile(w) \/ Parse(w) \/ Parsed(w) \/ Finish(w)
        => rSent' = rSent
  BY DEF Tests, Takes, LoadFile, Parse, Parsed, Finish, rVars
<1>2. ASSUME NEW from, NEW r, NEW to, SendPlan(w, from, r, to), Sends(w, from, r, to)
      PROVE  rSent' = rSent \/ Begins(w, from, r, to)
  BY <1>2 DEF Sends, Begins, SendPlan, SendingPCs
<1> QED
  BY <1>1, <1>2 DEF WorkerOutline

LEMMA SomeoneBegins ==
  ASSUME Base, [Next]_vars
  PROVE  \/ rSent' = rSent
         \/ \E w \in Workers : \E from, r, to : Begins(w, from, r, to)
<1>1. MainOutline => rSent' = rSent
  BY DEF MainOutline, Lists, SelectGenerator, StartThread, ReadCounter,
     TestsEmpty, Pops, RunOperation, Join, DestroyBackend, Report, rVars
<1> QED
  BY <1>1, StepOutline, SentCases DEF vars, rVars

LEMMA BegunResult ==
  ASSUME Base, NEW w \in Workers, NEW from, NEW r, NEW to, Begins(w, from, r, to)
  PROVE  /\ Len(rSent') = Len(rSent) + 1
         /\ rSent'[Len(rSent) + 1] = r
         /\ \A k \in 1 .. Len(rSent) : rSent'[k] = rSent[k]
         /\ r[1] = <<fVal[w], SentKind(from)>>
         /\ Owns(w) /\ FileOf(w) = fVal[w]
         /\ from \in {"unreadable", "push"} => Fresh(w)
         /\ ~Fresh(w)'
<1>1. r \in Results
  BY SentIsResult DEF Begins
<1>2. /\ Len(rSent') = Len(rSent) + 1 /\ rSent'[Len(rSent) + 1] = r
      /\ \A k \in 1 .. Len(rSent) : rSent'[k] = rSent[k]
  BY <1>1, FileTypes, AppendAt DEF Begins
<1>3. r[1] = <<fVal[w], SentKind(from)>>
  <2>1. CASE from = "push"
    <3>1. \E e : Calls(r, fVal[w], e)
      BY <2>1, ParsedCalls DEF Begins, SendPlan
    <3> QED
      BY <2>1, <3>1, CallsEnds DEF SentKind
  <2>2. CASE from # "push"
    BY <2>2 DEF Begins, SendPlan, SentKind
  <2> QED
    BY <2>1, <2>2
<1>4. wPc[w] \in HoldingPCs /\ fPc[w] \notin ReadPCs
  BY OutsideQueues DEF Begins, HoldingPCs, ReadPCs
<1>5. Owns(w) /\ FileOf(w) = fVal[w]
  BY <1>4 DEF Owns, FileOf
<1>6. from \in {"unreadable", "push"} => Fresh(w)
  BY DEF Begins, Fresh
<1>7. ~Fresh(w)'
  BY <1>4 DEF Begins, Fresh, fVars, SendPCs, SendingPCs
<1> QED
  BY <1>2, <1>3, <1>5, <1>6, <1>7

\* A worker lets go of a fresh file by sending it, whole or as unreadable.
LEMMA FreshUntilSent ==
  ASSUME Base, NEW w \in Workers, WorkerOutline(w), Fresh(w), ~Fresh(w)'
  PROVE  \E from, r, to : Begins(w, from, r, to)
<1>0. wPc \in [Workers -> WorkerPCs]
  BY FileTypes
<1>1. ~Tests(w)
  BY OutsideQueues DEF Tests, Fresh
<1>2. ~Takes(w)
  BY <1>0 DEF Takes, Fresh, WGoto, TryPopPCs, ReadPCs
<1>3. ~LoadFile(w) /\ ~Parse(w)
  BY <1>0, OutsideQueues DEF LoadFile, Parse, Fresh, WGoto, fVars, rVars, SendingPCs
<1>4. ~Parsed(w) /\ ~Finish(w)
  BY OutsideQueues DEF Parsed, Finish, Fresh, ReadPCs
<1>5. ASSUME NEW from, NEW r, NEW to, SendPlan(w, from, r, to), Sends(w, from, r, to)
      PROVE  Begins(w, from, r, to)
  <2>1. rPc[w] = "idle"
    BY <1>5, OutsideQueues DEF Sends, SendPlan, Fresh, SendingPCs, HoldingPCs, ReadPCs
  <2> QED
    BY <1>5, <2>1 DEF Sends, Begins, SendPlan, SendingPCs, SendPCs
<1> QED
  BY <1>1, <1>2, <1>3, <1>4, <1>5 DEF WorkerOutline

LEMMA FreshSends ==
  ASSUME Base, NEW w \in Workers, Fresh(w),
         NEW from, NEW r, NEW to, Begins(w, from, r, to)
  PROVE  from \in {"unreadable", "push"}
BY OutsideQueues DEF Begins, Fresh, SendingPCs, HoldingPCs, ReadPCs

LEMMA TakenGrows ==
  ASSUME Base, [Next]_vars
  PROVE  fTail \in Nat /\ fTail' \in Nat /\ fTail' >= fTail
<1>1. CASE MainOutline
  BY <1>1, FileTypes DEF MainOutline, Lists, SelectGenerator, StartThread, ReadCounter,
     TestsEmpty, Pops, RunOperation, Join, DestroyBackend, Report, fVars
<1>2. ASSUME NEW w \in Workers, WorkerOutline(w)
      PROVE  fTail' \in Nat /\ fTail' >= fTail
  BY <1>2, OwnsStep, FileTypes
<1> QED
  BY <1>1, <1>2, StepOutline, FileTypes DEF vars, fVars

LEMMA SentAfterTakenStep ==
  ASSUME Base, OneOwner, SentAfterTaken, [Next]_vars
  PROVE  SentAfterTaken'
<1>0. fTail \in Nat /\ fTail' \in Nat /\ fTail' >= fTail
  BY TakenGrows
<1>1. CASE rSent' = rSent
  BY <1>0, <1>1 DEF SentAfterTaken, About
<1>2. ASSUME NEW w \in Workers, NEW from, NEW r, NEW to, Begins(w, from, r, to)
      PROVE  SentAfterTaken'
  <2>1. r[1][1] \in 1 .. fTail
    BY <1>2, BegunResult DEF OneOwner
  <2>2. ASSUME NEW k \in 1 .. Len(rSent')
        PROVE  rSent'[k][1][1] \in 1 .. fTail
    <3>1. CASE k = Len(rSent) + 1
      BY <1>2, <2>1, <3>1, BegunResult
    <3>2. CASE k \in 1 .. Len(rSent)
      BY <1>2, <3>2, BegunResult DEF SentAfterTaken, About
    <3> QED
      BY <1>2, <3>1, <3>2, BegunResult, FileTypes
  <2> QED
    BY <1>0, <2>2 DEF SentAfterTaken, About
<1> QED
  BY <1>1, <1>2, SomeoneBegins

LEMMA SentOnceStep ==
  ASSUME Base, SentOnce, Unsaid, [Next]_vars
  PROVE  SentOnce'
<1>1. CASE rSent' = rSent
  BY <1>1 DEF SentOnce, About, Kind
<1>2. ASSUME NEW w \in Workers, NEW from, NEW r, NEW to, Begins(w, from, r, to)
      PROVE  SentOnce'
  <2> DEFINE n == Len(rSent)
             f == fVal[w]
  <2>0. n \in Nat /\ UnsaidBy(w) /\ wPc[w] = from /\ rPc[w] = "idle" /\ from \in SendingPCs
    BY <1>2, FileTypes DEF Begins, Unsaid
  <2>1. /\ Len(rSent') = n + 1 /\ rSent'[n + 1] = r
        /\ \A k \in 1 .. n : rSent'[k] = rSent[k]
        /\ r[1] = <<f, SentKind(from)>>
        /\ FileOf(w) = f
        /\ from \in {"unreadable", "push"} => Fresh(w)
    BY <1>2, BegunResult
  <2>2. ASSUME NEW j \in 1 .. n, About(j) = f
        PROVE  /\ SentKind(from) # Kind(j)
               /\ SentKind(from) # "log_unreadable" /\ Kind(j) # "log_unreadable"
    <3>1. from \in {"error", "profile"}
      BY <2>0, <2>1, <2>2 DEF UnsaidBy, SendingPCs
    <3>2. PICK b \in 1 .. n : About(b) = f /\ Kind(b) = "begin"
      BY <2>0, <3>1 DEF UnsaidBy, Said
    <3>3. Kind(j) # "log_unreadable"
      BY <2>2, <3>2 DEF SentOnce
    <3>4. ~Said(f, SentKind(from)) /\ SentKind(from) # "log_unreadable"
      BY <2>0, <3>1 DEF UnsaidBy, SentKind
    <3>5. SentKind(from) # Kind(j)
      BY <2>2, <3>4 DEF Said
    <3> QED
      BY <3>3, <3>4, <3>5
  <2> HIDE DEF n, f
  <2>3. ASSUME NEW j \in 1 .. n + 1, NEW k \in 1 .. n + 1, j # k,
               rSent'[j][1][1] = rSent'[k][1][1]
        PROVE  rSent'[j][1][2] # rSent'[k][1][2] /\ rSent'[j][1][2] # "log_unreadable"
    <3>1. CASE j \in 1 .. n /\ k \in 1 .. n
      BY <2>1, <2>3, <3>1 DEF SentOnce, About, Kind, n
    <3>2. CASE j = n + 1 /\ k \in 1 .. n
      BY <2>1, <2>2, <2>3, <3>2 DEF About, Kind
    <3>3. CASE k = n + 1 /\ j \in 1 .. n
      BY <2>1, <2>2, <2>3, <3>3 DEF About, Kind
    <3> QED
      BY <2>0, <2>3, <3>1, <3>2, <3>3
  <2> QED
    BY <2>1, <2>3 DEF SentOnce, About, Kind
<1> QED
  BY <1>1, <1>2, SomeoneBegins

\* What was said of a file stays said; a step says no more than one thing.
LEMMA SaidStays ==
  ASSUME Base, [Next]_vars, NEW f, NEW m, Said(f, m)
  PROVE  \E k \in 1 .. Len(rSent') : rSent'[k][1][1] = f /\ rSent'[k][1][2] = m
<1>1. PICK k \in 1 .. Len(rSent) : About(k) = f /\ Kind(k) = m
  BY DEF Said
<1>2. k \in 1 .. Len(rSent') /\ rSent'[k] = rSent[k]
  BY SentGrows
<1> QED
  BY <1>1, <1>2 DEF About, Kind

\* The part of Unsaid about a worker that sends nothing and keeps its file.
LEMMA UnsaidKept ==
  ASSUME Base, NEW u \in Workers, UnsaidBy(u),
         rSent' = rSent, fVal'[u] = fVal[u],
         Fresh(u)' => Fresh(u) /\ FileOf(u)' = FileOf(u),
         wPc'[u] = wPc[u] \/ wPc'[u] \notin {"push", "parsed", "error", "profile"},
         rPc'[u] = rPc[u], ~Pushed(u) => ~Pushed(u)'
  PROVE  UnsaidBy(u)'
BY DEF UnsaidBy, Said, About, Kind

\* The same while another worker says m of another file.
LEMMA UnsaidOthers ==
  ASSUME Base, [Next]_vars, OneOwner, NEW w \in Workers, NEW u \in Workers \ {w}, UnsaidBy(u),
         NEW from, NEW r, NEW to, Begins(w, from, r, to), WorkerOutline(w)
  PROVE  UnsaidBy(u)'
<1> DEFINE n == Len(rSent)
<1>0. n \in Nat
  BY FileTypes
<1>1. /\ Len(rSent') = n + 1 /\ rSent'[n + 1] = r /\ r[1][1] = FileOf(w)
      /\ \A k \in 1 .. n : rSent'[k] = rSent[k]
      /\ Owns(w)
  BY BegunResult
<1>2. /\ Fresh(u)' <=> Fresh(u)
      /\ FileOf(u)' = FileOf(u) /\ wPc'[u] = wPc[u] /\ rPc'[u] = rPc[u] /\ fVal'[u] = fVal[u]
  BY OwnsOthers, OtherWorkers
<1>3. Owns(u) => FileOf(w) # FileOf(u)
  BY <1>1 DEF OneOwner
<1>4. /\ Fresh(u) => Owns(u)
      /\ wPc[u] \in HoldingPCs => Owns(u) /\ FileOf(u) = fVal[u]
  BY OutsideQueues DEF Owns
<1> HIDE DEF n
<1>5. Fresh(u)' => \A k \in 1 .. n + 1 : rSent'[k][1][1] # FileOf(u)
  <2> SUFFICES ASSUME Fresh(u), NEW k \in 1 .. n + 1
               PROVE  rSent'[k][1][1] # FileOf(u)
    BY <1>2
  <2>1. CASE k = n + 1
    BY <1>1, <1>3, <1>4, <2>1
  <2>2. CASE k \in 1 .. n
    BY <1>1, <2>2 DEF UnsaidBy, About, n
  <2> QED
    BY <1>0, <2>1, <2>2
<1>6. ASSUME wPc[u] \in HoldingPCs, NEW m, ~Said(fVal[u], m)
      PROVE  \A k \in 1 .. n + 1 : ~(rSent'[k][1][1] = fVal[u] /\ rSent'[k][1][2] = m)
  <2> SUFFICES ASSUME NEW k \in 1 .. n + 1
               PROVE  ~(rSent'[k][1][1] = fVal[u] /\ rSent'[k][1][2] = m)
    OBVIOUS
  <2>1. CASE k = n + 1
    BY <1>1, <1>3, <1>4, <1>6, <2>1
  <2>2. CASE k \in 1 .. n
    BY <1>1, <1>6, <2>2 DEF Said, About, Kind, n
  <2> QED
    BY <1>0, <2>1, <2>2
<1>7. Said(fVal[u], "begin") =>
        \E k \in 1 .. n + 1 : rSent'[k][1][1] = fVal[u] /\ rSent'[k][1][2] = "begin"
  BY <1>1, SaidStays
<1>8. Pushed(u)' <=> Pushed(u)
  BY <1>2 DEF Pushed
<1>9. \/ wPc'[u] \in {"push", "parsed"}
      \/ wPc'[u] = "error" /\ rPc'[u] = "idle"
      => \A k \in 1 .. n + 1 : ~(rSent'[k][1][1] = fVal[u] /\ rSent'[k][1][2] = "log_error")
  BY <1>2, <1>6 DEF UnsaidBy, HoldingPCs, SendingPCs
<1>10. \/ wPc'[u] \in {"push", "parsed", "error"}
       \/ wPc'[u] = "profile" /\ rPc'[u] = "idle"
       => \A k \in 1 .. n + 1 :
            ~(rSent'[k][1][1] = fVal[u] /\ rSent'[k][1][2] = "log_profile")
  BY <1>2, <1>6 DEF UnsaidBy, HoldingPCs, SendingPCs
<1>11. Pushed(u)' \/ wPc'[u] \in {"error", "profile"} =>
         \E k \in 1 .. n + 1 : rSent'[k][1][1] = fVal[u] /\ rSent'[k][1][2] = "begin"
  BY <1>2, <1>7, <1>8 DEF UnsaidBy
<1> QED
  BY <1>1, <1>2, <1>5, <1>9, <1>10, <1>11 DEF UnsaidBy, Said, About, Kind

\* The worker that sends r has now said it, and no more.
LEMMA UnsaidBegins ==
  ASSUME Base, [Next]_vars, NEW w \in Workers, UnsaidBy(w),
         NEW from, NEW r, NEW to, Begins(w, from, r, to)
  PROVE  UnsaidBy(w)'
<1> DEFINE n == Len(rSent)
           f == fVal[w]
<1>0. n \in Nat
  BY FileTypes
<1>1. /\ Len(rSent') = n + 1 /\ rSent'[n + 1] = r /\ r[1] = <<f, SentKind(from)>>
      /\ \A k \in 1 .. n : rSent'[k] = rSent[k]
      /\ FileOf(w) = f /\ ~Fresh(w)'
      /\ from \in {"unreadable", "push"} => Fresh(w)
  BY BegunResult
<1>2. /\ wPc'[w] = from /\ wPc[w] = from /\ fVal'[w] = f /\ from \in SendingPCs
      /\ rPc[w] = "idle" /\ rPc'[w] # "idle"
  BY DEF Begins, fVars, SendPCs
<1>3. ASSUME NEW m, ~Said(f, m), m # SentKind(from)
      PROVE  \A k \in 1 .. n + 1 : ~(rSent'[k][1][1] = f /\ rSent'[k][1][2] = m)
  BY <1>0, <1>1, <1>3 DEF Said, About, Kind
<1>4. from \in {"unreadable", "push"} => \A m : ~Said(f, m)
  BY <1>1 DEF UnsaidBy, Said
<1>5. from \in {"push", "error", "profile"} =>
        \E k \in 1 .. n + 1 : rSent'[k][1][1] = f /\ rSent'[k][1][2] = "begin"
  <2>1. CASE from = "push"
    BY <1>0, <1>1, <2>1 DEF SentKind
  <2>2. CASE from \in {"error", "profile"}
    BY <1>1, <1>2, <2>2, SaidStays DEF UnsaidBy
  <2> QED
    BY <2>1, <2>2
<1>6. from = "push" => SentKind(from) = "begin"
  BY DEF SentKind
<1>7. from = "error" => SentKind(from) = "log_error"
  BY DEF SentKind
<1> HIDE DEF n, f
<1>8. /\ from = "push" => \A k \in 1 .. n + 1 :
           ~(rSent'[k][1][1] = f /\ rSent'[k][1][2] = "log_error")
      /\ from \in {"push", "error"} => \A k \in 1 .. n + 1 :
           ~(rSent'[k][1][1] = f /\ rSent'[k][1][2] = "log_profile")
  <2>1. from = "push" => ~Said(f, "log_error") /\ ~Said(f, "log_profile")
    BY <1>4
  <2>2. from = "error" => ~Said(f, "log_profile")
    BY <1>2 DEF UnsaidBy, f
  <2> QED
    BY <1>3, <1>6, <1>7, <2>1, <2>2
<1> QED
  BY <1>1, <1>2, <1>5, <1>8 DEF UnsaidBy, Said, About, Kind, Pushed, SendingPCs

\* A worker takes a file of which nothing was sent.
LEMMA UnsaidTakes ==
  ASSUME Base, SentAfterTaken, NEW w \in Workers,
         wPc'[w] = "take", FileOf(w)' = fTail + 1, rSent' = rSent
  PROVE  UnsaidBy(w)'
<1>1. \A k \in 1 .. Len(rSent') : rSent'[k][1][1] # fTail + 1
  BY FileTypes DEF SentAfterTaken, About
<1> QED
  BY <1>1 DEF UnsaidBy, About, Pushed

\* The other steps of the worker that holds the file.
LEMMA UnsaidMoves ==
  ASSUME Base, NEW w \in Workers, UnsaidBy(w), WorkerOutline(w), rSent' = rSent,
         Fresh(w)' => Fresh(w) /\ FileOf(w)' = FileOf(w)
  PROVE  UnsaidBy(w)'
<1>0. wPc \in [Workers -> WorkerPCs]
  BY FileTypes
<1>1. /\ UNCHANGED <<About(1), Kind(1)>>
      /\ \A f, m : Said(f, m)' <=> Said(f, m)
      /\ Fresh(w)' => \A k \in 1 .. Len(rSent') : About(k)' # FileOf(w)'
  BY DEF UnsaidBy, Said, About, Kind
<1>2. CASE Tests(w) \/ Takes(w) \/ LoadFile(w) \/ Finish(w)
  <2>1. wPc'[w] \notin {"push", "parsed", "error", "profile"}
    BY <1>0, <1>2 DEF Tests, Takes, LoadFile, Finish, WGoto
  <2> QED
    BY <1>1, <2>1 DEF UnsaidBy, Pushed
<1>3. CASE Parse(w)
  <2>1. /\ wPc'[w] \in {"parse", "push"} /\ rPc'[w] = "idle" /\ fVal'[w] = fVal[w]
        /\ Fresh(w) /\ FileOf(w) = fVal[w]
    BY <1>0, <1>3, OutsideQueues DEF Parse, WGoto, rVars, fVars, Fresh, HoldingPCs,
       SendingPCs
  <2>2. ~Said(fVal[w], "log_error") /\ ~Said(fVal[w], "log_profile")
    BY <2>1 DEF UnsaidBy, Said
  <2> QED
    BY <1>1, <2>1, <2>2 DEF UnsaidBy, Pushed, Said, About, Kind
<1>4. CASE Parsed(w)
  <2>1. /\ wPc[w] = "parsed" /\ wPc'[w] \in {"error", "profile", "test"}
        /\ fVal'[w] = fVal[w]
    BY <1>0, <1>4 DEF Parsed, WGoto, fVars
  <2>2. /\ ~Said(fVal[w], "log_error") /\ ~Said(fVal[w], "log_profile")
        /\ Said(fVal[w], "begin")
    BY <2>1 DEF UnsaidBy, Pushed
  <2> QED
    BY <1>1, <2>1, <2>2 DEF UnsaidBy, Pushed, Said, About, Kind
<1>5. ASSUME NEW from, NEW r, NEW to, SendPlan(w, from, r, to), Sends(w, from, r, to)
      PROVE  UnsaidBy(w)'
  <2>1. rPc[w] # "idle" /\ fVal'[w] = fVal[w] /\ wPc[w] = from
    BY <1>5, FileTypes, SentIsResult, AppendAt DEF Sends, fVars, SendPCs
  <2>2. CASE rPc'[w] \in SendPCs /\ UNCHANGED wPc
    BY <1>1, <2>1, <2>2 DEF UnsaidBy, Pushed, SendPCs, Said, About, Kind
  <2>3. CASE rPc'[w] = "idle" /\ WGoto(w, to)
    <3>1. wPc'[w] = to
      BY <1>0, <2>3 DEF WGoto
    <3>2. /\ from = "push" => to = "parsed"
          /\ from = "error" => to \in {"profile", "test"}
          /\ from \in {"unreadable", "profile"} => to = "test"
          /\ from \in {"push", "error", "unreadable", "profile"}
      BY <1>5 DEF SendPlan
    <3>3. /\ from = "push" => /\ ~Said(fVal[w], "log_error") /\ ~Said(fVal[w], "log_profile")
                              /\ Said(fVal[w], "begin")
          /\ from = "error" => ~Said(fVal[w], "log_profile") /\ Said(fVal[w], "begin")
      BY <2>1 DEF UnsaidBy, Pushed
    <3> QED
      BY <1>1, <2>1, <2>3, <3>1, <3>2, <3>3 DEF UnsaidBy, Pushed, Said, About, Kind
  <2> QED
    BY <1>5, <2>1, <2>2, <2>3 DEF Sends
<1> QED
  BY <1>2, <1>3, <1>4, <1>5 DEF WorkerOutline

LEMMA UnsaidStep ==
  ASSUME Base, OneOwner, SentAfterTaken, Unsaid, [Next]_vars
  PROVE  Unsaid'
<1>1. CASE MainOutline
  <2> SUFFICES ASSUME NEW u \in Workers PROVE UnsaidBy(u)'
    BY DEF Unsaid
  <2>1. UnsaidBy(u)
    BY DEF Unsaid
  <2> QED
    BY <1>1, <2>1, MainLeaves, OwnsMain, UnsaidKept DEF Pushed
<1>2. ASSUME NEW w \in Workers, WorkerOutline(w)
      PROVE  Unsaid'
  <2>0. \A u \in Workers : UnsaidBy(u)
    BY DEF Unsaid
  <2>1. CASE rSent' = rSent
    <3>1. ASSUME NEW u \in Workers \ {w} PROVE UnsaidBy(u)'
      BY <1>2, <2>0, <2>1, OwnsOthers, OtherWorkers, UnsaidKept DEF Pushed
    <3>2. UnsaidBy(w)'
      <4>1. CASE wPc'[w] = "take" /\ FileOf(w)' = fTail + 1
        BY <2>1, <4>1, UnsaidTakes
      <4>2. CASE /\ Owns(w)' => Owns(w) /\ FileOf(w)' = FileOf(w)
                 /\ Fresh(w)' => Fresh(w) /\ rSent' = rSent
        <5>1. Fresh(w)' => Owns(w)'
          BY <1>2, BaseStep, OutsideQueuesNext
        <5> QED
          BY <1>2, <2>0, <2>1, <4>2, <5>1, UnsaidMoves
      <4> QED
        BY <1>2, <4>1, <4>2, OwnsStep
    <3> QED
      BY <3>1, <3>2 DEF Unsaid
  <2>2. ASSUME NEW from, NEW r, NEW to, Begins(w, from, r, to)
        PROVE  Unsaid'
    <3>1. ASSUME NEW u \in Workers \ {w} PROVE UnsaidBy(u)'
      BY <1>2, <2>0, <2>2, UnsaidOthers
    <3>2. UnsaidBy(w)'
      BY <2>0, <2>2, UnsaidBegins
    <3> QED
      BY <3>1, <3>2 DEF Unsaid
  <2> QED
    BY <1>2, <2>1, <2>2, SentCases
<1>3. CASE UNCHANGED vars
  <2> SUFFICES ASSUME NEW u \in Workers PROVE UnsaidBy(u)'
    BY DEF Unsaid
  <2>1. UnsaidBy(u)
    BY DEF Unsaid
  <2>2. /\ rSent' = rSent /\ fVal' = fVal /\ wPc' = wPc /\ rPc' = rPc
    BY <1>3 DEF vars, fVars, rVars, workerVars
  <2> QED
    BY <1>3, <2>1, <2>2, SameFiles, UnsaidKept DEF Pushed
<1> QED
  BY <1>1, <1>2, <1>3, StepOutline

LEMMA NoneForgottenStep ==
  ASSUME Base, NoneForgotten, [Next]_vars
  PROVE  NoneForgotten'
<1>0. fTail \in Nat /\ fTail' \in Nat /\ fTail' >= fTail
  BY TakenGrows
<1>1. ASSUME NEW f, Said(f, "begin") \/ Said(f, "log_unreadable")
      PROVE  \E k \in 1 .. Len(rSent') :
               rSent'[k][1][1] = f /\ rSent'[k][1][2] \in {"begin", "log_unreadable"}
  BY <1>1, SaidStays
<1> DEFINE Kept(f) ==
      \/ \E k \in 1 .. Len(rSent') :
           rSent'[k][1][1] = f /\ rSent'[k][1][2] \in {"begin", "log_unreadable"}
      \/ \E u \in Workers : Fresh(u)' /\ FileOf(u)' = f
<1>2. (\A f \in 1 .. fTail' : Kept(f)) => NoneForgotten'
  BY DEF NoneForgotten, Said, About, Kind
<1>3. CASE MainOutline
  <2>1. \A w \in Workers : (Fresh(w)' <=> Fresh(w)) /\ FileOf(w)' = FileOf(w)
    BY <1>3, OwnsMain
  <2>2. fTail' = fTail \/ Workers = {}
    BY <1>3, MainLeaves
  <2>3. Workers # {}
    BY WorkersAssumption, NumFilesAssumption, FS_EmptySet
  <2> QED
    BY <1>1, <1>2, <2>1, <2>2, <2>3 DEF NoneForgotten
<1>4. ASSUME NEW w \in Workers, WorkerOutline(w)
      PROVE  NoneForgotten'
  <2>0. \A u \in Workers \ {w} : (Fresh(u)' <=> Fresh(u)) /\ FileOf(u)' = FileOf(u)
    BY <1>4, OwnsOthers
  <2>1. CASE fPc'[w] \in ReadPCs /\ ~Owns(w) /\ fTail' = fTail + 1 /\ FileOf(w)' = fTail + 1
    <3>1. Fresh(w)' /\ Kept(fTail + 1)
      BY <2>1 DEF Fresh
    <3>2. ~Fresh(w)
      BY <2>1, OutsideQueues
    <3>3. ASSUME NEW f \in 1 .. fTail PROVE Kept(f)
      BY <1>1, <2>0, <3>2 DEF NoneForgotten
    <3> HIDE DEF Kept
    <3>4. \A f \in 1 .. fTail' : f = fTail + 1 \/ f \in 1 .. fTail
      BY <1>0, <2>1
    <3> QED
      BY <1>2, <3>1, <3>3, <3>4
  <2>2. CASE fTail' = fTail
    <3>1. ASSUME Fresh(w), ~Fresh(w)'
          PROVE  \E k \in 1 .. Len(rSent') :
                   /\ rSent'[k][1][1] = FileOf(w)
                   /\ rSent'[k][1][2] \in {"begin", "log_unreadable"}
      <4>1. PICK from, r, to : Begins(w, from, r, to)
        BY <1>4, <3>1, FreshUntilSent
      <4>2. SentKind(from) \in {"begin", "log_unreadable"}
        BY <3>1, <4>1, FreshSends DEF SentKind
      <4> QED
        BY <4>1, <4>2, BegunResult, FileTypes
    <3>2. Fresh(w)' => Fresh(w) /\ FileOf(w)' = FileOf(w)
      <4>1. Fresh(w)' => Owns(w)'
        BY BaseStep, OutsideQueuesNext
      <4> QED
        BY <1>0, <1>4, <2>2, <4>1, OwnsStep
    <3>3. ASSUME NEW f \in 1 .. fTail PROVE Kept(f)
      BY <1>1, <2>0, <3>1, <3>2 DEF NoneForgotten
    <3> QED
      BY <1>2, <2>2, <3>3
  <2> QED
    BY <1>4, <2>1, <2>2, OwnsStep
<1>5. CASE UNCHANGED vars
  <2>1. fTail' = fTail
    BY <1>5 DEF vars, fVars
  <2> QED
    BY <1>1, <1>2, <1>5, <2>1, SameFiles DEF NoneForgotten
<1> QED
  BY <1>3, <1>4, <1>5, StepOutline

-----------------------------------------------------------------------------
(* No worker leaves while a file is left.                                  *)

LEMMA LeavesWhenEmptyStep ==
  ASSUME Base, LeavesWhenEmpty, [Next]_vars
  PROVE  LeavesWhenEmpty'
<1>0. /\ fTail \in Nat /\ fTail' \in Nat /\ fTail' >= fTail /\ NumFiles \in Nat
      /\ fTail \in 0 .. NumFiles /\ fTail' \in 0 .. NumFiles
      /\ wPc \in [Workers -> WorkerPCs] /\ fTicket' \in [Threads -> Nat]
      /\ fTicket \in [Threads -> Nat] /\ Workers \subseteq Threads /\ fHead \in Nat
  BY TakenGrows, FileTypes, FileQueueStep, FileQueueFactsNext
<1> DEFINE Leaves(w) ==
      /\ fPc'[w] = "empty_tail" => fTicket'[w] = NumFiles
      /\ fPc'[w] = "empty_head" => fTicket'[w] <= fTail'
      /\ wPc'[w] \in {"finish", "leaving", "exited"} => fTail' = NumFiles
<1>1. ASSUME NEW w \in Workers, fPc'[w] = fPc[w], fTicket'[w] = fTicket[w],
             wPc'[w] = wPc[w] \/ wPc'[w] \notin {"finish", "leaving", "exited"}
                \/ wPc[w] \in {"finish", "leaving", "exited"}
      PROVE  Leaves(w)
  BY <1>0, <1>1 DEF LeavesWhenEmpty
<1>2. (\A w \in Workers : Leaves(w)) => LeavesWhenEmpty'
  BY DEF LeavesWhenEmpty
<1> HIDE DEF Leaves
<1>3. CASE MainOutline
  BY <1>1, <1>2, <1>3, MainLeaves
<1>4. ASSUME NEW w \in Workers, WorkerOutline(w)
      PROVE  LeavesWhenEmpty'
  <2>1. \A u \in Workers \ {w} : Leaves(u)
    BY <1>1, <1>4, OtherWorkers
  <2>2. Leaves(w)
    <3>1. CASE Tests(w)
      <4>0. fHead = NumFiles
        BY <3>1 DEF Tests, Base, ThreadsCounted, FilesListed
      <4>1. CASE /\ fPc[w] = "idle"
                 /\ \/ fPc'[w] = "empty_tail" /\ fTicket'[w] = fHead
                    \/ fPc'[w] = "empty_head" /\ fTicket'[w] <= fTail
                 /\ UNCHANGED wPc
        BY <1>0, <3>1, <4>0, <4>1 DEF Tests, Leaves
      <4>2. CASE /\ fPc[w] \in EmptyPCs /\ fPc'[w] = "idle"
                 /\ \/ WGoto(w, "take")
                    \/ /\ WGoto(w, "finish")
                       /\ fPc[w] = "empty_head" => fHead <= fTicket[w]
                       /\ fPc[w] = "empty_tail" => fTicket[w] <= fTail
        <5>1. wPc'[w] = "finish" => fTail = NumFiles
          BY <1>0, <4>0, <4>2 DEF LeavesWhenEmpty, EmptyPCs, WGoto
        <5>2. wPc'[w] \in {"take", "finish"} /\ fTail' = fTail
          BY <1>0, <3>1, <4>2 DEF WGoto, Tests
        <5> QED
          BY <4>2, <5>1, <5>2 DEF Leaves
      <4> QED
        BY <3>1, <4>1, <4>2 DEF Tests
    <3>2. CASE Takes(w)
      BY <1>0, <3>2 DEF Takes, WGoto, Leaves, TryPopPCs, ReadPCs
    <3>3. CASE LoadFile(w) \/ Parse(w) \/ Parsed(w)
      BY <1>0, <1>1, <3>3 DEF LoadFile, Parse, Parsed, WGoto, fVars
    <3>4. CASE Finish(w)
      BY <1>0, <1>1, <3>4 DEF Finish, WGoto, fVars
    <3>5. ASSUME NEW from, NEW r, NEW to, SendPlan(w, from, r, to), Sends(w, from, r, to)
          PROVE  Leaves(w)
      BY <1>0, <1>1, <3>5 DEF Sends, SendPlan, WGoto, fVars
    <3> QED
      BY <1>4, <3>1, <3>2, <3>3, <3>4, <3>5 DEF WorkerOutline
  <2> QED
    BY <1>2, <2>1, <2>2
<1>5. CASE UNCHANGED vars
  BY <1>1, <1>2, <1>5 DEF vars, fVars, workerVars
<1> QED
  BY <1>3, <1>4, <1>5, StepOutline

LEMMA SomeStartedStep ==
  ASSUME Base, SomeStarted, [Next]_vars
  PROVE  SomeStarted'
<1>0. wPc \in [Workers -> WorkerPCs] /\ cnt \in Nat
  BY FileTypes, NumFilesAssumption DEF Base, Types
<1>1. CASE SelectGenerator
  BY <1>1 DEF SelectGenerator, SomeStarted, OneThread
<1>2. CASE StartThread
  <2>1. CASE \E w \in Workers : wPc' = [wPc EXCEPT ![w] = "test"]
    BY <1>0, <2>1 DEF SomeStarted
  <2>2. CASE cnt = 0 /\ UNCHANGED <<wPc, cnt>>
    BY <1>2, <2>2 DEF StartThread, SomeStarted
  <2> QED
    BY <1>2, <2>1, <2>2 DEF StartThread
<1>3. CASE Lists \/ ReadCounter \/ TestsEmpty \/ Pops \/ RunOperation \/ Join
           \/ DestroyBackend \/ Report
  BY <1>3 DEF Lists, ReadCounter, TestsEmpty, Pops, RunOperation, Join, DestroyBackend,
     Report, workerVars, SomeStarted
<1>4. ASSUME NEW w \in Workers, WorkerOutline(w)
      PROVE  SomeStarted'
  <2>1. \E l \in WorkerPCs : l # "none" /\ wPc' = [wPc EXCEPT ![w] = l]
    <3>1. CASE Finish(w)
      BY <3>1 DEF Finish, WGoto, WorkerPCs
    <3>2. CASE ~Finish(w)
      BY <1>4, <3>2, WorkerKeepsRunning DEF Base, OutPCs
    <3> QED
      BY <3>1, <3>2
  <2> QED
    BY <1>0, <2>1 DEF SomeStarted
<1>5. CASE UNCHANGED vars
  BY <1>5 DEF vars, mainVars, workerVars, SomeStarted
<1> QED
  BY <1>1, <1>2, <1>3, <1>4, <1>5, StepOutline DEF MainOutline

-----------------------------------------------------------------------------
(* What is run is what was sent.                                           *)

LEMMA LogSoundStep ==
  ASSUME Base, LogInv, LogSound, [Next]_vars
  PROVE  LogSound'
<1>0. /\ log \in Seq(Operations) /\ rTail \in Nat /\ rTail' \in Nat /\ rTail' >= rTail
  <2>1. Quiet \/ TestsEmpty \/ RunOperation \/ GoesOn \/ Pops
          => rTail' = rTail \/ rTail' = rTail + 1
    BY DEF Quiet, TestsEmpty, RunOperation, GoesOn, Pops, rVars
  <2>2. \A w, r : Adds(w, r) => rTail' = rTail
    BY DEF Adds
  <2> QED
    BY <2>1, <2>2, LogOutline, SentTypes
<1>1. ASSUME NEW k \in 1 .. rTail, NEW j \in 1 .. Executed(k)
      PROVE  k \in 1 .. rTail' /\ j \in 1 .. Executed(k)' /\ rSent'[k] = rSent[k]
  <2>1. k \in 1 .. rTail' /\ k # rTail + 1
    BY <1>0
  <2>2. Executed(k)' = Executed(k) \/ (Executed(k) \in Nat /\ Executed(k)' = Executed(k) + 1)
    BY <2>1, ExecutedStep DEF LogInv
  <2> QED
    BY <2>1, <2>2, ExecutedStep DEF LogInv
<1>2. ASSUME NEW i \in 1 .. Len(log)
      PROVE  \E k \in 1 .. rTail' : \E j \in 1 .. Executed(k)' : log[i] = rSent'[k][j]
  <2>1. PICK k \in 1 .. rTail : \E j \in 1 .. Executed(k) : log[i] = rSent[k][j]
    BY DEF LogSound
  <2>2. PICK j \in 1 .. Executed(k) : log[i] = rSent[k][j]
    BY <2>1
  <2> QED
    BY <1>1, <2>2
<1>3. CASE log' = log
  BY <1>2, <1>3 DEF LogSound
<1>4. CASE RunOperation /\ result # NoResult /\ log' = Append(log, Head(result))
           /\ Head(result) \in Operations
  <2>1. /\ Len(log) \in Nat /\ Len(log') = Len(log) + 1 /\ log'[Len(log) + 1] = Head(result)
        /\ \A i \in 1 .. Len(log) : log'[i] = log[i]
    BY <1>0, <1>4, AppendAt
  <2>2. PICK m \in 1 .. rTail' : m = rTail
    BY <1>0, <1>4, HeadOfPopped
  <2>3. Executed(m)' \in 1 .. Executed(m)' /\ Head(result) = rSent'[m][Executed(m)']
    BY <1>0, <1>4, <2>2, ExecutedStep DEF LogInv
  <2>4. ASSUME NEW i \in 1 .. Len(log) + 1
        PROVE  \E k \in 1 .. rTail' : \E j \in 1 .. Executed(k)' : log'[i] = rSent'[k][j]
    <3>1. CASE i = Len(log) + 1
      BY <2>1, <2>3, <3>1
    <3>2. CASE i \in 1 .. Len(log)
      BY <1>2, <2>1, <3>2
    <3> QED
      BY <2>1, <3>1, <3>2
  <2> QED
    BY <2>1, <2>4 DEF LogSound
<1> QED
  BY <1>3, <1>4, LogGrows

\* All of it.
SerialInv ==
  Base /\ LogInv /\ CountInv /\ LogSound /\ FilesInv /\ SomeStarted

LEMMA SerialInit ==
  ASSUME Init
  PROVE  LogSound /\ FilesInv /\ SomeStarted
<1>1. /\ rSent = << >> /\ log = << >> /\ fTail = 0 /\ mPc = "fill"
      /\ fPc = [t \in Threads |-> "idle"]
      /\ \A w \in Workers : wPc[w] = "none" /\ fPc[w] = "idle"
  BY DEF Init, fileQueue!Init, sharedQueue!Init, Threads
<1>2. \A w \in Workers : ~Owns(w) /\ ~Fresh(w) /\ ~Pushed(w)
  BY <1>1 DEF Owns, Fresh, Pushed, HoldingPCs, SendingPCs, ReadPCs
<1>3. LogSound /\ SomeStarted
  BY <1>1 DEF LogSound, SomeStarted
<1>4. OneOwner /\ SentOnce /\ SentAfterTaken
  BY <1>1, <1>2 DEF OneOwner, SentOnce, SentAfterTaken
<1>5. Unsaid /\ NoneForgotten /\ LeavesWhenEmpty
  BY <1>1, <1>2 DEF Unsaid, UnsaidBy, NoneForgotten, LeavesWhenEmpty
<1> QED
  BY <1>3, <1>4, <1>5 DEF FilesInv

LEMMA SerialStep ==
  ASSUME SerialInv, [Next]_vars
  PROVE  (LogSound /\ FilesInv /\ SomeStarted)'
BY LogSoundStep, OneOwnerStep, SentOnceStep, SentAfterTakenStep, UnsaidStep,
   NoneForgottenStep, LeavesWhenEmptyStep, SomeStartedStep DEF SerialInv, FilesInv

LEMMA SerialHolds == Spec => []SerialInv
<1>1. SerialInv /\ [Next]_vars => LogSound' /\ FilesInv' /\ SomeStarted'
  BY SerialStep
<1>2. Init => LogSound /\ FilesInv /\ SomeStarted
  BY SerialInit
<1> QED
  BY <1>1, <1>2, CountHolds, PTL DEF Spec, SerialInv

-----------------------------------------------------------------------------
(* As many files are parsed as there are, at most.                         *)

LEMMA WellSentOnce ==
  ASSUME SerialInv
  PROVE  Cardinality(SentWell) <= NumFiles
<1> USE DEF SerialInv
<1>0. IsFiniteSet(Files) /\ Cardinality(Files) = NumFiles
  <2>1. 1 \in Int /\ NumFiles \in Int /\ NumFiles >= 1
    BY NumFilesAssumption
  <2>2. /\ IsFiniteSet(1 .. NumFiles)
        /\ Cardinality(1 .. NumFiles) = IF 1 > NumFiles THEN 0 ELSE NumFiles - 1 + 1
    BY <2>1, FS_Interval
  <2> QED
    BY <2>1, <2>2 DEF Files
<1>1. ASSUME NEW k \in SentWell
      PROVE  About(k) \in Files /\ Kind(k) = "begin"
  <2>1. k \in 1 .. Len(rSent) /\ EndsWell(rSent[k]) /\ rSent[k] \in Results
    BY SentTypes DEF SentWell
  <2>2. PICK f \in Files : rSent[k] \in BackendCalls(f) \/ rSent[k] \in Messages(f)
    BY <2>1, ResultForm
  <2>3. rSent[k] \notin Messages(f)
    <3> SUFFICES ASSUME NEW m \in {"log_unreadable", "log_error", "log_profile"},
                        rSent[k] = << <<f, m>> >>
                 PROVE  FALSE
      BY DEF Messages
    <3>1. rSent[k][Len(rSent[k])] = <<f, m>>
      OBVIOUS
    <3> QED
      BY <2>1, <3>1 DEF EndsWell
  <2>4. PICK e : Calls(rSent[k], f, e)
    BY <2>2, <2>3, BackendCallsForm
  <2> QED
    BY <2>4, CallsEnds DEF About, Kind
<1> DEFINE g == [k \in SentWell |-> About(k)]
<1>2. g \in Injection(SentWell, Files)
  <2>1. g \in [SentWell -> Files]
    BY <1>1
  <2>2. ASSUME NEW j \in SentWell, NEW k \in SentWell, g[j] = g[k]
        PROVE  j = k
    <3>1. About(j) = About(k) /\ Kind(j) = Kind(k)
      BY <1>1, <2>2
    <3>2. j \in 1 .. Len(rSent) /\ k \in 1 .. Len(rSent)
      BY DEF SentWell
    <3> QED
      BY <3>1, <3>2 DEF FilesInv, SentOnce
  <2> QED
    BY <2>1, <2>2 DEF Injection, IsInjective
<1>3. Cardinality(SentWell) <= Cardinality(Files)
  BY <1>0, <1>2, FS_Injection
<1> QED
  BY <1>0, <1>3

\* The types of the variables (Reflector): among them, that no more files are
\* counted as parsed than were listed (main.cc, line 148).
THEOREM TypeCorrect == Spec => []TypeOK
<1>1. SerialInv => TypeOK
  <2> SUFFICES ASSUME SerialInv PROVE TypeOK
    OBVIOUS
  <2>1. fileQueue!TypeOK /\ sharedQueue!TypeOK
    BY FileQueueSame, SharedQueueSame DEF SerialInv, Base, FQ!IInv, RQ!IInv
  <2>2. Types
    BY DEF SerialInv, Base
  <2>3. filesParsed \in 0 .. NumFiles /\ NumFiles \in Nat
    <3>1. filesParsed + Cardinality(Uncounted) = Cardinality(SentWell)
      BY DEF SerialInv, CountInv, Balanced
    <3>2. Cardinality(Uncounted) \in Nat /\ Cardinality(SentWell) \in Nat
      BY CountedSetsFinite DEF SerialInv
    <3> QED
      BY <2>2, <3>1, <3>2, WellSentOnce, NumFilesAssumption DEF Types
  <2>4. reported \in -1 .. NumFiles
    BY <2>3 DEF SerialInv, CountInv, Reported
  <2> QED
    BY <2>1, <2>2, <2>3, <2>4 DEF Types, TypeOK
<1> QED
  BY <1>1, SerialHolds, PTL

-----------------------------------------------------------------------------
(* The run, as the backend sees it.                                        *)

\* Where in a Result an operation can be, and that all are about one file.
LEMMA OperationPlace ==
  ASSUME NEW r \in Results, NEW i \in 1 .. Len(r)
  PROVE  /\ Len(r) \in Nat \ {0} /\ r[1][1] \in Files
         /\ r[i] = <<r[1][1], r[i][2]>>
         /\ r[i][2] = "begin" => i = 1 /\ Len(r) > 1
         /\ r[i][2] \in {"end", "end_error"} => i = Len(r) /\ Len(r) > 1
         /\ r[i][2] = "log_unreadable" => i = 1 /\ Len(r) = 1
         /\ Len(r) > 1 => /\ r[1][2] = "begin"
                          /\ r[Len(r)][2] \in {"end", "end_error"}
<1>1. PICK f \in Files : r \in BackendCalls(f) \/ r \in Messages(f)
  BY ResultForm
<1>2. CASE r \in BackendCalls(f)
  <2>1. PICK e \in {"end", "end_error"} : Calls(r, f, e)
    BY <1>2, BackendCallsForm
  <2>2. /\ Len(r) \in Nat \ {0, 1} /\ r[1] = <<f, "begin">> /\ r[Len(r)] = <<f, e>>
        /\ \A j \in 2 .. Len(r) - 1 : r[j] = <<f, "decl">>
    BY <2>1, CallsEnds
  <2>3. CASE i = 1
    BY <2>2, <2>3
  <2>4. CASE i = Len(r)
    BY <2>2, <2>4
  <2>5. CASE i \in 2 .. Len(r) - 1
    BY <2>2, <2>5
  <2> QED
    BY <2>2, <2>3, <2>4, <2>5
<1>3. CASE r \in Messages(f)
  <2>1. PICK m \in {"log_unreadable", "log_error", "log_profile"} : r = << <<f, m>> >>
    BY <1>3 DEF Messages
  <2>2. Len(r) = 1 /\ i = 1 /\ r[i] = <<f, m>>
    BY <2>1
  <2> QED
    BY <2>1, <2>2
<1> QED
  BY <1>1, <1>2, <1>3

\* What is known of the Results of which something was run.
LEMMA ExecutedTypes ==
  ASSUME Base, LogInv, NEW k \in 1 .. rTail
  PROVE  /\ k \in 1 .. Len(rSent) /\ rSent[k] \in Results /\ rTail \in 1 .. rHead
         /\ Len(rSent[k]) \in Nat \ {0} /\ Executed(k) \in 0 .. Len(rSent[k])
         /\ k # rTail => Executed(k) = Len(rSent[k])
<1>1. /\ k \in 1 .. Len(rSent) /\ rSent[k] \in Results /\ rTail \in 1 .. rHead
      /\ Len(rSent[k]) \in Nat \ {0} /\ rTail \in Nat
  BY SentTypes DEF LogInv, PopsInOrder
<1>2. k # rTail => Executed(k) = Len(rSent[k])
  BY <1>1 DEF Executed
<1>3. Executed(k) \in 0 .. Len(rSent[k])
  <2>1. Len(result) \in Nat /\ (result = NoResult => Len(result) = 0)
    BY SentTypes, LenProperties DEF NoResult
  <2>2. k = rTail => Len(result) <= Len(rSent[k])
    BY <1>1, <2>1 DEF LogInv, RunsRest, RestOf
  <2> QED
    BY <1>1, <1>2, <2>1, <2>2 DEF Executed
<1> QED
  BY <1>1, <1>2, <1>3

\* Where a logged operation was sent.
LEMMA LoggedIsSent ==
  ASSUME SerialInv, NEW i \in 1 .. Len(log)
  PROVE  \E k \in 1 .. rTail : \E j \in 1 .. Executed(k) :
           /\ log[i] = rSent[k][j] /\ j \in 1 .. Len(rSent[k]) /\ rSent[k] \in Results
           /\ About(k) = log[i][1]
<1>1. PICK k \in 1 .. rTail : \E j \in 1 .. Executed(k) : log[i] = rSent[k][j]
  BY DEF SerialInv, LogSound
<1>2. PICK j \in 1 .. Executed(k) : log[i] = rSent[k][j]
  BY <1>1
<1>3. j \in 1 .. Len(rSent[k]) /\ rSent[k] \in Results
  BY ExecutedTypes DEF SerialInv
<1>4. rSent[k][j] = <<About(k), rSent[k][j][2]>>
  BY <1>3, OperationPlace DEF About
<1> QED
  BY <1>2, <1>3, <1>4

\* A file is begun and not ended exactly while its calls are being run.
Inside == rTail > 0 /\ 0 < Executed(rTail) /\ Executed(rTail) < Len(rSent[rTail])

LEMMA InFileInside ==
  ASSUME SerialInv, NEW f \in Files
  PROVE  InFile(f) <=> Inside /\ About(rTail) = f
<1>0. Base /\ LogInv /\ LogComplete /\ SentOnce /\ rTail \in Nat
  BY SentTypes DEF SerialInv, LogInv, FilesInv
<1>1. ASSUME InFile(f)
      PROVE  Inside /\ About(rTail) = f
  <2>1. PICK i \in 1 .. Len(log) : log[i] = <<f, "begin">>
    BY <1>1 DEF InFile, InLog
  <2>2. PICK k \in 1 .. rTail : \E j \in 1 .. Executed(k) :
           /\ log[i] = rSent[k][j] /\ j \in 1 .. Len(rSent[k]) /\ rSent[k] \in Results
           /\ About(k) = log[i][1]
    BY LoggedIsSent
  <2>3. PICK j \in 1 .. Executed(k) :
           log[i] = rSent[k][j] /\ j \in 1 .. Len(rSent[k]) /\ rSent[k] \in Results
    BY <2>2
  <2>4. About(k) = f /\ Len(rSent[k]) > 1 /\ Len(rSent[k]) \in 1 .. Len(rSent[k])
    <3>1. About(k) = f /\ rSent[k][j][2] = "begin"
      BY <2>1, <2>2, <2>3
    <3> QED
      BY <2>3, <3>1, OperationPlace
  <2>5. PICK e \in {"end", "end_error"} : rSent[k][Len(rSent[k])] = <<f, e>>
    BY <2>3, <2>4, OperationPlace DEF About
  <2>6. Executed(k) # Len(rSent[k])
    <3> SUFFICES ASSUME Executed(k) = Len(rSent[k]) PROVE FALSE
      OBVIOUS
    <3>1. Logged(<<f, e>>)
      BY <1>0, <2>4, <2>5 DEF LogComplete
    <3> QED
      BY <1>1, <3>1 DEF Logged, InFile, InLog
  <2>7. k = rTail /\ Executed(k) \in 0 .. Len(rSent[k])
    BY <1>0, <2>6, ExecutedTypes
  <2> QED
    BY <2>3, <2>4, <2>6, <2>7 DEF Inside
<1>2. ASSUME Inside, About(rTail) = f
      PROVE  InFile(f)
  <2>1. rTail \in 1 .. rTail
    BY <1>0, <1>2 DEF Inside
  <2>2. /\ rSent[rTail] \in Results /\ Len(rSent[rTail]) \in Nat
        /\ Executed(rTail) \in 0 .. Len(rSent[rTail]) /\ rTail \in 1 .. Len(rSent)
    BY <1>0, <2>1, ExecutedTypes
  <2>3. rSent[rTail][1] = <<f, "begin">>
    <3>1. 1 \in 1 .. Len(rSent[rTail]) /\ Len(rSent[rTail]) > 1
      BY <1>2, <2>2 DEF Inside
    <3>2. rSent[rTail][1] = <<About(rTail), rSent[rTail][1][2]>>
      BY <2>2, <3>1, OperationPlace DEF About
    <3> QED
      BY <1>2, <2>2, <3>1, <3>2, OperationPlace
  <2>4. Logged(<<f, "begin">>)
    <3>1. 1 \in 1 .. Executed(rTail)
      BY <1>2, <2>2 DEF Inside
    <3> QED
      BY <1>0, <2>1, <2>3, <3>1 DEF LogComplete
  <2>5. ASSUME NEW i \in 1 .. Len(log), NEW e \in {"end", "end_error"}, log[i] = <<f, e>>
        PROVE  FALSE
    <3>1. PICK k \in 1 .. rTail : \E j \in 1 .. Executed(k) :
             /\ log[i] = rSent[k][j] /\ j \in 1 .. Len(rSent[k]) /\ rSent[k] \in Results
             /\ About(k) = log[i][1]
      BY LoggedIsSent
    <3>2. PICK j \in 1 .. Executed(k) :
             log[i] = rSent[k][j] /\ j \in 1 .. Len(rSent[k]) /\ rSent[k] \in Results
      BY <3>1
    <3>3. rSent[k][j][2] = e /\ About(k) = f
      BY <2>5, <3>1, <3>2
    <3>4. j = Len(rSent[k]) /\ Kind(k) = "begin"
      BY <3>2, <3>3, OperationPlace DEF Kind
    <3>5. k \in 1 .. Len(rSent) /\ Executed(k) \in 0 .. Len(rSent[k])
      BY <1>0, ExecutedTypes
    <3>6. Kind(rTail) = "begin"
      BY <2>3 DEF Kind
    <3>7. k = rTail
      BY <1>0, <1>2, <2>2, <3>3, <3>4, <3>5, <3>6 DEF SentOnce
    <3> QED
      BY <1>2, <2>2, <3>2, <3>4, <3>7 DEF Inside
  <2> QED
    BY <2>4, <2>5 DEF InFile, InLog, Logged
<1> QED
  BY <1>1, <1>2

\* When the main loop has ended, the backend has heard of every file.
Heard(f) ==
  \E i \in 1 .. Len(log) : log[i] \in {<<f, "begin">>, <<f, "log_unreadable">>}

LEMMA AllHeard ==
  ASSUME SerialInv, OneThread, mPc \in EndedPCs, NEW f \in Files
  PROVE  Heard(f)
<1>0. Base /\ LogInv /\ PopsInOrder /\ LogComplete /\ NoneForgotten /\ LeavesWhenEmpty
  BY DEF SerialInv, LogInv, FilesInv
<1>1. /\ wPc \in [Workers -> WorkerPCs] /\ rTail = rHead /\ Len(rSent) = rHead
      /\ rTail \in Nat
  BY <1>0, FileTypes, SentTypes DEF PopsInOrder
<1>2. \A w \in Workers : wPc[w] \in OutPCs
  BY <1>0, NoneRunning DEF Running
<1>3. \A w \in Workers : ~Fresh(w)
  BY <1>0, <1>2, OutsideQueues DEF Fresh, OutPCs, ReadPCs
<1>4. fTail = NumFiles
  <2>1. cnt = 0 /\ mPc \notin {"fill", "generator", "rejected"}
    BY <1>0 DEF Base, ThreadsCounted, EndedPCs
  <2>2. PICK w \in Workers : wPc[w] # "none"
    BY <2>1 DEF SerialInv, SomeStarted
  <2>3. wPc[w] \in {"leaving", "exited"}
    BY <1>2, <2>2 DEF OutPCs
  <2> QED
    BY <1>0, <2>3 DEF LeavesWhenEmpty
<1>5. PICK k \in 1 .. Len(rSent) : About(k) = f /\ Kind(k) \in {"begin", "log_unreadable"}
  BY <1>0, <1>3, <1>4 DEF NoneForgotten, Said, Files
<1>6. k \in 1 .. rTail /\ rSent[k] \in Results /\ Len(rSent[k]) \in Nat \ {0}
  BY <1>0, <1>1, <1>5, ExecutedTypes
<1>7. Executed(k) = Len(rSent[k])
  BY <1>0, <1>1, <1>6 DEF Executed, PopsInOrder, EndedPCs, NoResult, Base, InOperation,
     ReadPCs
<1>8. 1 \in 1 .. Len(rSent[k]) /\ Logged(rSent[k][1])
  BY <1>0, <1>6, <1>7 DEF LogComplete
<1>9. rSent[k][1] = <<f, Kind(k)>>
  BY <1>5, <1>6, <1>8, OperationPlace DEF About, Kind
<1> QED
  BY <1>5, <1>8, <1>9 DEF Heard, Logged

\* When the program has ended, every listed file was given to the backend or
\* reported as unreadable, wherever main starts one worker at least (main.cc,
\* lines 118-128).  Where it starts none, the files are lost: the run
\* reflector_one_cpu shows it.
THEOREM FilesHandled == OneThread => (Spec => []EveryFileHandled)
<1> SUFFICES ASSUME OneThread PROVE Spec => []EveryFileHandled
  OBVIOUS
<1>1. SerialInv => EveryFileHandled
  BY AllHeard DEF EveryFileHandled, Heard, InLog, EndedPCs
<1> QED
  BY <1>1, SerialHolds, PTL

-----------------------------------------------------------------------------
(* The run implements one that parses file after file.                     *)

\* The state of SerialRun, as Reflector gives it.
Todo ==
  {f \in Files : \A i \in 1 .. Len(log) :
                   ~InLog(f, "begin", i) /\ ~InLog(f, "log_unreadable", i)}
Current   == IF \E f \in Files : InFile(f) THEN CHOOSE f \in Files : InFile(f) ELSE None
Destroyed == mPc \in {"report", "done"}

LEMMA TodoHeard == \A f : f \in Todo <=> f \in Files /\ ~Heard(f)
BY DEF Todo, Heard, InLog

\* The file in hand is that of the Result being run.
LEMMA CurrentFile ==
  ASSUME SerialInv
  PROVE  /\ Inside => Current = About(rTail)
         /\ ~Inside => Current = None
<1>1. \A f \in Files : InFile(f) <=> Inside /\ About(rTail) = f
  BY InFileInside
<1>2. Inside => About(rTail) \in Files
  <2> SUFFICES ASSUME Inside PROVE About(rTail) \in Files
    OBVIOUS
  <2>1. rTail \in 1 .. rTail
    BY SentTypes DEF Inside, SerialInv
  <2>2. rSent[rTail] \in Results /\ Len(rSent[rTail]) \in Nat \ {0}
    BY <2>1, ExecutedTypes DEF SerialInv
  <2>3. 1 \in 1 .. Len(rSent[rTail])
    BY <2>2
  <2> QED
    BY <2>2, <2>3, OperationPlace DEF About
<1> QED
  BY <1>1, <1>2 DEF Current

\* A step that runs no operation leaves the backend's view as it is.
LEMMA ViewKept ==
  ASSUME log' = log
  PROVE  Todo' = Todo /\ Current' = Current
BY DEF Todo, Current, InFile, InLog

\* The operation run next: its file and its place in its Result.
LEMMA NextOperation ==
  ASSUME SerialInv, [Next]_vars, RunOperation, result # NoResult
  PROVE  LET op == Head(result)  r == rSent[rTail]  x == Executed(rTail) + 1
         IN  /\ op \in Operations /\ log \in Seq(Operations) /\ log' = Append(log, op)
             /\ rTail \in 1 .. rTail /\ r \in Results
             /\ x \in 1 .. Len(r) /\ op = r[x] /\ op[1] = About(rTail) /\ op[1] \in Files
             /\ op = <<op[1], op[2]>>
<1> DEFINE op == Head(result)  r == rSent[rTail]  x == Executed(rTail) + 1
<1>0. Base /\ LogInv
  BY DEF SerialInv
<1>1. op \in Operations /\ log \in Seq(Operations) /\ log' = Append(log, op)
  BY <1>0, LogGrows, SentTypes
<1>2. rTail \in 1 .. rHead /\ r \in Results /\ rTail \in 1 .. rTail
  BY <1>0, HeadOfPopped, SentTypes
<1>3. rTail' = rTail
  BY DEF RunOperation, rVars
<1>4. PICK m \in 1 .. rTail' : m = rTail
  BY <1>2, <1>3
<1>5. x \in 1 .. Len(r) /\ op = r[x]
  BY <1>0, <1>3, <1>4, <1>2, ExecutedStep DEF LogInv
<1>6. op = <<r[1][1], r[x][2]>> /\ r[1][1] \in Files
  BY <1>2, <1>5, OperationPlace
<1> QED
  BY <1>1, <1>2, <1>5, <1>6 DEF About

\* The first operation of a Result is the first the backend hears of its file.
LEMMA FirstHeard ==
  ASSUME SerialInv, rTail \in 1 .. rTail, Executed(rTail) = 0,
         Kind(rTail) \in {"begin", "log_unreadable"}
  PROVE  /\ ~Heard(About(rTail))
         /\ \A i \in 1 .. Len(log) : \A e \in {"end", "end_error"} :
              log[i] # <<About(rTail), e>>
<1>0. Base /\ LogInv /\ SentOnce /\ rTail \in 1 .. Len(rSent)
  BY ExecutedTypes DEF SerialInv, FilesInv
<1> SUFFICES ASSUME NEW i \in 1 .. Len(log), NEW m, log[i] = <<About(rTail), m>>,
                    m \in {"begin", "log_unreadable", "end", "end_error"}
             PROVE  FALSE
  BY DEF Heard
<1>1. PICK k \in 1 .. rTail : \E j \in 1 .. Executed(k) :
         /\ log[i] = rSent[k][j] /\ j \in 1 .. Len(rSent[k]) /\ rSent[k] \in Results
         /\ About(k) = log[i][1]
  BY LoggedIsSent
<1>2. PICK j \in 1 .. Executed(k) :
         log[i] = rSent[k][j] /\ j \in 1 .. Len(rSent[k]) /\ rSent[k] \in Results
  BY <1>1
<1>3. About(k) = About(rTail) /\ rSent[k][j][2] = m
  BY <1>1, <1>2
<1>4. Kind(k) \in {"begin", "log_unreadable"}
  BY <1>2, <1>3, OperationPlace DEF Kind
<1>5. k # rTail /\ k \in 1 .. Len(rSent)
  BY <1>0, <1>2, ExecutedTypes
<1> QED
  BY <1>0, <1>3, <1>4, <1>5 DEF SentOnce

\* What the operation changes in the backend's view.
LEMMA ViewChanges ==
  ASSUME log \in Seq(Operations), NEW f \in Files, NEW m, <<f, m>> \in Operations,
         log' = Append(log, <<f, m>>)
  PROVE  /\ m \in {"begin", "log_unreadable"} => Todo' = Todo \ {f}
         /\ m \notin {"begin", "log_unreadable"} => Todo' = Todo
         /\ \A g \in Files \ {f} : InFile(g)' <=> InFile(g)
         /\ m \in {"end", "end_error"} => ~InFile(f)'
         /\ m \notin {"begin", "end", "end_error"} => (InFile(f)' <=> InFile(f))
         /\ m = "begin" => (InFile(f)' <=>
              \A i \in 1 .. Len(log) : \A e \in {"end", "end_error"} : log[i] # <<f, e>>)
<1> DEFINE n == Len(log)
<1>1. /\ n \in Nat /\ Len(log') = n + 1 /\ log'[n + 1] = <<f, m>>
      /\ \A i \in 1 .. n : log'[i] = log[i]
  BY AppendAt
<1>2. ASSUME NEW g, NEW e
      PROVE  (\E i \in 1 .. n + 1 : log'[i] = <<g, e>>)
               <=> (\E i \in 1 .. n : log[i] = <<g, e>>) \/ (g = f /\ e = m)
  BY <1>1
<1> DEFINE In(g, e)   == \E i \in 1 .. n : log[i] = <<g, e>>
           Next1(g, e) == \E i \in 1 .. n + 1 : log'[i] = <<g, e>>
<1>3. \A g : /\ g \in Todo <=> g \in Files /\ ~In(g, "begin") /\ ~In(g, "log_unreadable")
             /\ InFile(g) <=> In(g, "begin") /\ ~In(g, "end") /\ ~In(g, "end_error")
  BY DEF Todo, InFile, InLog
<1>4. \A g : /\ g \in Todo' <=>
                  g \in Files /\ ~Next1(g, "begin") /\ ~Next1(g, "log_unreadable")
             /\ InFile(g)' <=>
                  Next1(g, "begin") /\ ~Next1(g, "end") /\ ~Next1(g, "end_error")
  BY <1>1 DEF Todo, InFile, InLog
<1>5. \A g, e : Next1(g, e) <=> In(g, e) \/ (g = f /\ e = m)
  BY <1>2
<1>6. (\A i \in 1 .. Len(log) : \A e \in {"end", "end_error"} : log[i] # <<f, e>>)
        <=> ~In(f, "end") /\ ~In(f, "end_error")
  OBVIOUS
<1> HIDE DEF In, Next1, n
<1>7. \A g \in Files \ {f} : InFile(g)' <=> InFile(g)
  BY <1>3, <1>4, <1>5
<1>8. m \in {"begin", "log_unreadable"} => Todo' = Todo \ {f}
  BY <1>3, <1>4, <1>5
<1>9. m \notin {"begin", "log_unreadable"} => Todo' = Todo
  <2> SUFFICES ASSUME m \notin {"begin", "log_unreadable"} PROVE Todo' = Todo
    OBVIOUS
  <2>1. \A g : g \in Todo' <=> g \in Todo
    BY <1>3, <1>4, <1>5
  <2>2. Todo \subseteq Files /\ Todo' \subseteq Files
    BY <1>3, <1>4
  <2> QED
    BY <2>1, <2>2
<1>10. m \in {"end", "end_error"} => ~InFile(f)'
  BY <1>4, <1>5
<1>11. m \notin {"begin", "end", "end_error"} => (InFile(f)' <=> InFile(f))
  BY <1>3, <1>4, <1>5
<1>12. m = "begin" => (InFile(f)' <=> ~In(f, "end") /\ ~In(f, "end_error"))
  BY <1>4, <1>5
<1> QED
  BY <1>6, <1>7, <1>8, <1>9, <1>10, <1>11, <1>12

\* What each step is to the abstract run.
Steps ==
  \/ \E f \in Files :
       /\ f \in Todo /\ Current = None /\ ~Destroyed
       /\ Todo' = Todo \ {f} /\ Destroyed' = Destroyed
       /\ Current' = f \/ Current' = Current
  \/ /\ Current # None /\ Current' = None /\ UNCHANGED <<Todo, Destroyed>>
  \/ /\ Todo = {} /\ Current = None /\ ~Destroyed /\ Destroyed' = TRUE
     /\ UNCHANGED <<Todo, Current>>
  \/ UNCHANGED <<Todo, Current, Destroyed>>

\* Running one operation: the file is begun, ended, or reported as unreadable,
\* or the backend's view stays as it is.
LEMMA RunOperationView ==
  ASSUME SerialInv, [Next]_vars, RunOperation, result # NoResult
  PROVE  Steps
<1> DEFINE r == rSent[rTail]
           x == Executed(rTail) + 1
<1>a. PICK f \in Files : f = Head(result)[1]
  BY NextOperation
<1>b. PICK m : m = Head(result)[2]
  OBVIOUS
<1>1. /\ log \in Seq(Operations) /\ log' = Append(log, <<f, m>>) /\ <<f, m>> \in Operations
      /\ rTail \in 1 .. rTail /\ r \in Results /\ x \in 1 .. Len(r)
      /\ f = About(rTail) /\ f \in Files /\ m = r[x][2]
  BY <1>a, <1>b, NextOperation
<1>2. /\ Executed(rTail) \in 0 .. Len(r) /\ Len(r) \in Nat /\ rTail > 0
  BY <1>1, ExecutedTypes, SentTypes DEF SerialInv
<1>3. ~Destroyed /\ Destroyed' = Destroyed
  BY DEF RunOperation, Destroyed
<1>4. f # None
  BY <1>1 DEF Files, None
<1> HIDE DEF x
<1>5. /\ m \in {"begin", "log_unreadable"} => Todo' = Todo \ {f}
      /\ m \notin {"begin", "log_unreadable"} => Todo' = Todo
      /\ \A g \in Files \ {f} : InFile(g)' <=> InFile(g)
      /\ m \in {"end", "end_error"} => ~InFile(f)'
      /\ m \notin {"begin", "end", "end_error"} => (InFile(f)' <=> InFile(f))
      /\ m = "begin" => (InFile(f)' <=>
           \A i \in 1 .. Len(log) : \A e \in {"end", "end_error"} : log[i] # <<f, e>>)
  BY <1>1, ViewChanges
<1>6. CASE m \in {"begin", "log_unreadable"}
  <2>1. x = 1 /\ Executed(rTail) = 0 /\ Kind(rTail) \in {"begin", "log_unreadable"}
    BY <1>1, <1>2, <1>6, OperationPlace DEF x, Kind
  <2>2. /\ ~Heard(f)
        /\ \A i \in 1 .. Len(log) : \A e \in {"end", "end_error"} : log[i] # <<f, e>>
    BY <1>1, <2>1, FirstHeard
  <2>3. f \in Todo
    BY <1>1, <2>2, TodoHeard
  <2>4. ~Inside /\ Current = None
    BY <2>1, CurrentFile DEF Inside
  <2>5. \A g \in Files : ~InFile(g)
    BY <2>4, InFileInside
  <2>6. m = "begin" => Current' = f
    <3> SUFFICES ASSUME m = "begin" PROVE Current' = f
      OBVIOUS
    <3>1. \A g \in Files : InFile(g)' <=> g = f
      BY <1>1, <1>5, <2>2, <2>5
    <3> QED
      BY <1>1, <3>1 DEF Current
  <2>7. m = "log_unreadable" => Current' = Current
    <3> SUFFICES ASSUME m = "log_unreadable" PROVE Current' = Current
      OBVIOUS
    <3>1. \A g \in Files : ~InFile(g)'
      BY <1>5, <2>5
    <3>2. Current' = None
      BY <3>1 DEF Current, None
    <3> QED
      BY <2>4, <3>2
  <2> QED
    BY <1>1, <1>3, <1>5, <1>6, <2>3, <2>4, <2>6, <2>7 DEF Steps
<1>7. CASE m \in {"end", "end_error"}
  <2>1. Inside
    BY <1>1, <1>2, <1>7, OperationPlace DEF x, Inside
  <2>2. Current = f
    BY <1>1, <2>1, CurrentFile
  <2>3. \A g \in Files : ~InFile(g)'
    BY <1>1, <1>5, <1>7, InFileInside
  <2>4. Current' = None
    BY <2>3 DEF Current, None
  <2> QED
    BY <1>3, <1>4, <1>5, <1>7, <2>2, <2>4 DEF Steps
<1>8. CASE m \notin {"begin", "log_unreadable", "end", "end_error"}
  <2>1. \A g \in Files : InFile(g)' <=> InFile(g)
    BY <1>5, <1>8
  <2>2. Current' = Current
    BY <2>1 DEF Current, None
  <2> QED
    BY <1>3, <1>5, <1>8, <2>2 DEF Steps
<1> QED
  BY <1>6, <1>7, <1>8

\* Destroying the backend, when every file has been dealt with.
LEMMA DestroyView ==
  ASSUME SerialInv, OneThread, DestroyBackend
  PROVE  Steps
<1>1. mPc \in EndedPCs /\ ~Destroyed /\ Destroyed' = TRUE /\ log' = log
  BY DEF DestroyBackend, EndedPCs, Destroyed
<1>2. Todo = {}
  BY <1>1, AllHeard, TodoHeard
<1>3. ~Inside
  <2>1. result = << >> /\ rPc[Main] \notin ReadPCs
    BY <1>1 DEF SerialInv, LogInv, PopsInOrder, EndedPCs, NoResult, Base, InOperation, ReadPCs
  <2> SUFFICES ASSUME rTail > 0 PROVE Executed(rTail) = Len(rSent[rTail])
    BY SentTypes, ExecutedTypes DEF Inside, SerialInv
  <2>2. rTail \in 1 .. rTail
    BY SentTypes DEF SerialInv
  <2>3. Len(rSent[rTail]) \in Nat
    BY <2>2, ExecutedTypes DEF SerialInv
  <2> QED
    BY <2>1, <2>2, <2>3 DEF Executed
<1> QED
  BY <1>1, <1>2, <1>3, CurrentFile, ViewKept DEF Steps

LEMMA StepsView ==
  ASSUME SerialInv, OneThread, [Next]_vars
  PROVE  Steps
<1>0. Base
  BY DEF SerialInv
<1>1. CASE RunOperation /\ result # NoResult
  BY <1>1, RunOperationView
<1>2. CASE DestroyBackend
  BY <1>2, DestroyView
<1>3. CASE ~(RunOperation /\ result # NoResult) /\ ~DestroyBackend
  <2>1. log' = log
    BY <1>0, <1>3, LogGrows
  <2>2. Destroyed' = Destroyed
    <3>1. MainOutline => Destroyed' = Destroyed
      BY <1>3 DEF MainOutline, Lists, SelectGenerator, StartThread, ReadCounter,
         TestsEmpty, Pops, RunOperation, Join, Report, Destroyed
    <3>2. ASSUME NEW w \in Workers, WorkerOutline(w)
          PROVE  mPc' = mPc
      BY <3>2 DEF WorkerOutline, Tests, Takes, LoadFile, Parse, Parsed, Finish, Sends,
         mainVars
    <3> QED
      BY <1>0, <3>1, <3>2, StepOutline DEF Destroyed, vars, mainVars
  <2> QED
    BY <2>1, <2>2, ViewKept DEF Steps
<1> QED
  BY <1>1, <1>2, <1>3

\* The run with all its threads implements one that parses file after file
\* (main.cc, lines 118-181), wherever main starts one worker at least: the
\* backend is called as if there were no threads, and destroyed when every
\* file has been dealt with.
THEOREM SerialRunImplemented == OneThread => (Spec => ImplementsSerialRun)
<1> SUFFICES ASSUME OneThread PROVE Spec => ImplementsSerialRun
  OBVIOUS
<1>1. Init => Serial!Init
  <2> SUFFICES ASSUME Init PROVE Serial!Init
    OBVIOUS
  <2>1. log = << >> /\ mPc = "fill"
    BY DEF Init
  <2>2. Todo = Files /\ \A f \in Files : ~InFile(f)
    BY <2>1 DEF Todo, InFile, InLog
  <2> QED
    BY <2>1, <2>2 DEF Serial!Init, Todo
<1>2. SerialInv /\ [Next]_vars => [Serial!Next]_(Serial!vars)
  <2> SUFFICES ASSUME Steps PROVE [Serial!Next]_(Serial!vars)
    BY StepsView
  <2>1. CASE \E f \in Files :
               /\ f \in Todo /\ Current = None /\ ~Destroyed
               /\ Todo' = Todo \ {f} /\ Destroyed' = Destroyed
               /\ Current' = f \/ Current' = Current
    BY <2>1 DEF Serial!Next, Serial!Begin, Serial!Unreadable, Todo, Current, Destroyed
  <2>2. CASE Current # None /\ Current' = None /\ UNCHANGED <<Todo, Destroyed>>
    BY <2>2 DEF Serial!Next, Serial!End, Todo, Current, Destroyed
  <2>3. CASE /\ Todo = {} /\ Current = None /\ ~Destroyed /\ Destroyed' = TRUE
             /\ UNCHANGED <<Todo, Current>>
    BY <2>3 DEF Serial!Next, Serial!Destroy, Todo, Current, Destroyed
  <2>4. CASE UNCHANGED <<Todo, Current, Destroyed>>
    BY <2>4 DEF Serial!vars, Todo, Current, Destroyed
  <2> QED
    BY <2>1, <2>2, <2>3, <2>4 DEF Steps
<1> QED
  BY <1>1, <1>2, SerialHolds, PTL DEF Spec, ImplementsSerialRun, Serial!Spec

-----------------------------------------------------------------------------
(* The bounds of the model on the tickets refuse nothing.                  *)

\* Where a step of a queue stops at MaxTickets: an emplace that begins, and the
\* compare-and-swap of a try_pop.
BoundsUnreached ==
  /\ mPc = "fill" /\ fPc[Main] = "idle" => fHead < NumFiles
  /\ \A w \in Workers :
       /\ wPc[w] \in SendingPCs /\ rPc[w] = "idle" => rHead < 3 * NumFiles
       /\ fPc[w] = "try_pop_cas" /\ fTicket[w] = fTail => fTail < NumFiles
  /\ rPc[Main] = "try_pop_cas" /\ rTicket[Main] = rTail => rTail < 3 * NumFiles

\* The list ends with the last file.
ListGoesOn == mPc = "fill" /\ fPc[Main] = "idle" => fHead < NumFiles

LEMMA ListGoesOnStep ==
  ASSUME Base, ListGoesOn, [Next]_vars
  PROVE  ListGoesOn'
<1>1. CASE MainOutline
  <2>1. CASE Lists
    <3>1. fHead' \in 0 .. NumFiles /\ NumFiles \in Nat
      BY BaseStep, FileQueueFactsNext, NumFilesAssumption DEF Base
    <3> QED
      BY <2>1, <3>1 DEF Lists, ListGoesOn
  <2>2. CASE SelectGenerator \/ StartThread \/ ReadCounter \/ TestsEmpty \/ Pops
             \/ RunOperation \/ Join \/ DestroyBackend \/ Report
    <3>1. mPc' # "fill"
      BY <2>2 DEF SelectGenerator, StartThread, ReadCounter, TestsEmpty, Pops,
         RunOperation, Join, DestroyBackend, Report
    <3> QED
      BY <3>1 DEF ListGoesOn
  <2> QED
    BY <1>1, <2>1, <2>2 DEF MainOutline
<1>2. ASSUME NEW w \in Workers, WorkerOutline(w)
      PROVE  ListGoesOn'
  <2>1. Main \in Threads \ {w}
    BY MainAssumption DEF Threads
  <2>2. mPc' = mPc /\ fHead' = fHead /\ fPc'[Main] = fPc[Main]
    BY <1>2, <2>1 DEF WorkerOutline, Tests, Takes, LoadFile, Parse, Parsed, Finish, Sends,
       FOthers, mainVars, fVars
  <2> QED
    BY <2>2 DEF ListGoesOn
<1>3. CASE UNCHANGED vars
  BY <1>3 DEF ListGoesOn, vars, mainVars, fVars
<1> QED
  BY <1>1, <1>2, <1>3, StepOutline

\* Of a file no more than three Results are sent: it is unreadable, or it is
\* parsed, its error is printed and its profile.
KindCode(m) == CASE m = "log_error" -> 2 [] m = "log_profile" -> 3 [] OTHER -> 1

LEMMA ThreeOfAFile ==
  ASSUME SerialInv, NEW w \in Workers, wPc[w] \in SendingPCs, rPc[w] = "idle"
  PROVE  Len(rSent) < 3 * NumFiles
<1> DEFINE n == Len(rSent)
           S == 1 .. n + 1
           T == Files \X (1 .. 3)
           own == <<fVal[w], KindCode(SentKind(wPc[w]))>>
           code == [k \in S |-> IF k = n + 1 THEN own ELSE <<About(k), KindCode(Kind(k))>>]
<1>0. Base /\ OneOwner /\ SentOnce /\ UnsaidBy(w) /\ SentAfterTaken
  BY DEF SerialInv, FilesInv, Unsaid
<1>1. n \in Nat /\ NumFiles \in Nat /\ fTail \in 0 .. NumFiles
  BY <1>0, FileTypes
<1>2. /\ IsFiniteSet(S) /\ Cardinality(S) = n + 1
      /\ IsFiniteSet(T) /\ Cardinality(T) = NumFiles * 3
  <2>1. /\ 1 \in Int /\ 3 \in Int /\ n + 1 \in Int /\ NumFiles \in Int
        /\ 1 > NumFiles => NumFiles = 0
    BY <1>1
  <2>2. IsFiniteSet(S) /\ Cardinality(S) = IF 1 > n + 1 THEN 0 ELSE (n + 1) - 1 + 1
    BY <2>1, FS_Interval
  <2>3. /\ IsFiniteSet(1 .. NumFiles)
        /\ Cardinality(1 .. NumFiles) = IF 1 > NumFiles THEN 0 ELSE NumFiles - 1 + 1
    BY <2>1, FS_Interval
  <2>4. IsFiniteSet(1 .. 3) /\ Cardinality(1 .. 3) = IF 1 > 3 THEN 0 ELSE 3 - 1 + 1
    BY <2>1, FS_Interval
  <2>5. IsFiniteSet(Files) /\ Cardinality(Files) = NumFiles
    BY <2>1, <2>3 DEF Files
  <2>6. Cardinality(1 .. 3) = 3
    BY <2>4
  <2>7. IsFiniteSet(T) /\ Cardinality(T) = Cardinality(Files) * Cardinality(1 .. 3)
    BY <2>4, <2>5, FS_Product
  <2> QED
    BY <1>1, <2>2, <2>5, <2>6, <2>7
<1>3. ASSUME NEW k \in 1 .. n
      PROVE  /\ About(k) \in Files
             /\ Kind(k) \in {"begin", "log_unreadable", "log_error", "log_profile"}
  <2>1. k \in 1 .. rHead /\ rSent[k] \in Results /\ Len(rSent[k]) \in Nat \ {0}
    BY <1>0, SentTypes
  <2>2. PICK f \in Files : rSent[k] \in BackendCalls(f) \/ rSent[k] \in Messages(f)
    BY <2>1, ResultForm
  <2>3. CASE rSent[k] \in BackendCalls(f)
    <3>1. PICK e : Calls(rSent[k], f, e)
      BY <2>3, BackendCallsForm
    <3> QED
      BY <3>1, CallsEnds DEF About, Kind
  <2>4. CASE rSent[k] \in Messages(f)
    BY <2>4 DEF Messages, About, Kind
  <2> QED
    BY <2>2, <2>3, <2>4
<1>4. /\ Owns(w) /\ FileOf(w) = fVal[w] /\ fVal[w] \in Files
      /\ wPc[w] \in {"unreadable", "push"} => Fresh(w)
  <2>1. wPc[w] \in HoldingPCs /\ fPc[w] = "idle" /\ FileOf(w) = fVal[w]
    BY <1>0, OutsideQueues DEF HoldingPCs
  <2>2. fVal[w] \in 1 .. fTail
    BY <1>0, <2>1 DEF Base, WorkersHoldFiles
  <2> QED
    BY <1>1, <2>1, <2>2 DEF Owns, Fresh, Files
<1>5. ASSUME NEW k \in 1 .. n, About(k) = fVal[w]
      PROVE  KindCode(Kind(k)) # KindCode(SentKind(wPc[w]))
  <2>1. wPc[w] \in {"error", "profile"}
    BY <1>0, <1>4, <1>5 DEF UnsaidBy, SendingPCs
  <2>2. CASE wPc[w] = "error"
    <3>1. ~Said(fVal[w], "log_error")
      BY <1>0, <2>2 DEF UnsaidBy
    <3> QED
      BY <1>3, <1>5, <2>2, <3>1 DEF Said, KindCode, SentKind
  <2>3. CASE wPc[w] = "profile"
    <3>1. ~Said(fVal[w], "log_profile")
      BY <1>0, <2>3 DEF UnsaidBy
    <3> QED
      BY <1>3, <1>5, <2>3, <3>1 DEF Said, KindCode, SentKind
  <2> QED
    BY <2>1, <2>2, <2>3
<1>6. ASSUME NEW j \in 1 .. n, NEW k \in 1 .. n, About(j) = About(k),
             KindCode(Kind(j)) = KindCode(Kind(k))
      PROVE  j = k
  <2> SUFFICES ASSUME j # k PROVE FALSE
    OBVIOUS
  <2>1. /\ Kind(j) # Kind(k) /\ Kind(j) # "log_unreadable" /\ Kind(k) # "log_unreadable"
    BY <1>0, <1>6 DEF SentOnce
  <2> QED
    BY <1>3, <1>6, <2>1 DEF KindCode
<1>7. code \in Injection(S, T)
  <2>1. code \in [S -> T]
    <3>1. own \in T
      BY <1>4 DEF KindCode
    <3>2. \A k \in 1 .. n : <<About(k), KindCode(Kind(k))>> \in T
      BY <1>3 DEF KindCode
    <3>3. \A k \in S : k = n + 1 \/ k \in 1 .. n
      BY <1>1
    <3> QED
      BY <3>1, <3>2, <3>3
  <2>2. ASSUME NEW j \in S, NEW k \in S, code[j] = code[k]
        PROVE  j = k
    <3>1. CASE j = n + 1 /\ k = n + 1
      BY <3>1
    <3>2. CASE j \in 1 .. n /\ k \in 1 .. n
      <4>1. code[j] = <<About(j), KindCode(Kind(j))>> /\ code[k] = <<About(k), KindCode(Kind(k))>>
        BY <1>1, <3>2
      <4> QED
        BY <1>6, <2>2, <3>2, <4>1
    <3>3. CASE j = n + 1 /\ k \in 1 .. n
      <4>1. code[j] = own /\ code[k] = <<About(k), KindCode(Kind(k))>>
        BY <1>1, <3>3
      <4> QED
        BY <1>5, <2>2, <3>3, <4>1
    <3>4. CASE k = n + 1 /\ j \in 1 .. n
      <4>1. code[k] = own /\ code[j] = <<About(j), KindCode(Kind(j))>>
        BY <1>1, <3>4
      <4> QED
        BY <1>5, <2>2, <3>4, <4>1
    <3> QED
      BY <1>1, <3>1, <3>2, <3>3, <3>4
  <2> HIDE DEF code, S, T
  <2> QED
    BY <2>1, <2>2 DEF Injection, IsInjective
<1>8. Cardinality(S) <= Cardinality(T)
  <2> HIDE DEF code, S, T
  <2> QED
    BY <1>2, <1>7, FS_Injection
<1> QED
  BY <1>1, <1>2, <1>8

\* The bounds of the model on the tickets of the two queues (MaxTickets) refuse
\* no step of main.cc: a worker sends at most three Results about a file (lines
\* 134-150), and nothing is popped that was not sent.
THEOREM BoundsRefuseNothing == Spec => []BoundsUnreached
<1>1. Init => ListGoesOn
  BY NumFilesAssumption DEF Init, fileQueue!Init, ListGoesOn
<1>2. SerialInv /\ ListGoesOn /\ [Next]_vars => ListGoesOn'
  BY ListGoesOnStep DEF SerialInv
<1>3. SerialInv /\ ListGoesOn => BoundsUnreached
  <2> SUFFICES ASSUME SerialInv, ListGoesOn PROVE BoundsUnreached
    OBVIOUS
  <2>0. Base
    BY DEF SerialInv
  <2>1. /\ fHead \in 0 .. NumFiles /\ rHead \in 0 .. 3 * NumFiles
        /\ fTail \in Nat /\ rTail \in Nat /\ Len(rSent) = rHead
        /\ NumFiles \in Nat
    <3>1. rHead \in 0 .. 3 * NumFiles
      BY <2>0, SharedQueueParameters DEF Base, RQ!IInv, RQ!TurnBehindCounters, RQ!Tickets
    <3> QED
      BY <2>0, <3>1, FileQueueFacts, FileTypes, SentTypes DEF Base
  <2>2. ASSUME NEW w \in Workers, fPc[w] = "try_pop_cas", fTicket[w] = fTail
        PROVE  fTail < NumFiles
    <3>1. fTail < fHead
      BY <2>0, <2>2, FileConsumer DEF Base, Threads
    <3> QED
      BY <2>1, <3>1
  <2>3. ASSUME rPc[Main] = "try_pop_cas", rTicket[Main] = rTail
        PROVE  rTail < 3 * NumFiles
    <3>1. rTail < rHead
      BY <2>0, <2>3, ResultConsumer DEF Base, Threads
    <3> QED
      BY <2>1, <3>1
  <2> QED
    BY <2>1, <2>2, <2>3, ThreeOfAFile DEF BoundsUnreached, ListGoesOn
<1> QED
  BY <1>1, <1>2, <1>3, SerialHolds, PTL DEF Spec

=============================================================================
