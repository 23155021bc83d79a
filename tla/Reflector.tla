------------------------------ MODULE Reflector ------------------------------
(***************************************************************************)
(* main() of src/main.cc: the main thread lists the files in fileQueue,    *)
(* starts the workers and then runs, one by one, the operations the        *)
(* workers send back through sharedQueue; each worker takes files from     *)
(* fileQueue, parses them through a ParserInterfaceSynchronizer, which     *)
(* records the backend's calls instead of making them, and sends the       *)
(* recorded calls as one Result.                                           *)
(*                                                                         *)
(* Both queues are instances of MPMCQueue: every step of every queue       *)
(* operation is a step here.  A Result is the sequence of its operations,  *)
(* an operation <<file, name>>; `log' is the history of those executed.    *)
(* The file list is not empty (the constructor of fileQueue throws on an   *)
(* empty one, before any thread starts).                                   *)
(***************************************************************************)
EXTENDS Integers, Sequences, FiniteSets, SequencesExt

CONSTANTS
  Workers,              \* the threads that may be started
  Main,                 \* the main thread
  NumFiles,             \* fileList.size()
  ResultCapacity,       \* 4096 in main.cc
  HardwareConcurrencies,\* what hardware_concurrency() may return
  UnsignedModulus,      \* 2^32 for the width of its result
  MaxDecls              \* bound of the model on the declarations of a file

ASSUME NumFilesAssumption == NumFiles \in Nat \ {0}
ASSUME MainAssumption     == Main \notin Workers
ASSUME WorkersAssumption  == IsFiniteSet(Workers) /\ Cardinality(Workers) >= NumFiles
ASSUME CapacityAssumption == ResultCapacity \in Nat \ {0}
ASSUME BoundsAssumption   == UnsignedModulus \in Nat \ {0} /\ MaxDecls \in Nat
ASSUME HardwareAssumption == HardwareConcurrencies \subseteq Nat

Threads == Workers \union {Main}
Files   == 1 .. NumFiles
None    == 0
NoResult == << >>

VARIABLES
  fHead, fTail, fTurn, fStorage, fSent, fPc, fTicket, fVal, fRet,
  rHead, rTail, rTurn, rStorage, rSent, rPc, rTicket, rVal, rRet,
  mPc,           \* where the main thread is
  cnt,           \* threads still to be started
  threadCounter, \* threads not finished
  filesParsed,
  profile,       \* the switch of that name
  result,        \* the operations of the popped Result still to run
  log,           \* history: the operations run
  reported,      \* the number of files printed at the end, or -1
  wPc,           \* where each worker is
  fSeen,         \* the newest fileQueue.tail_ each worker has read
  m_queue        \* the operations each worker's synchronizer has recorded

fileQueue == INSTANCE MPMCQueue WITH
  Values <- Files, Raw <- None, Capacity <- NumFiles, MaxTickets <- NumFiles,
  head <- fHead, tail <- fTail, slotTurn <- fTurn, storage <- fStorage, sent <- fSent,
  pc <- fPc, ticket <- fTicket, val <- fVal, ret <- fRet

\* What the workers send: the calls recorded for a file, or a line to print.
BackendCalls(f) ==
  { << <<f, "begin">> >> \o [i \in 1 .. n |-> <<f, "decl">>] \o << <<f, e>> >> :
      n \in 0 .. MaxDecls, e \in {"end", "end_error"} }
Messages(f) ==
  { << <<f, m>> >> : m \in {"log_unreadable", "log_error", "log_profile"} }
Results == UNION {BackendCalls(f) \union Messages(f) : f \in Files}

sharedQueue == INSTANCE MPMCQueue WITH
  Values <- Results, Raw <- NoResult, Capacity <- ResultCapacity,
  MaxTickets <- 3 * NumFiles,
  head <- rHead, tail <- rTail, slotTurn <- rTurn, storage <- rStorage, sent <- rSent,
  pc <- rPc, ticket <- rTicket, val <- rVal, ret <- rRet

fVars == <<fHead, fTail, fTurn, fStorage, fSent, fPc, fTicket, fVal, fRet>>
rVars == <<rHead, rTail, rTurn, rStorage, rSent, rPc, rTicket, rVal, rRet>>
mainVars   == <<mPc, cnt, profile, result, log, reported>>
workerVars == <<wPc, fSeen, m_queue>>
vars == <<fVars, rVars, mainVars, workerVars, threadCounter, filesParsed>>

Init ==
  /\ fileQueue!Init
  /\ sharedQueue!Init
  /\ mPc = "fill"
  /\ cnt = 0
  /\ threadCounter = 0
  /\ filesParsed = 0
  /\ profile \in BOOLEAN
  /\ result = NoResult
  /\ log = << >>
  /\ reported = -1
  /\ wPc = [w \in Workers |-> "none"]
  /\ fSeen = [w \in Workers |-> 0]
  /\ m_queue = [w \in Workers |-> << >>]

-----------------------------------------------------------------------------
(* The main thread.                                                        *)

FillFileQueue ==
  /\ mPc = "fill"
  /\ fileQueue!Emplace(Main, fHead + 1) \/ fileQueue!EmplaceStep(Main)
  /\ mPc' = IF fPc'[Main] = "idle" /\ fHead' = NumFiles THEN "generator" ELSE "fill"
  /\ UNCHANGED <<rVars, cnt, profile, result, log, reported, workerVars,
                 threadCounter, filesParsed>>

\* Wrong: more threads than files.  (As in MPMCQueue, the definitions marked
\* Wrong are mistakes to be found, not part of the model.)
ThreadCountUncut(hw) == (hw + UnsignedModulus - 1) % UnsignedModulus

\* hardware_concurrency() - 1 is unsigned arithmetic, cut to the file count.
ThreadCount(hw) ==
  LET n == (hw + UnsignedModulus - 1) % UnsignedModulus
  IN  IF NumFiles < n THEN NumFiles ELSE n

\* An unknown generator ends the program; a known one is created.
SelectGenerator ==
  /\ mPc = "generator"
  /\ \/ /\ mPc' = "rejected"
        /\ UNCHANGED <<cnt, threadCounter>>
     \/ /\ mPc' = "start"
        /\ \E hw \in HardwareConcurrencies :
             cnt' = ThreadCount(hw) /\ threadCounter' = ThreadCount(hw)
  /\ UNCHANGED <<fVars, rVars, profile, result, log, reported,
                 workerVars, filesParsed>>

StartThread ==
  /\ mPc = "start"
  /\ \/ /\ cnt > 0
        /\ \E w \in Workers :
             /\ wPc[w] = "none"
             /\ wPc' = [wPc EXCEPT ![w] = "test"]
        /\ cnt' = cnt - 1
        /\ UNCHANGED mPc
     \/ /\ cnt = 0
        /\ mPc' = "read_counter"
        /\ UNCHANGED <<wPc, cnt>>
  /\ UNCHANGED <<fVars, rVars, profile, result, log, reported,
                 fSeen, m_queue, threadCounter, filesParsed>>

\* Wrong: does not wait for the last worker.
ReadCounterLate ==
  /\ mPc = "read_counter"
  /\ mPc' = IF threadCounter > 1 THEN "pop" ELSE "test_empty"
  /\ UNCHANGED <<fVars, rVars, cnt, profile, result, log, reported,
                 workerVars, threadCounter, filesParsed>>

\* while (threadCounter || !sharedQueue.empty()): empty() is only evaluated
\* after threadCounter has been read as zero.
ReadCounter ==
  /\ mPc = "read_counter"
  /\ mPc' = IF threadCounter # 0 THEN "pop" ELSE "test_empty"
  /\ UNCHANGED <<fVars, rVars, cnt, profile, result, log, reported,
                 workerVars, threadCounter, filesParsed>>

\* The relaxed loads of empty() return what the main thread has synchronised
\* with: reading zero from threadCounter orders every worker's emplace before
\* them, and tail_ is only ever moved by the main thread.
TestEmpty ==
  /\ mPc = "test_empty"
  /\ \/ \E h \in 0 .. rHead :
          (threadCounter = 0 => h = rHead) /\ sharedQueue!EmptyLoadHead(Main, h)
     \/ sharedQueue!EmptyLoadTail(Main, rTail)
  /\ mPc' = IF rPc'[Main] # "idle" THEN "test_empty"
            ELSE IF rRet'[Main] THEN "join" ELSE "pop"
  /\ UNCHANGED <<fVars, cnt, profile, result, log, reported, workerVars,
                 threadCounter, filesParsed>>

PopResult ==
  /\ mPc = "pop"
  /\ sharedQueue!TryPop(Main) \/ sharedQueue!TryPopStep(Main)
  /\ IF rPc'[Main] # "idle"
     THEN UNCHANGED <<mPc, result>>
     ELSE IF rRet'[Main]
     THEN mPc' = "run" /\ result' = rVal[Main]
     ELSE mPc' = "read_counter" /\ UNCHANGED result
  /\ UNCHANGED <<fVars, cnt, profile, log, reported, workerVars,
                 threadCounter, filesParsed>>

RunOperation ==
  /\ mPc = "run"
  /\ IF result = NoResult
     THEN mPc' = "read_counter" /\ UNCHANGED <<result, log>>
     ELSE /\ log' = Append(log, Head(result))
          /\ result' = Tail(result)
          /\ UNCHANGED mPc
  /\ UNCHANGED <<fVars, rVars, cnt, profile, reported, workerVars,
                 threadCounter, filesParsed>>

\* join() waits for every thread that was started.
Join ==
  /\ mPc = "join"
  /\ \A w \in Workers : wPc[w] \in {"none", "exited"}
  /\ mPc' = "destroy"
  /\ UNCHANGED <<fVars, rVars, cnt, profile, result, log, reported,
                 workerVars, threadCounter, filesParsed>>

DestroyBackend ==
  /\ mPc = "destroy"
  /\ mPc' = "report"
  /\ UNCHANGED <<fVars, rVars, cnt, profile, result, log, reported,
                 workerVars, threadCounter, filesParsed>>

Report ==
  /\ mPc = "report"
  /\ mPc' = "done"
  /\ reported' = filesParsed
  /\ UNCHANGED <<fVars, rVars, cnt, profile, result, log,
                 workerVars, threadCounter, filesParsed>>

MainStep ==
  \/ FillFileQueue \/ SelectGenerator \/ StartThread
  \/ ReadCounter \/ TestEmpty \/ PopResult \/ RunOperation
  \/ Join \/ DestroyBackend \/ Report

-----------------------------------------------------------------------------
(* A worker.                                                               *)

WGoto(w, l) == wPc' = [wPc EXCEPT ![w] = l]
Saw(w, n)   == fSeen' = [fSeen EXCEPT ![w] = n]

\* while (!fileQueue.empty()): head_ had its final value when the thread was
\* started; a load of tail_ may lag behind, but not behind an earlier load.
TestFileQueue(w) ==
  /\ wPc[w] = "test"
  /\ \/ fileQueue!EmptyLoadHead(w, fHead) /\ UNCHANGED fSeen
     \/ \E l \in fSeen[w] .. fTail : fileQueue!EmptyLoadTail(w, l) /\ Saw(w, l)
  /\ WGoto(w, IF fPc'[w] # "idle" THEN "test" ELSE IF fRet'[w] THEN "finish" ELSE "take")
  /\ UNCHANGED <<rVars, mainVars, m_queue, threadCounter, filesParsed>>

TakeFile(w) ==
  /\ wPc[w] = "take"
  /\ \/ fileQueue!TryPop(w) /\ Saw(w, fTail')
     \/ /\ fileQueue!TryPopCas(w) \/ fileQueue!TryPopReload(w)
        /\ Saw(w, fTail')
     \/ /\ \/ fileQueue!TryPopCheck(w) \/ fileQueue!Move(w)
           \/ fileQueue!Destroy(w) \/ fileQueue!Release(w)
        /\ UNCHANGED fSeen
  /\ WGoto(w, IF fPc'[w] # "idle" THEN "take" ELSE IF fRet'[w] THEN "load" ELSE "test")
  /\ UNCHANGED <<rVars, mainVars, m_queue, threadCounter, filesParsed>>

\* sharedQueue.emplace or push, from its first step to its last.
Send(w, from, r, to) ==
  /\ wPc[w] = from
  /\ sharedQueue!Emplace(w, r) \/ sharedQueue!EmplaceStep(w)
  /\ WGoto(w, IF rPc'[w] # "idle" THEN from ELSE to)
  /\ UNCHANGED <<fVars, mainVars, fSeen, m_queue, threadCounter, filesParsed>>

\* LoadFile fails, or the synchronizer and the parser are created and
\* Parse calls begin.
LoadFile(w) ==
  /\ wPc[w] = "load"
  /\ \/ /\ WGoto(w, "unreadable")
        /\ UNCHANGED m_queue
     \/ /\ WGoto(w, "parse")
        /\ m_queue' = [m_queue EXCEPT ![w] = << <<fVal[w], "begin">> >>]
  /\ UNCHANGED <<fVars, rVars, mainVars, fSeen,
                 threadCounter, filesParsed>>

\* Wrong: tries the same file again.
LogUnreadableRetry(w) ==
  Send(w, "unreadable", << <<fVal[w], "log_unreadable">> >>, "load")

LogUnreadable(w) == Send(w, "unreadable", << <<fVal[w], "log_unreadable">> >>, "test")

\* Wrong: the error is sent before the calls that led to it.
ParseErrorFirst(w) ==
  /\ wPc[w] = "parse"
  /\ \E op \in {"decl", "end", "end_error"} :
       /\ op = "decl" => Len(m_queue[w]) <= MaxDecls
       /\ m_queue' = [m_queue EXCEPT ![w] = Append(@, <<fVal[w], op>>)]
       /\ WGoto(w, CASE op = "decl" -> "parse" [] op = "end" -> "push" [] OTHER -> "error")
  /\ UNCHANGED <<fVars, rVars, mainVars, fSeen, threadCounter, filesParsed>>

\* Parse records calls until it reaches the end of the file or an error, and
\* then calls end; the error is an argument of end.
Parse(w) ==
  /\ wPc[w] = "parse"
  /\ \E op \in {"decl", "end", "end_error"} :
       /\ op = "decl" => Len(m_queue[w]) <= MaxDecls
       /\ m_queue' = [m_queue EXCEPT ![w] = Append(@, <<fVal[w], op>>)]
       /\ WGoto(w, IF op = "decl" THEN "parse" ELSE "push")
  /\ UNCHANGED <<fVars, rVars, mainVars, fSeen,
                 threadCounter, filesParsed>>

PushResult(w) == Send(w, "push", m_queue[w], "parsed")

\* Wrong: counts the files that failed too.
ParsedOrNot(w) ==
  /\ wPc[w] = "parsed"
  /\ IF Last(m_queue[w])[2] = "end_error"
     THEN WGoto(w, "error")
     ELSE WGoto(w, IF profile THEN "profile" ELSE "test")
  /\ filesParsed' = filesParsed + 1
  /\ m_queue' = [m_queue EXCEPT ![w] = << >>]
  /\ UNCHANGED <<fVars, rVars, mainVars, fSeen, threadCounter>>

\* Parse returns whether there was no error.
Parsed(w) ==
  /\ wPc[w] = "parsed"
  /\ IF Last(m_queue[w])[2] = "end_error"
     THEN WGoto(w, "error") /\ UNCHANGED filesParsed
     ELSE WGoto(w, IF profile THEN "profile" ELSE "test") /\ filesParsed' = filesParsed + 1
  /\ m_queue' = [m_queue EXCEPT ![w] = << >>]
  /\ UNCHANGED <<fVars, rVars, mainVars, fSeen, threadCounter>>

LogError(w) ==
  Send(w, "error", << <<fVal[w], "log_error">> >>, IF profile THEN "profile" ELSE "test")

LogProfile(w) == Send(w, "profile", << <<fVal[w], "log_profile">> >>, "test")

\* Wrong: the thread is not counted out.
FinishUncounted(w) ==
  /\ \/ wPc[w] = "finish" /\ WGoto(w, "leaving")
     \/ wPc[w] = "leaving" /\ WGoto(w, "exited")
  /\ UNCHANGED <<fVars, rVars, mainVars, fSeen, m_queue, threadCounter, filesParsed>>

\* The ScopeGuard counts the thread out; after that it shares nothing.
Finish(w) ==
  /\ \/ /\ wPc[w] = "finish"
        /\ threadCounter' = threadCounter - 1
        /\ WGoto(w, "leaving")
     \/ /\ wPc[w] = "leaving"
        /\ WGoto(w, "exited")
        /\ UNCHANGED threadCounter
  /\ UNCHANGED <<fVars, rVars, mainVars, fSeen, m_queue, filesParsed>>

WorkerStep(w) ==
  \/ TestFileQueue(w) \/ TakeFile(w) \/ LoadFile(w) \/ LogUnreadable(w)
  \/ Parse(w) \/ PushResult(w) \/ Parsed(w) \/ LogError(w) \/ LogProfile(w)
  \/ Finish(w)

-----------------------------------------------------------------------------

\* The process has ended.
Ended == mPc \in {"done", "rejected"} /\ UNCHANGED vars

Next == MainStep \/ (\E w \in Workers : WorkerStep(w)) \/ Ended

\* Every thread that can run does so in the end.
Fairness == WF_vars(MainStep) /\ \A w \in Workers : WF_vars(WorkerStep(w))

Spec     == Init /\ [][Next]_vars
FairSpec == Spec /\ Fairness

-----------------------------------------------------------------------------
(* Correctness.                                                            *)

MainPCs == {"fill", "generator", "rejected", "start", "read_counter", "test_empty",
            "pop", "run", "join", "destroy", "report", "done"}
WorkerPCs == {"none", "test", "take", "load", "unreadable", "parse", "push", "parsed",
              "error", "profile", "finish", "leaving", "exited"}

\* The operations a Result may be made of: the calls of the backend, and the
\* lines to print.
Operations ==
  Files \X {"begin", "decl", "end", "end_error",
            "log_unreadable", "log_error", "log_profile"}

\* The types of the variables, those of the two queues included.
TypeOK ==
  /\ fileQueue!TypeOK
  /\ sharedQueue!TypeOK
  /\ mPc \in MainPCs
  /\ cnt \in 0 .. NumFiles
  /\ threadCounter \in 0 .. NumFiles
  /\ filesParsed \in 0 .. NumFiles
  /\ profile \in BOOLEAN
  /\ result \in Seq(Operations)
  /\ log \in Seq(Operations)
  /\ reported \in -1 .. NumFiles
  /\ wPc \in [Workers -> WorkerPCs]
  /\ fSeen \in [Workers -> 0 .. NumFiles]
  /\ m_queue \in [Workers -> Seq(Operations)]

\* When the main loop (lines 157-167) has ended, every operation of every
\* Result that a worker sent has been run, in the order of the Results, and
\* no worker will send another.
CollectedAll ==
  mPc \in {"join", "destroy", "report", "done"} =>
    /\ log = FlattenSeq(rSent)
    /\ \A w \in Workers : wPc[w] \in {"none", "leaving", "exited"}

InLog(f, op, i) == i \in 1 .. Len(log) /\ log[i] = <<f, op>>

\* The error and the profile of a file are printed after the backend has been
\* given the file's end (lines 140-150), though other workers send meanwhile.
MessagesFollowFile ==
  \A i \in 1 .. Len(log) :
    LET f == log[i][1]
    IN  /\ log[i][2] = "log_error" => \E j \in 1 .. i : InLog(f, "end_error", j)
        /\ log[i][2] = "log_profile" =>
             \E j \in 1 .. i : InLog(f, "end", j) \/ InLog(f, "end_error", j)

\* The number printed at the end (line 179) is that of the files the backend
\* was given without an error.
ReportsParsedFiles ==
  mPc = "done" => reported = Cardinality({i \in 1 .. Len(log) : log[i][2] = "end"})

\* Nobody waits in vain, however small sharedQueue is.  The main thread never
\* waits while it lists the files (lines 74-77).  A worker that waits for room
\* (lines 120-150) waits for a Result that the main loop has still to take or is
\* taking out, and that loop is not over (lines 157-167): so the sender of the
\* Result that is next never waits for more than that.
WaitsForRoom(w) == rPc[w] = "emplace_spin" /\ ~sharedQueue!ProducerTurn(w)
TakingOut(k)    == rPc[Main] \in sharedQueue!ReadPCs /\ rTicket[Main] = k

NobodyWaitsInVain ==
  /\ fPc[Main] = "emplace_spin" => fileQueue!ProducerTurn(Main)
  /\ \A w \in Workers : WaitsForRoom(w) =>
       /\ mPc \in {"start", "read_counter", "pop", "run"}
       /\ LET k == rTicket[w] - ResultCapacity
          IN  k >= rTail \/ TakingOut(k)

\* The program ends, whatever the scheduling and however small sharedQueue is.
Termination == <>(mPc \in {"done", "rejected"})

\* Every listed file reaches the backend or is reported as unreadable before
\* the program ends: README.md:2, "Extracts information from an annotated C++
\* header and outputs it".
EveryFileHandled ==
  mPc = "done" =>
    \A f \in Files : \E i \in 1 .. Len(log) :
      InLog(f, "begin", i) \/ InLog(f, "log_unreadable", i)

\* The backend cannot tell that several threads were at work.
InFile(f) ==
  /\ \E i \in 1 .. Len(log) : InLog(f, "begin", i)
  /\ \A i \in 1 .. Len(log) : ~InLog(f, "end", i) /\ ~InLog(f, "end_error", i)

Serial == INSTANCE SerialRun WITH
  todo <- {f \in Files : \A i \in 1 .. Len(log) :
                           ~InLog(f, "begin", i) /\ ~InLog(f, "log_unreadable", i)},
  current <- IF \E f \in Files : InFile(f) THEN CHOOSE f \in Files : InFile(f) ELSE None,
  destroyed <- mPc \in {"report", "done"}

\* The run with all its threads implements one that parses file after file.
ImplementsSerialRun == Serial!Spec

=============================================================================
