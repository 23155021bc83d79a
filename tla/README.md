# Verification of header-parser

TLA+ models, TLC runs and TLAPS proofs about the program in `src/`, a tool that
parses annotated C++ headers on several threads and writes what it finds to a
type database (an XML document).

Contents: [the system](#the-system), [what is hard](#what-is-hard-about-it),
[the modules](#the-modules), [the runs](#the-runs), [findings](#findings),
[the proofs](#the-proofs), [what is left out](#what-is-left-out-and-why),
[the plan](#the-plan).

## The system

| component | source | state | operations |
|---|---|---|---|
| MPMC queue | `MPMCQueue.h` | `head_`, `tail_`, and per slot `turn` and `storage` | `emplace`/`push`, `try_emplace`/`try_push`, `pop`, `try_pop`, `size`/`empty` |
| Pipeline | `main.cc`, `ScopeGuard.h` | `fileQueue`, `sharedQueue`, `threadCounter`, `filesParsed`, the threads | list the files, start workers, collect and run their results, join, destroy, report |
| Parser | `parser.cc`, `parser.h`, `type_node.h` | the tokenizer's cursor, `scopes_`, `hasError_`, `m_unnamedCnt` | `Parse`, `ParseStatement`, and a routine per kind of declaration |
| Synchronizer | `ParserInterfaceSynchronizer.cpp` | `m_queue`, the calls recorded for a file | each call of `parser_interface.h` records itself; `end` sends the record |
| Type database backend | `TypeDbParserInterface.cpp`, `TypeData.h` | the document, `m_nodeStack`, the type and template stacks, `m_access` | each call of `parser_interface.h`; `destroy` |
| Tokenizer | `tokenizer.cc`, `token.h` | the input, the cursor, two comments, the macros | `GetToken`, `UngetToken`, `Match...`, `Require...`, `AddMacro` |
| Type strings | `TypeData.cpp` | none | `ToString` |
| Debug backend | `DebugParserInterface.cpp` | `m_indent` and types of its own | prints a call and forwards it |
| Switches, file list | `helpers.cpp`, `main.cc:40-85` | the switches | parse the command line, load and split a list of files |

How they interact. The main thread puts the names of the files in `fileQueue`
and starts the workers. A worker takes a name, loads the file and makes a
synchronizer and a parser for it. The parser asks the tokenizer for tokens and
calls the synchronizer as if it were the backend; with the switch `debug` the
backend is the debug backend with the type database backend behind it. The synchronizer records the
calls and, at `end`, sends the record as one `Result` through `sharedQueue`.
What a worker has to print it sends the same way. The main thread takes results
from `sharedQueue` and runs them, so only it ever calls the backend. When
`threadCounter` has gone to zero and `sharedQueue` is empty it joins the
workers, has the backend write its document and reports how many files were
parsed. The two queues and the two counters are all the threads share.

What makes each part correct:

- Queue: a slot is used by one thread at a time; an object is constructed where
  there is none and destroyed where there is one; what a consumer receives is what
  the producer of the same ticket sent; together, that it is a channel; a `try_`
  operation is refused only by a slot that was not ready.
- Pipeline: every result that is sent is run, whole and once, and not mixed with
  another; the backend cannot tell how many threads there were; the program ends.
- Tokenizer: however the parser looks ahead and goes back, it gets the words of the file
  in order, each once and whole; no loop over characters fails to end, but for a double
  quote that opens a string and has none behind it; a comment reaches its declaration.
- Switches and list: every file asked for that can be read is read, once, and no other.
- Parser: every statement gets on with the input, it reads the input to its end, and its scopes
  are the blocks of the file.
- Debug backend: it prints what is stored, and forwards what the backend needs.
- Parser and backend: each element of the document has the type, the access and
  the parent it was declared with; what one declaration or one file leaves behind
  does not reach the next.

## What is hard about it

1. The queue has no locks: what keeps two threads out of one slot is arithmetic on
   tickets and turns.
2. The collecting loop decides that nothing more will come from two reads, of
   `threadCounter` and of `empty()`, made at different times, while workers
   finish, and while a worker may be waiting for room in `sharedQueue`.
3. A parser routine that fails leaves the cursor where it stopped, calls already
   recorded and scopes already opened. `SkipDeclaration` then goes on from there.
4. The backend works on stacks: a call takes the type written last and closes the
   element opened last, whoever wrote or opened it, and the last file's calls are
   followed by the next file's.
5. The backend's `assert`s contain the operations they check.
6. The tokenizer reads ahead by reading and going back, through comments and macros,
   and keeps the comment of a declaration by what the last two looks ahead have left;
   characters are put back in some places only if they are not the last of the file.
7. The debug backend keeps a second copy of the type stacks, beside one that is told of
   fewer calls.
8. Tokens and names are handed on as views, some of a string that is gone when they are
   used, and a Token is used in two places whether it has been filled or not.

`PROJECT.json` lists these, and smaller ones, as hazards, each at its line and
with the properties that would show it going wrong.

## The modules

| module | what it is |
|---|---|
| `MPMCQueue` | the queue, one action per atomic access |
| `FifoChannel` | abstract: what the queue promises, a log with no ring and no turns |
| `MPMCQueueProofs` | the inductive invariant of the queue and the theorems; the queue implements `FifoChannel` |
| `Reflector` | `main()`: the main thread and the workers on two instances of `MPMCQueue` |
| `SerialRun` | abstract: what the backend sees, one file after the other |
| `RecursionProofs` | lemmas about recursive functions: the loops of `Grammar`, and `FlattenSeq`, in which `Reflector` states what has been run |
| `ReflectorProofs` | the two queues inside `Reflector`, what the threads hold, and what the main thread runs: all that was sent, in order |
| `ReflectorSerialProofs` | each file is handled once and whole: `Reflector` implements `SerialRun` |
| `Grammar` | the routines of `parser.cc` that read a part of a declaration, as operators |
| `Parser` | `Parse`, `ParseStatement`, the scopes and the synchronizer, one action per declaration or block boundary |
| `TypeDb` | the backend, one action per call |
| `TypeDbProofs` | the backend under calls in any order: invariants and theorems |
| `DebugBackend` | the debug backend: what each call takes, prints and forwards |
| `TypeStrings` | `TypeData::ToString` |
| `Backends` | `TypeDb`, alone or behind `DebugBackend`, and the loop of `main.cc` that runs a result on them |
| `BackendsProofs` | the backends under any results whose calls match: invariants and theorems |
| `Translation` | `Parser` and `Backends` composed as in `main.cc`, from tokens to the document |
| `GrammarProofs` | what each routine of `Grammar` leaves behind: matching calls, and a cursor that has moved |
| `TranslationProofs` | the parser's inductive invariant, and with it the backends' theorems for every file |
| `Startup` | `main()` from the command line to the file queue, and `helpers.cpp` |
| `Tokenizer` | `tokenizer.cc`, `ParseDirective` and `ParseComment` on characters, as operators |
| `TokenStream` | abstract: what the tokenizer promises the parser |
| `Input` | `Startup`, `Tokenizer` and a parser's use of it, from the command line to the tokens |
| `MC...` | constants, sample files and bounds for TLC |

Definitions whose comment begins with "Wrong:" are not part of the models. Each
is a mistake somebody could make in the definition after it; putting it in that
definition's place must break the property named for it under `mutants` in
`PROJECT.json`, which shows that the property can see such a mistake.

### MPMCQueue

A variable for each of `head_`, `tail_`, `turn` and `storage`, and per thread the
local variables of the operation it is in: `pc`, `ticket`, `val` (the argument,
or what was popped) and `ret`. Every load, store or read-modify-write of an
atomic and every access to a slot's storage is a step of its own, so everything
the code allows to happen in between can happen. `sent` is history.

Memory order. Steps are sequentially consistent but for `empty()`, whose two
loads are relaxed and may return any older value of the counter, in either order of
evaluation. The other relaxed or acquire loads of `head_` and `tail_` are checked
by the compare-exchange or the second load that follows them, and those of `turn`
are acquire loads that pair with the release stores of `turn`; what a thread then
does to `storage` is ordered by them. `SlotExclusive` is the absence of a data
race on a slot. Tickets do not wrap: `MaxTickets` bounds them and 2^64 is out of
reach of any run of the program.

### Reflector

`mPc` is where the main thread is and `wPc[w]` where a worker is; the rest are the
variables of `main()`. Both queues are instances of `MPMCQueue`, so a worker in
the middle of `emplace` is in the middle of `emplace` here too. Loading a file
may fail, parsing may end in an error; a file's calls are `begin`, up to
`MaxDecls` others, and `end`. `hardware_concurrency()` may return 0 ("not
computable"), and the subtraction is unsigned: `UnsignedModulus` stands for
2^32. What `empty()` may return is narrowed where the code has synchronised: the
main thread has read `threadCounter = 0` before it calls `sharedQueue.empty()`,
and the decrement of each worker comes behind its last `emplace`.

### Grammar and Parser

A file is a sequence of tokens. A routine of `parser.cc` is an operator of the
cursor that returns what the routine leaves behind: whether it succeeded, the
cursor, whether it called `Error`, and the calls it made on the backend. A failing
routine therefore leaves exactly the cursor and the calls the code leaves. A loop is a
function of the number of rounds, of which there are no more than tokens that lead to
another one (`Count`). `ParseTypeNode` calls itself for the types in a type, each behind a
"<" or a "(" of its own: `Types` is what it leaves behind as a function of the cursor and
its arguments, level by level. So nothing in `Grammar` is declared `RECURSIVE`. The
recursion of `ParseNamespace` and `ParseClass` into `ParseStatement` is the stack
`scopes_`, so a statement is one step, and so is the "}" that ends a block. A
statement that fails makes the ones around it fail, up to `Parse`, which then
writes `end` (`Leave`).

Identifiers and keywords are strings and compared as the code compares them: where it
asks for the text of a token and not for its kind, as `SkipDeclaration` does, a string
constant with the text of a symbol is taken for the symbol (`Spelled`; a constant's text
begins with a quote in the model, so that it can be told from the symbol elsewhere).

What the code leaves undefined. The name of the typedef of a function pointer is a view
into a node that is destroyed before the name is used, and so is the generated name of an
enumeration: either is whatever the memory holds, one of `GoneNames`, if that has the same
length (`Reads`). At a file that ends behind the "=" of an enumerator or a default argument
the code uses a Token nobody has filled. It sets the cursor from it (`Nowhere`) and then
copies a view of no memory, which ends the program (`Crash`).

Specifiers, line numbers, enum values and default values are only copied to the
output and are left out of the calls; the tokens they are made of are read.
The declarations are those in `MCParser`: `Plain`, `Members` and `MembersOfA` are
what the grammar is written for, `Unusual` is C++ it reads only in part, and `Quoted` has
string constants with the text of a symbol. These are well formed: "it assumes the passed in
code will compile" (`README.md:17` of the repository). The files in `Alone` are not: they end in
the middle of a declaration.

### TypeDb

The document is a function from paths to elements, where a path is the sequence
of `<<tag, name>>` from the root, because `rewriteChild` finds a child by tag and
name and makes it if there is none. A child is only ever pushed below the top of
`m_nodeStack`, so the stack is a path. The elements of files are told apart by
their source. An argument of a template that has no name takes the first child with the tag,
whatever its name, as `rewriteChild` then does not look for one (`NamesFor`); which child is
the first is not kept, so it may be any of them. `Debug` says whether `assert` evaluates its
argument: every `takeType` and `popElement` stands in one.
A failed assert ends the program (`aborted`).

### DebugBackend and TypeStrings

The debug backend's calls differ in three ways: how many types they take to print
them (`Takes`), what they do to `m_indent` (`Opening`, `Closing`) and whether they are
forwarded (`Forwards`: all but `friend_`). Its stacks are those of `TypeDb` over again and
are modelled the same way. `TypeString` is the recursion of `ToString`; where the code
would read a child that is not there it is `<undefined>`, which no declaration's type is.

### Startup, Tokenizer and Input

Texts are TLA+ strings and read character by character. A routine of the tokenizer is an
operator of what it starts from, a record of the cursor, `comment_`, `lastComment_`
and `hasError_`, and returns what it leaves. The line of the cursor is a function of its
position (`LineAt`), as every routine that moves the one moves the other. A comment is
represented by the position it starts at. A loop that would not end makes `hung` true.
What the code leaves undefined is a choice: a name defined in the file is looked up through
a `string_view` of a string that is gone, so any name of its length may be found or not
(`MayBeFound`); an empty first line of the list makes `main` read in front of the text
(`ListUndefined`).

`Input` opens the listed files one after the other. A file that was read stays open and is
shared with nobody, so a name listed twice can be loaded once (`Open`). One worker reads
them here: what workers share is `Reflector`'s part. Of the parser it has only how it uses the tokenizer: `Read`
(`GetToken`), `Ask` (`GetIdentifier`, `GetConst`), `Match`, `PutBack` (the last token, or
any token it has kept to come back to) and `Preprocess`, in any order, which includes the
order `Grammar` uses. `MatchIdentifier` is `GetIdentifier` and `UngetToken` as far as
the tokenizer is concerned. What a text means (its words and where they are, which
comment stands in front of which word, which names it includes) comes with the
text, from the fragments it was made of in `MCInput`, and not from reading it; so does
whether a double quote opens a string that nothing closes (`unclosed`). The tokenizer has no character
literals: the double quote of one is such a quote, in a file that compiles.

`TokenStream` is the tokenizer's promise: a sequence of words, of which the next may be
taken, looked at, or put back with all behind it. It lets the parser pass only over words
of uses of names the file itself defines. `Grammar` is written on such a sequence.

### Backends and Translation

Whether the debug backend is there is chosen at the start. `Backends` has the loop that
runs the calls of a result, and says what the backends rely on (`Matched`): a result
begins and ends once (`Framed`), what its calls close they have opened (`Nested`), and
what they take they have written (`Supplied`). In `Translation` the parser runs a file, the result is taken from the queue and its calls are run one
at a time. The parser of one file and that of another share nothing, and neither
reads what the backend writes, so parsing the files one at a time, in the order in
which their results are run, reaches every document that any interleaving does; that
results do not mix is `Reflector`'s part (`ImplementsSerialRun`).

## The runs

| run | what it asks | result |
|---|---|---|
| `queue` | Is the ring a channel, are slots exclusive, do objects live once, and does nobody wait for a ticket that is lost? | holds |
| `reflector` | Does the backend see one file after the other, is everything collected and reported, does a worker that waits for room get it, and does the program end? | holds |
| `reflector_one_cpu` | Is every file handled when there is one processor? | violated |
| `parser` | Do the scopes follow the braces, is the file read to its end, and does every statement get on with it? | holds |
| `parser_cut_short` | The same of C++ the grammar does not cover: is it read to its end? | violated |
| `parser_inline_friend` | The same of friend functions with a body: do the scopes follow? | violated |
| `typedb` | Is the document a tree and each file started clean, whatever the calls? | holds |
| `translation` | Does each declaration reach the document with what it was declared with, do the calls of a result match, does nothing leak into the next, and does the debug backend print what is stored? | holds |
| `translation_release` | Is each file started clean where `NDEBUG` is defined? | violated |
| `translation_overload` | Are two constructors two elements? | violated |
| `input` | Is every listed file read once, does the parser get its words, and do the routines end but for unclosed quotes? | holds |
| `input_macro_arguments` | Is the README's annotation accepted? | violated |

Bounds, and why they are enough to make the interesting cases happen:

- `queue`: two threads, each of which may run any operation, two values, two slots,
  five tickets. That is two and a half rounds of the ring, so a slot is handed
  from a producer to a consumer, to the next round's producer and on; producers lap
  a stalled consumer and the other way round. Threads and values are symmetric.
  All of the run is also proved for any number of each. The invariants of the proofs, `IInv` and
  `TicketsKept`, hold in this run too when they are added to its configuration.
- `reflector`: two files, two workers, and a result queue of one slot where the
  program has 4096, so that workers wait for room most of the time.
  `HardwareConcurrencies` = 0, 2 and 3 leads to one and two workers (0 wraps to the
  largest number and is cut to the number of files); 1, no worker, is
  `reflector_one_cpu`. A file's calls are `begin` and `end` (`MaxDecls` = 0), which is enough
  to see calls of two files mix. TLC also finds no deadlock. All of the run but `Termination`
  is also proved, for any number of files, workers, slots and calls.
- `parser`: files of up to two declarations or blocks of one declaration, and
  files of one block around up to two declarations or blocks, of each kind of
  block; all declarations but the one `parser_cut_short` is about, so some are
  given up half-way and skipped, and some with the string constants `";"` and `","`. Two
  declarations in a row show what one leaves for the next. The files `Alone` end behind a
  "=" or inside a structure, or have an enumeration without a name. `GoneNames` is the names
  of two typedefs and one as long as that of the enumeration.
- `typedb`: up to two open elements and one type and template waiting, with any
  call at any time, the ones no parser makes included.
- `translation`: a first file as in `parser`, of fewer declarations but with the
  `Unusual` ones, then a second file into the same document whose declarations
  take types and elements; with and without the debug backend. `NothingLeftOver` asks for emptied stacks only if no
  declaration was abandoned: a variable of a function pointer's type
  and `template<...> using` do leave a type or a template behind;
  `TypesReachDeclarations` then shows that the types are not taken by others. Of the
  typedef of a function pointer it asks for the type only: the element may have any name.
  `ResultsMatch`, `AssertsHold`, `FilesStartClean`, `PrintsWhatIsStored` and
  `IndentCoversDocument` are proved for all files that do not end in "=".
- `input`: every two of twelve words (an identifier, a keyword of the tokenizer, numbers, a
  string with an escaped quote, symbols of one, two and three characters) with every
  one of twelve blanks, comments and annotations between them; one word between any
  two of these; lines with nothing between the words; and whole files
  with an include guard, includes, a definition of several lines, an annotated class and
  character literals, one of them a double quote that nothing closes. A
  token depends on nothing before the look-ahead it was read in, except the comment, so two
  words show every token in every context; the whole files show what
  accumulates. Lists have up to three lines of six kinds, which may name a file twice, and may end in a line without a
  newline. The texts end in a newline, and their comments are closed. Not among
  them, because the code is known to do otherwise: arguments with a
  value (`input_macro_arguments`), `&&` followed by `...` (read as one symbol and "..": see
  `SymbolEnd`), and a `#define` that continues behind an empty line or the end of the file.

Deadlock is checked where the process must go on until it ends (`Reflector` and `Input`, with
`Ended` and `Done` for a process that has). The queue alone may stop when its tickets are
used up or everybody waits in `pop`, and the parser and the backend stop
behind the last file, so those runs do not check it.

Fairness is assumed by `Termination` only: weak fairness of the main thread and of
each worker, which is what a scheduler that runs every runnable thread gives. A
worker that waits for a slot spins in a step that is enabled once its turn has come and
stays so, as nobody else may take that turn. Nothing is assumed about who wins a
compare-exchange.

## Findings

Each is shown by a run whose expected result is a violation.

1. `main.cc:94`: on one processor `threadCount` is 0, no worker is started, and
   the program returns 0 without having opened a file (`reflector_one_cpu`).
2. `parser.cc:649`: a `typedef` whose type cannot be parsed, such as
   `typedef struct { int i; } R;`, returns false without an `Error`, and `Parse`
   takes it for the end of the file, which counts as parsed (`parser_cut_short`).
3. `parser.cc:732`: `ParseFriend` skips to the first ";", also inside the body of
   a friend function; the "}" of the body then closes the class
   (`parser_inline_friend`).
4. `TypeDbParserInterface.cpp:75` and the like: with `NDEBUG` nothing is ever popped
   or taken (`translation_release`).
5. `TypeDbParserInterface.cpp:391`: overloaded functions are one element with the
   arguments of all of them, where `README.md:155,164` shows two
   (`translation_overload`).
6. `tokenizer.cc:263`: an annotation's argument with a value, `TFUNC(Arg=3)` as in
   `README.md:37`, is an error, and the rest of the file is not read
   (`input_macro_arguments`).

## The proofs

Each theorem is about every value of the constants that meets the assumptions named in its
module or the module it is about.

### The queue

`MPMCQueueProofs`, for any sets of threads and values, any capacity above zero
(the constructor throws on zero) and any number of tickets:

- `TypeCorrect`: types, and that `sent` has one entry per producer ticket.
- `Invariant`: `Spec => []IInv`. The properties are not inductive: that two
  threads are not in one slot rests on where the slot's turn stands relative to
  the tickets. `IInv` says that a slot's turn is not beyond the tickets handed out
  (`TurnBehindCounters`), that each ticket has one holder and its slot has not
  passed it, and stands exactly at it once the holder has seen so
  (`ProducersInTurn`, `ConsumersInTurn`), what a slot holds between its turns
  (`EmptySlotsRaw`, `FullSlotsHoldTheirValue`) and what the holder knows of it
  (`OwnSlot`). The step that needs care is the compare-exchange of the `try_`
  operations: between the test of the turn and the exchange the slot may move
  on, but then so has the counter, and the exchange fails.
- `NoSlotRace`, `StorageLifecycleHolds`, `DeliveryInOrder`, `RefusalsJustified`:
  the properties of the run `queue`, from `IInv`.
- `NobodyWaitsForNothing`: `WaitsForAnother`. `IInv` says what a thread that holds a ticket
  may rely on and not that a ticket is held, so this needs more: `TicketsKept`, that every
  ticket handed out is still held, or its slot has got past it. A thread gives its ticket up
  only by storing the next turn of the slot, and nobody else can turn that slot meanwhile
  (`TicketsStayKept`). What a thread waits for, the consumer of the round before or
  the producer of its ticket, is then there or still to come, and as it has a lower ticket
  or is a producer's, nobody waits in a circle.

The arithmetic is in `SlotAndRound` and `TicketUnique`: slot and round determine a
ticket.

- `ChannelImplemented`: the ring implements `FifoChannel`. A position of the log is
  reserved by the step that takes a producer's ticket, published by the store of the turn
  behind the construction, claimed by the step that takes a consumer's ticket and
  received by the move out of the slot; every other step is a stutter. There is a lemma for
  each of these. What has to be shown is that a step on one slot changes no other
  position of the log: one slot stands for every position a round apart, and `LapBack` is
  the fact that a ticket whose slot has gone on by a lap was published, and received, before.

### The pipeline

`Reflector` has these assumptions on its constants: one listed file at least (with none,
the constructor of `fileQueue` throws), no worker is the main thread, and there are as
many workers as files at least (`main` starts no more threads than files); a capacity
above zero, and `HardwareConcurrencies` any set of numbers, zero among them or not.

The invariants build on each other, each proved together with those before it; the
modules have one lemma per part and step.

1. `ReflectorProofs`. What is known of a queue in the middle of an operation comes from
   the invariant of `MPMCQueueProofs`; the lemmas up to `StepOutline` use it once and for
   all, to describe each step by its effect on the counters, the logs and the threads,
   and no proof behind them speaks of slots. `Base` is the inductive invariant: types, which
   operation a thread is in at each place of its program (`InOperation`), `threadCounter` is
   the number of workers still running (`ThreadsCounted`), and whose file a worker has.
   - `QueuesUsed`: every step of `main.cc` is a step of `MPMCQueue`, or none, for
     either queue. So what is proved of the queue holds of both.
   - `QueuesAreChannels`: both implement `FifoChannel`.
   - `NoVainWaits`: `NobodyWaitsInVain`. The main thread lists the files without waiting, as
     `fileQueue` has a slot for each. A worker waits for room in `sharedQueue` only for a
     Result that is still to be taken or being taken out (`TicketsKept` of that queue), by the
     main thread, the only one to take any (`OnlyMainTakes`); and that one has not left its
     loop, as `threadCounter` counts the worker that waits.
2. Also there, `LogInv`: what has been run is what was popped, in the order of the
   tickets, less the rest of the Result being run; and when the loop has ended no worker
   runs and every ticket was popped. The last part is the race of the collecting loop: once
   `threadCounter` has been read as zero no worker takes a ticket any more, so the two
   loads of `empty()`, however old, are of counters that stand still.
   - `AllCollected`: `CollectedAll`.
   - `MessagesBehindFile`: `MessagesFollowFile`, since a worker sends a file's
     calls before its messages (`SentMessages`) and Results are run in the order of the
     tickets.
   - `FilesReported`: `ReportsParsedFiles`. Two equations carry it: `filesParsed` and the
     workers about to count make the files sent without an error (`Balanced`), and the
     ends of files that were run are those of the Results that were run (`Tallied`).
3. `ReflectorSerialProofs`. `FilesInv`: a file has one owner, who is the only one to send
   of it, each kind of Result once, and whatever was taken is owned or sent; a
   worker leaves only when the list is empty.
   - `TypeCorrect`: `TypeOK`, whose part about `filesParsed` needs that no file is sent twice.
   - `FilesHandled`: every listed file was run or reported when the program ends.
   - `SerialRunImplemented`: the program with all its threads implements `SerialRun`. The run
     of a file's `begin` chooses the file, the last of its calls ends it, and the
     rest stutters.
   - `BoundsRefuseNothing`: the bounds on tickets that the model puts on the two queues
     never refuse a step the program takes; a worker sends three Results of a file at most.

`FilesHandled` and `SerialRunImplemented` have the hypothesis `OneThread`: `main` starts a
worker for each count of hardware threads there is. It is needed: `reflector_one_cpu` is the
program without it, and there no file is read.

`RecursionProofs` has the facts about concatenation these proofs need. `FlattenSeq` is a
recursive function and the induction theorems of the library cannot be used for it; the
proof takes the shortest sequence the fact fails for, which exists because the natural
numbers are well founded. The facts about loops that go round by round, for `Grammar`, are
proved the same way (`RoundsStay`, `RoundsExist`).

### The type database backend

`TypeDbProofs`, for any set of calls in any order (`CallsAssumption`: their
arguments are strings, and no call has the root element's tag `typedb` as the tag
of a class; `StringsAssumption`: the strings the backend writes itself are among
the strings):

- `TypeCorrect`: the document stays a tree with the element stack in it, with
  and without asserts. One lemma for the calls inside a file (`InsideTypes`), which
  rests on lemmas about pushing, writing and popping an element.
- `FilesClean`: with asserts, each file starts with no element open. `end` makes
  three elements and pops three, from a stack it has cleared unless its top is the root
  element; so it must be shown that the root element is only ever at the
  bottom (`RootOnlyAtBottom`), and that is the rest of the inductive invariant
  `CleanInv`. Without asserts the run `translation_release` shows the opposite.

### Both backends

The backends see only the results of the parser. `ResultsMatch` says what these look like;
`BackendsProofs` takes it from there, and the next section shows it. The specification `BackendsSpec`
sends the backends one result after the other, any sequences of calls that are
`Matched`, of any length and number, and runs them with `RunCall`, with and without the
debug backend. The theorems are for builds whose asserts are evaluated (`Debug`).

- `AssertsNeverFail`: no assert of either backend fails.
- `PrintedIsStored`: the types the debug backend prints of a call are those the database
  takes for it.
- `DepthIndented`: the indentation covers the depth of the document.
- `ResultsStartClean`: no element stays open between two results.
- `TypesClosed`: no type is still being written between two results, in either backend.

`Matched` speaks of the calls of one result, and the asserts of stacks on which several
results have left things; the invariant `BackendsInv` relates the two. When `i` calls
of a result are run, the open types are as many as the calls left open, and the same in
both backends; the element stack is the root and what the calls left open; the
indentation is at least that and the open enumerations, templates and macros. Of the
completed types it says only that the last ones are those written and not taken (`Reach`),
counted from the beginning of the result or from a `friend_` (`Cuts`). More would not be
true: `friend_` takes a type in the debug backend and none in the database, so from there
on the two stacks have different lengths and agree in what is written later. What earlier
results left below is not spoken of and may be anything. How a single call changes the
stacks of either backend is `PrinterEffect` and `InsideEffect`; that the root element
stays at the bottom comes from `TypeDbProofs`.

`Supplied` asks for the types of a call to be written behind the last `friend_`. The
asserts alone would do with less; `PrintedIsStored` needs it.

### The parser, and the whole translation

`TranslationProofs`, for any number of files, any set of token sequences a file may be, well
formed C++ or not but not ending in "=", and any length of them:

- `CallsMatch`: the calls of every result match. A declaration that is given up half-way
  leaves calls behind, and the parser goes on from wherever it stopped; still nothing is closed
  that was not opened, and nothing taken that was not written.
- `StatementsAdvance`: every statement takes the cursor forward or ends the file, so that the
  loops of `Parse` and `ParseClass` end.
- `ParserTypes`: the cursor stays in the file, so no Token is used that was not filled; and the
  file's own scope is at the bottom of the scopes and nowhere else.
- `BackendsServed`: `Translation` implements `BackendsSpec`. With it the five theorems about the
  backends become theorems about the program: `NoAssertFails`, `FilesAlwaysStartClean`,
  `TypesAlwaysClosed`, `PrintedAsStored` and `IndentedAsDeep`.

The hypothesis `Texts` says that tokens, and the words the parser and the backends write, are
strings, that strings stay strings when they are put together, and that `Files` is a sequence of
sets of token sequences. It is met by the runs' `Strings`, which is `STRING`; it is a hypothesis
and no `ASSUME` of `Parser`, because TLC cannot evaluate it over all strings. The hypothesis
`NoneCut` says that no file ends in "=". It is needed: behind the "=" of an enumerator or a
default argument such a file sets the cursor from a Token nobody has filled, which may be
anywhere (`parser.cc:425`, `parser.cc:855`). Any other file, cut off wherever it may be, is
covered. What the memory of a name that is gone holds (`GoneNames`) may be any strings.

The argument. `States` counts four things: the types that are open, the types written behind
the last `friend_` and not taken, the open elements and the other open brackets. `Runs(w, s, t)`
says that the calls `w`, each allowed where it is made, lead from the counts `s` to the
counts `t`; calls that run from `Zero` match (`CountsAlways`).

1. `GrammarProofs`: each routine has a place among such calls. `Leaves(p, n, e, x)` are the
   results that stay in the file behind `p`, take at most `n` types that lie ready, and open `e`
   elements and `x` other brackets more than they close. One that fails need not close what it
   has opened, but has closed no more; so what it leaves open can only be too much. A type writes
   itself whatever is open, and lies ready outside of types (`IsType`). A list of any length keeps
   what one item keeps (`ListStays`), a type of any depth what one level keeps (`TypesIs`).
2. `ParserInv`: the queue of the file is `begin` and calls that run from `Zero` to counts with no
   open type and with as many open elements as there are scopes on the stack above the
   file's (`QueueIs`). The "}" of a block closes an element, and this is what says that there is
   one. With less, that the calls so far match, the invariant would not be inductive. There is
   one lemma per kind of statement, and one for the end of a file.

### What is only model-checked

- `Termination`: liveness is outside what the prover does. The steps that would have to
  happen are in the theorems: `StatementsAdvance` for the parser; for the pipeline, that who
  waits has somebody to wait for who does not wait for them (`NobodyWaitsForNothing`,
  `NoVainWaits`), and that the loop takes all there is (`AllCollected`).
- `ScopesFollowBraces` and `ReadToTheEnd`. They are true of C++ the grammar is written for and not
  of every token sequence, as `parser_inline_friend` and `parser_cut_short` show; a theorem
  would need a definition of that part of C++, which the repository does not have.
- `TypesReachDeclarations`, `PrivateInClass`, `NothingLeftOver`: what the sample declarations mean
  comes with them. The part of `NothingLeftOver` that holds of any file, that no type is still
  being written when a result ends, is `TypesAlwaysClosed`.
- The properties of `Input`, and that the tokenizer implements `TokenStream`. `Tokenizer`,
  `Startup` and `TypeStrings` have recursive operators, as the routines they stand for are, and
  the prover does not take a module that reaches such an operator.

## What is left out, and why

- The values of constants: only their text reaches the backend. A number of more than
  64 bits, at which the tokenizer throws twice, does not compile.
- Files that end in "=", once the program has copied a view of no memory (`Crash`). If the
  length of that view happens to be 0 it goes on, from anywhere and perhaps for ever:
  `Advances` and `ReadToTheEnd` say nothing of that.
- A string constant "{" or "}" in what `SkipDeclaration` skips. The code counts it as a brace
  (`parser.cc:354-360`) and takes the scopes to be other than they are. `Grammar` does
  the same (`Spelled`); the files of the run `parser` have no such constant, as
  `ScopesFollowBraces` is not true of them.
- Whether a last "}" behind a comment is lost in a file without a newline at its end
  (`tokenizer.cc:208`): `LoseLast` is part of `Tokenizer`, but the texts of the run end in a newline.
- An upper bound of `m_indent`, and the buffer it is printed to.
- Specifiers, line numbers, enum values, default values, and the names of array bounds:
  they are copied to the output and nothing depends on them.
- What becomes of the calls `include` and `comment`: the synchronizer records both as
  `include` (`ParserInterfaceSynchronizer.cpp:61`), and the type database backend ignores both.
- Logging, the text the debug backend prints but for the types, the XML library and the
  writing of the file: formatting, with nothing to interleave.
- `Node.cpp`, `handler.h`, `main.h`: no code of the program uses them. Build files.
- The access of members of structures, which the code does not write
  (`parser.cc:521`): `PrivateInClass` is about classes only.

## The plan

Done, in this order, the behaviour that matters most first: the queue, its channel
and its proofs; the pipeline on two queues and its serial specification; the grammar
and the parser; the backend and its proofs; parser and backend together; the debug
backend as a second implementation of the calls; the command line, the characters and
the tokens; the proofs that the queue is a channel, that the pipeline uses it as one, that
it runs all that is sent and that nobody can tell it from a serial program; the proofs
that the backends' asserts hold and that one prints what the other stores; the proof that
whatever the parser reads but files that end in "=", its calls are those the backends can rely on.

To do:

1. The pipeline with the calls of real files in place of abstract ones; structures: what
   access their members get in the document.
2. Proofs: that results that take all they write leave the stacks empty, as
   `NothingLeftOver` says of the files of the run.
