------------------------------ MODULE Startup ------------------------------
(***************************************************************************)
(* How main() starts: the command line and the list of files, main.cc and  *)
(* helpers.cpp, up to the file queue and the choice of the generator.      *)
(***************************************************************************)
EXTENDS Integers, Sequences, FiniteSets, FiniteSetsExt, SequencesExt

VARIABLES
    argv,           \* the command line, a sequence of strings
    fileListData,   \* the text of the list file, "" if there is none
    starting,       \* where main() is
    ptr,            \* what is left of fileListData
    fileList,
    exit            \* how the program ended before it started a thread, or ""

vars == <<argv, fileListData, starting, ptr, fileList, exit>>

-----------------------------------------------------------------------------
(* Strings. *)

At(string, i) == SubSeq(string, i, i)
Places(string, c) == {i \in 1 .. Len(string) : At(string, i) = c}
From(string, i) == SubSeq(string, i, Len(string))

RECURSIVE Explode(_, _)
Explode(in, delimiter) ==
    IF Places(in, delimiter) = {} THEN <<in>>
    ELSE LET pos == Min(Places(in, delimiter))
         IN  <<SubSeq(in, 1, pos - 1)>> \o Explode(From(in, pos + 1), delimiter)

-----------------------------------------------------------------------------
(* The command line: "--key", "--key=value", and the rest, argv[0] included. *)

IsSwitch(arg) == SubSeq(arg, 1, 2) = "--"
Key(arg) == LET equals == Places(arg, "=")
            IN  SubSeq(arg, 3, IF equals = {} THEN Len(arg) ELSE Min(equals) - 1)
Value(arg) == LET equals == Places(arg, "=")
              IN  IF equals = {} THEN "" ELSE From(arg, Min(equals) + 1)

\* The switch given last counts
GetArgumentSwitch(key, def) ==
    LET given == {i \in DOMAIN argv : IsSwitch(argv[i]) /\ Key(argv[i]) = key}
    IN  IF given = {} THEN def ELSE Value(argv[Max(given)])

args == SelectSeq(argv, LAMBDA arg : ~IsSwitch(arg))
GetArgmentPos(index) == IF index >= Len(args) THEN "" ELSE args[index + 1]

inputFile == GetArgmentPos(1)
macroList == Explode(GetArgumentSwitch("macros", ""), ",")

-----------------------------------------------------------------------------

Init ==
    /\ starting = "arguments" /\ ptr = "" /\ fileList = <<>> /\ exit = ""

\* One file from the command line, or those of a list.  That the list cannot be loaded
\* is not noticed.
ReadArguments ==
    /\ starting = "arguments"
    /\ IF GetArgumentSwitch("list", "") = ""
       THEN fileList' = <<inputFile>> /\ starting' = "queue" /\ UNCHANGED ptr
       ELSE ptr' = fileListData /\ starting' = "list" /\ UNCHANGED fileList
    /\ UNCHANGED <<argv, fileListData, exit>>

\* Wrong: a carriage return is left at the end of the name
LineEndKept(pos) == pos
\* ptr[pos - 1] == '\r'
LineEnd(pos) == IF pos > 1 /\ At(ptr, pos - 1) = "\r" THEN pos - 1 ELSE pos

\* A line up to the newline at pos; one that begins with "#" is a comment.  In front of
\* an empty line is the newline of the line before, and f[0] of an empty name is the
\* character at the end of the line.
ListLine ==
    /\ starting = "list" /\ Places(ptr, "\n") # {}
    /\ LET pos == Min(Places(ptr, "\n"))
           f   == SubSeq(ptr, 1, LineEnd(pos) - 1)
       IN  /\ fileList' = IF At(ptr, 1) = "#" THEN fileList ELSE Append(fileList, f)
           /\ ptr' = From(ptr, pos + 1)
    /\ UNCHANGED <<argv, fileListData, starting, exit>>

\* If the first line is empty, ptr[pos - 1] is in front of the text: it cannot be read, or
\* happens to be a carriage return, and then the whole text is a name
ListUndefined ==
    /\ starting = "list" /\ ptr = fileListData /\ 1 \in Places(ptr, "\n")
    /\ \/ exit' = "crashed" /\ UNCHANGED <<ptr, fileList>>
       \/ fileList' = <<ptr>> /\ ptr' = From(ptr, 2) /\ UNCHANGED exit
    /\ UNCHANGED <<argv, fileListData, starting>>

\* No newline is left: the rest is dropped
ListEnd ==
    /\ starting = "list" /\ exit = "" /\ Places(ptr, "\n") = {}
    /\ starting' = "queue"
    /\ UNCHANGED <<argv, fileListData, ptr, fileList, exit>>

\* The file queue's constructor throws if there are no files; the files are put in,
\* which never has to wait; then the generator is looked for
MakeQueue ==
    /\ starting = "queue"
    /\ exit' = IF fileList = <<>> THEN "threw"
               ELSE IF GetArgumentSwitch("generator", "typedb") # "typedb" THEN "no generator"
               ELSE ""
    /\ starting' = "started"
    /\ UNCHANGED <<argv, fileListData, ptr, fileList>>

Next == exit = "" /\ (ReadArguments \/ ListLine \/ ListUndefined \/ ListEnd \/ MakeQueue)
=============================================================================
