------------------------------ MODULE Backends ------------------------------
(***************************************************************************)
(* The two backends behind each other as main.cc puts them, and the loop   *)
(* that runs the calls of a result on them.  Where the results come from   *)
(* is left to the modules that extend this one.                            *)
(***************************************************************************)
EXTENDS Integers, Sequences, FiniteSets

CONSTANTS Debug, Strings      \* see TypeDb

ASSUME ParametersAssumption ==
  /\ Debug \in BOOLEAN
  /\ {"", "public", "typedb", "source-map", "file", "namespace", "property", "typedef",
      "function", "template-argument"} \subseteq Strings

VARIABLES
    m_document, m_nodeStack, m_access, m_typeStack, m_doneTypes,
    m_templateData, m_doneTemplates, inFile, aborted,
    debug,          \* the switch
    m_indent,       \* the debug backend, with its types
    printedTypeStack, printedDoneTypes,
    result          \* what is left of the result being run

db == INSTANCE TypeDb
dbVars == <<m_document, m_nodeStack, m_access, m_typeStack, m_doneTypes,
            m_templateData, m_doneTemplates, inFile, aborted>>
printer == INSTANCE DebugBackend WITH
    m_typeStack <- printedTypeStack, m_doneTypes <- printedDoneTypes
printerVars == <<m_indent, printedTypeStack, printedDoneTypes>>
backendVars == <<dbVars, debug, printerVars, result>>

BackendsInit ==
    /\ db!Init /\ printer!Init
    /\ debug \in BOOLEAN
    /\ result = <<>>

\* The call c on the debug backend, and from there on the type database backend
PerformPrinted(c) ==
    IF printer!Fails(c)
    THEN /\ ~aborted /\ aborted' = TRUE
         /\ UNCHANGED <<m_document, m_nodeStack, m_access, m_typeStack, m_doneTypes,
                        m_templateData, m_doneTemplates, inFile, printerVars>>
    ELSE /\ ~aborted /\ printer!Perform(c)
         /\ IF printer!Forwards(c) THEN db!Perform(c) ELSE UNCHANGED dbVars

\* result.m_queue.front()(); result.m_queue.pop_front()
RunCall ==
    /\ result # <<>>
    /\ IF debug THEN PerformPrinted(Head(result))
                ELSE db!Perform(Head(result)) /\ UNCHANGED printerVars
    /\ result' = Tail(result)
    /\ UNCHANGED debug

-----------------------------------------------------------------------------
(* Results whose calls match: what the backends rely on.                   *)

ElementOpening == {"beginNamespace", "beginClass", "beginProperty", "beginTypedef",
                   "beginFunction"}
ElementClosing == {"endNamespace", "endClass", "endProperty", "endTypedef", "endFunction"}
OtherOpening   == {"beginEnum", "beginTemplate", "beginMacro"}
OtherClosing   == {"endEnum", "endTemplate", "endMacro"}

\* Of the calls of r behind the k-th and up to the i-th: those of the operations ops, the
\* ends of types that are not part of another, and the types taken
NumberOf(r, ops, k, i) == Cardinality({j \in k + 1 .. i : r[j][1] \in ops})
TypesOpen(r, i) == NumberOf(r, {"beginType"}, 0, i) - NumberOf(r, {"endType"}, 0, i)
Written(r, k, i) == Cardinality({j \in k + 1 .. i : r[j][1] = "endType" /\ TypesOpen(r, j) = 0})
TakenBy(r, k, i) ==     \* a call takes two types at most
    Cardinality({j \in k + 1 .. i : printer!Takes(r[j]) > 0})
      + Cardinality({j \in k + 1 .. i : printer!Takes(r[j]) > 1})

\* The calls behind which the types written before are out of reach: friend_ leaves the two
\* backends with different ones
Cuts(r, i) == {0} \cup {k \in 1 .. i : r[k][1] = "friend_"}

OpenBefore(r, i, opening, closing) ==
    NumberOf(r, opening, 0, i - 1) > NumberOf(r, closing, 0, i - 1)

\* A file begins and ends once.
Framed(r) ==
    /\ Len(r) > 1
    /\ \A i \in DOMAIN r : (r[i][1] = "begin" <=> i = 1) /\ (r[i][1] = "end" <=> i = Len(r))
\* What is closed was opened, in the same file.  What a file leaves open is no matter,
\* but for types.
Nested(r) ==
    /\ \A i \in DOMAIN r :
          /\ r[i][1] \in {"typeName", "endType"} => TypesOpen(r, i - 1) > 0
          /\ r[i][1] \in ElementClosing => OpenBefore(r, i, ElementOpening, ElementClosing)
          /\ r[i][1] \in OtherClosing => OpenBefore(r, i, OtherOpening, OtherClosing)
    /\ TypesOpen(r, Len(r)) = 0
\* What is taken was written, in the same file and behind its last friend_.
Supplied(r) ==
    \A i \in DOMAIN r : \A k \in Cuts(r, i - 1) :
        printer!Takes(r[i]) <= Written(r, k, i - 1) - TakenBy(r, k, i - 1)
\* No class has the root element's tag.
NoSecondRoot(r) == \A i \in DOMAIN r : r[i][3] # "typedb"

Matched(r) == Framed(r) /\ Nested(r) /\ Supplied(r) /\ NoSecondRoot(r)

-----------------------------------------------------------------------------

\* The asserts of the backends hold, whatever is declared and however a declaration
\* is abandoned half-way: there is a type for each call that takes one and an
\* element for each call that closes one (takeType, popElement), and the debug
\* backend never prints left of the margin (printf).
AssertsHold == ~aborted

\* No element stays open from one result to the next (the end of end()).
FilesStartClean == db!FilesStartClean

\* The debug backend prints the types the type database backend stores: of the call
\* that is next, both take the same types, although what lies below them differs once a
\* friend_ was not forwarded.
PrintsWhatIsStored ==
    debug /\ result # <<>> /\ ~aborted =>
        LET c == Head(result) IN
        printer!Forwards(c) /\ Len(m_doneTypes) >= printer!Takes(c) =>
            printer!LastTypes(printedDoneTypes, printer!Takes(c))
                = printer!LastTypes(m_doneTypes, printer!Takes(c))

\* The debug backend indents a call at least as far as its element lies in the
\* document, also behind elements that an abandoned declaration left open and that
\* end() closed in the document.
IndentCoversDocument == debug => m_indent >= Len(m_nodeStack)
=============================================================================
