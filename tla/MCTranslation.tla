--------------------------- MODULE MCTranslation ---------------------------
(* Small files for the whole way from tokens to the document. *)
EXTENDS Translation, TypeStrings, MCParser

AllStrings == STRING

\* The declarations whose calls differ from those of the others, and two with more of
\* the calls in them
Few        == {d \in Plain : \E i \in DOMAIN d : d[i] \in {"x", "f", "F", "U", "u"}}
FewMembers == {d \in Members : d[1] \in {"private", "friend"}}
FewOfA     == {d \in MembersOfA : d[1] = "A"}

Subscript   == {d \in Plain : "[" \in Range(d)}
Enumeration == {d \in Plain : "enum" \in Range(d)}
First == FilesOf(Few \cup Unusual, FewMembers, FewOfA)
           \cup Subscript \cup Enumeration \cup Quoted

\* What comes behind a first file: declarations that take what it left
Second  == {d \in Plain : Head(d) \in {"int", "bool"}} \cup {ClassA \o d \o <<"}", ";">> : d \in FewOfA}
TwoFiles == <<First, Second>>
OneFile  == <<AtMostTwo(Few \cup Unusual)>>

\* A class with two constructors
OneOverload ==
    <<{ClassA \o d \o <<"A", "(", "int", "a", ",", "char", "*", "b", ")", ";", "}", ";">> :
          d \in FewOfA}>>

-----------------------------------------------------------------------------
(* What the declarations of these files say. *)

\* The types each name is declared with; the second unnamed structure of a file is
\* numbered 1
DeclaredTypes(name) ==
    CASE name \in {"f", "operator()"} -> {"bool"}
      [] name \in {"g", "h", "d", "~A"} -> {"void"}
      [] name \in {"x", "i", "z", "a"} -> {"int"}
      [] name = "y" -> {"vector<int>"}
      [] name \in {"b", "s"} -> {"char*"}
      [] name = "A" -> {"A"}
      [] name = "T" -> {"unsigned long"}
      [] name = "u" -> {"unnamed-struct0", "unnamed-struct1"}
      [] OTHER -> {}

Elements(tags) == {q \in DOMAIN m_document : q # <<>> /\ Last(q)[1] \in tags}
IsType(name, type) == TypeString(type) \in DeclaredTypes(name)
\* The one typedef of a function pointer.  Its name is gone when it is used (parser.cc:993),
\* so that it may stand under any.
IsPointerTypedef(q) == Last(q)[1] = "typedef" /\ TypeString(m_document[q].type) = "void(*)(int)"

\* Every property, typedef, function and argument in the document has the type it
\* was declared with, and every class the bases, also after declarations that wrote a
\* type and were then abandoned: takeType takes the type written last, and ToString
\* finds below it what it is made of.  Of the typedef of a function pointer only the type
\* is asked, not that it is found under its name.
TypesReachDeclarations ==
    /\ \A q \in Elements({"property", "typedef", "function"}) :
          IsType(Last(q)[2], m_document[q].type) \/ IsPointerTypedef(q)
    /\ \A q \in Elements({"function"}) : \A i \in DOMAIN m_document[q].args :
          IsType(m_document[q].args[i][1], m_document[q].args[i][2])
    /\ \A q \in Elements({"class", "struct"}) : \A i \in DOMAIN m_document[q].bases :
          /\ Last(q)[2] = "W"
          /\ m_document[q].bases[i][1] = "public"
          /\ TypeString(m_document[q].bases[i][2]) = "A"

\* A member function of a class that is declared behind "private:" is private in
\* the document, whatever access specifiers the classes around it and in it have.
PrivateInClass ==
    \A q \in Elements({"function"}) :
        Last(q)[2] = "h" /\ Len(q) > 1 /\ q[Len(q) - 1][1] = "class"
            => m_document[q].access = "private"

\* The declarations that write a type or a template no call takes: a variable of a
\* function pointer's type, given up at its "(", and a template in front of a using
Abandoned == {"c", "V"}

Friends == Cardinality({i \in DOMAIN input : input[i] = "friend"})

\* The types of a file are closed when it ends.  If none of its declarations is
\* abandoned and it was parsed without an error, every type and template it wrote has
\* been taken as well: nothing is left for a declaration of the next file to take.  Only
\* behind the debug backend, which keeps friend_ to itself, are the types of friends left.
NothingLeftOver ==
    ~parsing /\ m_resultQueue = <<>> /\ result = <<>> /\ ~aborted =>
        /\ m_typeStack = <<>> /\ printedTypeStack = <<>>
        /\ parsed = <<[returned |-> TRUE, unread |-> FALSE]>> /\ Range(input) \cap Abandoned = {}
              => /\ Len(m_doneTypes) = IF debug THEN Friends ELSE 0
                 /\ m_doneTemplates = <<>>
                 /\ printedDoneTypes = <<>>

\* Two functions of one name are two functions, as the two constructors of README.md:155
\* and 164 are: no function in the document has two arguments of the same name.
OverloadsApart ==
    \A q \in Elements({"function"}) :
        LET args == m_document[q].args IN \A i, j \in DOMAIN args :
            args[i][1] # "" /\ args[i][1] = args[j][1] => i = j
=============================================================================
