------------------------------- MODULE TypeDb -------------------------------
(***************************************************************************)
(* The type database backend, TypeDbParserInterface.cpp: it turns the      *)
(* backend calls of the parser into an XML document.  One action is one    *)
(* call.  The document is a tree, written as a function from the path of   *)
(* an element, the <<tag, name>> of each element down to it, to what is    *)
(* stored there.  An element is always pushed as a child of the top of     *)
(* m_nodeStack, so the stack is the path of its top.                       *)
(***************************************************************************)
EXTENDS Naturals, Sequences, SequencesExt

CONSTANTS
    Debug,      \* assert evaluates its argument; it does not when NDEBUG is defined
    Strings     \* the names and values there are

ASSUME DebugAssumption == Debug \in BOOLEAN

\* Among them are the ones the backend writes itself.
ASSUME StringsAssumption ==
    {"", "public", "typedb", "source-map", "file", "namespace", "property", "typedef",
     "function", "template-argument"} \subseteq Strings

VARIABLES
    m_document,
    m_nodeStack,
    m_access,
    m_typeStack,        \* the types begun, outermost first, as far as they are known
    m_doneTypes,
    m_templateData,     \* the parameter names of the template being declared
    m_doneTemplates,
    inFile,             \* between begin and end
    aborted             \* an assert failed

docVars  == <<m_document, m_nodeStack>>
typeVars == <<m_typeStack, m_doneTypes>>
templateVars == <<m_templateData, m_doneTemplates>>
vars == <<docVars, m_access, typeVars, templateVars, inFile, aborted>>

NoType == [kind |-> "none", name |-> "", children |-> <<>>]

\* An element nothing has been written to yet
NewNode == [type |-> NoType, access |-> "", args |-> <<>>, bases |-> <<>>,
            subscript |-> "", forwarded |-> "", template |-> FALSE]

At(path) == IF path \in DOMAIN m_document THEN m_document[path] ELSE NewNode

\* The document with node at path, and with elements that need no content
Put(path, node) ==
    [q \in DOMAIN m_document \cup {path} |-> IF q = path THEN node ELSE m_document[q]]
Touch(paths) == [q \in DOMAIN m_document \cup paths |-> At(q)]

Init ==
    /\ m_document = [q \in {<<>>} |-> NewNode]
    /\ m_nodeStack = <<>>
    /\ m_access = "public"
    /\ m_typeStack = <<>> /\ m_doneTypes = <<>>
    /\ m_templateData = <<>> /\ m_doneTemplates = <<>>
    /\ inFile = FALSE /\ aborted = FALSE

-----------------------------------------------------------------------------
(* takeType, popElement and the asserts around them. *)

\* "assert(e)"
Asserted(e) == aborted' = (Debug /\ ~e)

\* assert(takeType(type) == true), n times: what is taken and what is left
CanTake(n) == Len(m_doneTypes) >= n
\* Wrong: the type written first is taken
TakenFirst == IF Debug /\ CanTake(1) THEN Head(m_doneTypes) ELSE NoType
Taken   == IF Debug /\ CanTake(1) THEN Last(m_doneTypes) ELSE NoType
Take(n) == /\ Asserted(CanTake(n))
           /\ m_doneTypes' = IF Debug /\ CanTake(n)
                             THEN SubSeq(m_doneTypes, 1, Len(m_doneTypes) - n)
                             ELSE m_doneTypes

\* assert(popElement() == true), on the stack that ends in path
Popped(path) == IF Debug /\ path # <<>> THEN Front(path) ELSE path

\* endClass, endNamespace, endProperty, endTypedef, endFunction
Pop == Asserted(m_nodeStack # <<>>) /\ m_nodeStack' = Popped(m_nodeStack)

\* pushElement(tag, name): the child of the top with this tag and name, made if it is new
Child(tag, name) == Append(m_nodeStack, <<tag, name>>)

\* processTemplate on the element at path: each template argument is pushed and popped
TakesTemplate == m_doneTemplates # <<>>
ParameterNames == IF TakesTemplate THEN Last(m_doneTemplates) ELSE <<>>

\* An argument without a name takes the first child of the top that is a template argument,
\* whatever its name; made is what it finds if none was there before.  Which of several
\* children is the first is not kept.
ArgumentsBelow(path) ==
    {Last(q)[2] : q \in {c \in DOMAIN m_document :
                            c # <<>> /\ Front(c) = path /\ Last(c)[1] = "template-argument"}}
FirstBelow(path, made) == IF ArgumentsBelow(path) = {} THEN {made} ELSE ArgumentsBelow(path)
NamesFor(i, steps, path) ==
    IF ParameterNames[i] # "" THEN {ParameterNames[i]}
    ELSE IF Debug THEN FirstBelow(path, ParameterNames[1])
    ELSE FirstBelow(path \o SubSeq(steps, 1, i - 1), "")

\* What is pushed, one below the other if the asserts do not pop
ParameterSteps(path) ==
    LET names == Range(ParameterNames) \cup {Last(q)[2] : q \in DOMAIN m_document \ {<<>>}}
    IN  {steps \in [DOMAIN ParameterNames -> {"template-argument"} \X names] :
            \A i \in DOMAIN steps : steps[i][2] \in NamesFor(i, steps, path)}
Parameters(path, steps) ==
    {IF Debug THEN Append(path, steps[i]) ELSE path \o SubSeq(steps, 1, i) : i \in DOMAIN steps}
AfterParameters(path, steps) == IF Debug THEN path ELSE path \o steps

\* The element at path, written as node and then given the template that is due
PushWithTemplate(path, node) ==
    /\ \E steps \in ParameterSteps(path) :
          /\ m_document' =
               [q \in DOMAIN m_document \cup {path} \cup Parameters(path, steps) |->
                   IF q = path THEN [node EXCEPT !.template = @ \/ TakesTemplate] ELSE At(q)]
          /\ m_nodeStack' = AfterParameters(path, steps)
    /\ m_doneTemplates' = IF TakesTemplate THEN Front(m_doneTemplates) ELSE m_doneTemplates
    /\ UNCHANGED m_templateData

-----------------------------------------------------------------------------
(* Files. *)

TypeDbStep == <<"typedb", "">>

begin(source) ==
    /\ ~inFile /\ inFile' = TRUE
    /\ m_access' = "public"
    /\ m_nodeStack' = Append(m_nodeStack, TypeDbStep)
    /\ m_document' = Touch({m_nodeStack'})
    /\ UNCHANGED <<typeVars, templateVars, aborted>>

\* Wrong: end trusts the stack
RecoveredNot == m_nodeStack
\* The stack end starts from: its top is the root element, if need be by clearing it
Recovered ==
    IF m_nodeStack # <<>> /\ Last(m_nodeStack)[1] = "typedb" THEN m_nodeStack ELSE <<TypeDbStep>>

end(source) ==
    /\ inFile /\ inFile' = FALSE
    /\ LET map  == Append(Recovered, <<"source-map", "">>)
           file == Append(map, <<"file", source>>)
       IN  /\ m_document' = Touch({Recovered, map, file})
           /\ m_nodeStack' = Popped(Popped(Popped(file)))
    /\ UNCHANGED <<m_access, typeVars, templateVars, aborted>>

-----------------------------------------------------------------------------
(* Types: beginType, typeName and endType bracket a tree of them. *)

beginType(kind) ==
    /\ m_typeStack' = Append(m_typeStack, [NoType EXCEPT !.kind = kind])
    /\ UNCHANGED <<docVars, m_access, m_doneTypes, templateVars, aborted>>

typeName(name) ==
    /\ Asserted(m_typeStack # <<>>)
    /\ m_typeStack' = [m_typeStack EXCEPT ![Len(m_typeStack)].name = name]
    /\ UNCHANGED <<docVars, m_access, m_doneTypes, templateVars>>

\* The type becomes a child of the one around it; the outermost is done
endType ==
    /\ Asserted(m_typeStack # <<>>)
    /\ IF Len(m_typeStack) > 1
       THEN LET outer == Len(m_typeStack) - 1
            IN  /\ m_typeStack' = [Front(m_typeStack) EXCEPT
                                      ![outer].children = Append(@, Last(m_typeStack))]
                /\ UNCHANGED m_doneTypes
       ELSE /\ m_typeStack' = <<>>
            /\ m_doneTypes' = m_doneTypes \o m_typeStack
    /\ UNCHANGED <<docVars, m_access, templateVars>>

\* Wrong: a using without an alias takes two types as well
using_Both(kind) ==
    Take(2) /\ UNCHANGED <<docVars, m_access, m_typeStack, templateVars>>
\* The alias and its target are taken and dropped
using_(kind) ==
    /\ Take(IF kind = "=" THEN 2 ELSE 1)
    /\ UNCHANGED <<docVars, m_access, m_typeStack, templateVars>>
friend_ ==
    Take(1) /\ UNCHANGED <<docVars, m_access, m_typeStack, templateVars>>

-----------------------------------------------------------------------------
(* Templates. *)

beginTemplate ==
    m_templateData' = <<>> /\ UNCHANGED <<docVars, m_access, typeVars, m_doneTemplates, aborted>>

\* Wrong: the default type is not taken
templateArgumentKept(name, kind) ==
    /\ Take(1)
    /\ m_templateData' = Append(m_templateData, name)
    /\ UNCHANGED <<docVars, m_access, m_typeStack, m_doneTemplates>>
templateArgument(name, kind) ==
    /\ Take(IF kind = "default" THEN 2 ELSE 1)
    /\ m_templateData' = Append(m_templateData, name)
    /\ UNCHANGED <<docVars, m_access, m_typeStack, m_doneTemplates>>

endTemplate ==
    /\ m_doneTemplates' = Append(m_doneTemplates, m_templateData)
    /\ UNCHANGED <<docVars, m_access, typeVars, m_templateData, aborted>>

-----------------------------------------------------------------------------
(* Elements. *)

access(kind) ==
    m_access' = kind /\ UNCHANGED <<docVars, typeVars, templateVars, aborted>>

\* Wrong: the element is opened and not added to the document
beginNamespaceDetached(name) ==
    /\ m_nodeStack' = Child("namespace", name)
    /\ UNCHANGED <<m_document, m_access, typeVars, templateVars, aborted>>
beginNamespace(name) ==
    /\ m_nodeStack' = Child("namespace", name)
    /\ m_document' = Touch({m_nodeStack'})
    /\ UNCHANGED <<m_access, typeVars, templateVars, aborted>>
endNamespace ==
    Pop /\ UNCHANGED <<m_document, m_access, typeVars, templateVars>>

beginClass(name, tag) ==
    /\ PushWithTemplate(Child(tag, name), At(Child(tag, name)))
    /\ UNCHANGED <<m_access, typeVars, aborted>>
baseType ==
    /\ Take(1)
    /\ m_document' = Put(m_nodeStack,
           [At(m_nodeStack) EXCEPT !.bases = Append(@, <<m_access, Taken>>)])
    /\ UNCHANGED <<m_nodeStack, m_access, m_typeStack, templateVars>>
endClass(kind) ==
    /\ m_document' = Put(m_nodeStack, [At(m_nodeStack) EXCEPT !.forwarded = kind])
    /\ Pop
    /\ UNCHANGED <<m_access, typeVars, templateVars>>

\* beginProperty and beginTypedef
beginTyped(tag, name) ==
    /\ Take(1)
    /\ m_nodeStack' = Child(tag, name)
    /\ m_document' = Put(m_nodeStack', [At(m_nodeStack') EXCEPT !.type = Taken])
    /\ UNCHANGED <<m_access, m_typeStack, templateVars>>
arraySubscript(name) ==
    /\ m_document' = Put(m_nodeStack, [At(m_nodeStack) EXCEPT !.subscript = name])
    /\ UNCHANGED <<m_nodeStack, m_access, typeVars, templateVars, aborted>>
\* endProperty, endTypedef and, but for the specifiers, endFunction
endTyped ==
    Pop /\ UNCHANGED <<m_document, m_access, typeVars, templateVars>>

beginFunction(name) ==
    /\ Take(1)
    /\ LET f == Child("function", name)
       IN  PushWithTemplate(f, [At(f) EXCEPT !.access = m_access, !.type = Taken])
    /\ UNCHANGED <<m_access, m_typeStack>>
functionArgument(name) ==
    /\ Take(1)
    /\ m_document' = Put(m_nodeStack,
           [At(m_nodeStack) EXCEPT !.args = Append(@, <<name, Taken>>)])
    /\ UNCHANGED <<m_nodeStack, m_access, m_typeStack, templateVars>>

\* The calls whose bodies are empty
Ignored == {"include", "comment", "beginEnum", "enumValue", "endEnum",
            "beginMacro", "macroArgument", "endMacro"}
ignored == UNCHANGED <<docVars, m_access, typeVars, templateVars, aborted>>

-----------------------------------------------------------------------------

\* A call <<operation, name, kind>> between begin and end
Inside(c) ==
    /\ inFile /\ UNCHANGED inFile
    /\ \/ c[1] = "beginType" /\ beginType(c[3])
       \/ c[1] = "typeName" /\ typeName(c[2])
       \/ c[1] = "endType" /\ endType
       \/ c[1] = "using_" /\ using_(c[3])
       \/ c[1] = "friend_" /\ friend_
       \/ c[1] = "beginTemplate" /\ beginTemplate
       \/ c[1] = "templateArgument" /\ templateArgument(c[2], c[3])
       \/ c[1] = "endTemplate" /\ endTemplate
       \/ c[1] = "access" /\ access(c[3])
       \/ c[1] = "beginNamespace" /\ beginNamespace(c[2])
       \/ c[1] = "endNamespace" /\ endNamespace
       \/ c[1] = "beginClass" /\ beginClass(c[2], c[3])
       \/ c[1] = "baseType" /\ baseType
       \/ c[1] = "endClass" /\ endClass(c[3])
       \/ c[1] = "beginProperty" /\ beginTyped("property", c[2])
       \/ c[1] = "beginTypedef" /\ beginTyped("typedef", c[2])
       \/ c[1] = "arraySubscript" /\ arraySubscript(c[2])
       \/ c[1] \in {"endProperty", "endTypedef", "endFunction"} /\ endTyped
       \/ c[1] = "beginFunction" /\ beginFunction(c[2])
       \/ c[1] = "functionArgument" /\ functionArgument(c[2])
       \/ c[1] \in Ignored /\ ignored

\* A failed assert is the end of the program
Perform(c) ==
    /\ ~aborted
    /\ \/ c[1] = "begin" /\ begin(c[2])
       \/ c[1] = "end" /\ end(c[2])
       \/ Inside(c)

-----------------------------------------------------------------------------

\* Every state is of this form.
TypeOK ==
    \* the document is a tree and the element stack ends in an element of it
    /\ DOMAIN m_document \subseteq Seq(Strings \X Strings)
    /\ <<>> \in DOMAIN m_document /\ m_nodeStack \in DOMAIN m_document
    /\ \A q \in DOMAIN m_document : q # <<>> => Front(q) \in DOMAIN m_document
    /\ m_templateData \in Seq(Strings) /\ m_doneTemplates \in Seq(Seq(Strings))
    /\ m_access \in Strings
    /\ inFile \in BOOLEAN /\ aborted \in BOOLEAN

\* No element stays open from one file to the next, whatever calls the first
\* made: the pops at the end of end() leave the element stack empty.
FilesStartClean == ~inFile => m_nodeStack = <<>>
=============================================================================
