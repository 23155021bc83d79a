---------------------------- MODULE DebugBackend ----------------------------
(***************************************************************************)
(* The debug backend, DebugParserInterface.cpp: it stands in front of the  *)
(* type database backend, prints each call, indented, and forwards it.     *)
(* For what it prints it keeps types of its own.  Nothing is set back when *)
(* a file ends.                                                            *)
(***************************************************************************)
EXTENDS Integers, Sequences, SequencesExt

CONSTANT Debug      \* see TypeDb

VARIABLES m_indent, m_typeStack, m_doneTypes

vars == <<m_indent, m_typeStack, m_doneTypes>>

Init == m_indent = 0 /\ m_typeStack = <<>> /\ m_doneTypes = <<>>

-----------------------------------------------------------------------------

TypeCalls == {"beginType", "typeName", "endType"}

\* Wrong: beginTypedef does not indent
OpeningNoTypedef == {"begin", "beginEnum", "beginClass", "beginNamespace", "beginTemplate",
                     "beginProperty", "beginFunction", "beginMacro"}
\* The calls behind which m_indent is one more, and one less
Opening == {"begin", "beginEnum", "beginClass", "beginNamespace", "beginTemplate",
            "beginProperty", "beginFunction", "beginTypedef", "beginMacro"}
Closing == {"end", "endEnum", "endClass", "endNamespace", "endTemplate",
            "endProperty", "endFunction", "endTypedef", "endMacro"}

\* The types a call takes to print them
Takes(c) ==
    CASE c[1] = "using_"           -> IF c[3] = "=" THEN 2 ELSE 1
      [] c[1] = "templateArgument" -> IF c[3] = "default" THEN 2 ELSE 1
      [] c[1] \in {"friend_", "baseType", "beginProperty", "beginFunction",
                   "functionArgument", "beginTypedef"} -> 1
      [] OTHER -> 0
LastTypes(types, n) == SubSeq(types, Len(types) - n + 1, Len(types))

\* friend_ is printed and that is all
Forwards(c) == c[1] # "friend_"

\* An assert fails: takeType, typeTop, or printf's "m_indent >= 0"
Fails(c) ==
    /\ Debug
    /\ \/ c[1] \notin TypeCalls /\ (Len(m_doneTypes) < Takes(c) \/ m_indent < 0)
       \/ c[1] \in {"typeName", "endType"} /\ m_typeStack = <<>>

-----------------------------------------------------------------------------

beginType(kind) ==
    /\ m_typeStack' = Append(m_typeStack, [kind |-> kind, name |-> "", children |-> <<>>])
    /\ UNCHANGED m_doneTypes

typeName(name) ==
    /\ m_typeStack' = [m_typeStack EXCEPT ![Len(m_typeStack)].name = name]
    /\ UNCHANGED m_doneTypes

\* Wrong: the type does not become a child of the one around it
endTypeFlat ==
    /\ m_typeStack' = Front(m_typeStack)
    /\ m_doneTypes' = IF Len(m_typeStack) = 1 THEN m_doneTypes \o m_typeStack ELSE m_doneTypes
endType ==
    IF Len(m_typeStack) > 1
    THEN /\ m_typeStack' = [Front(m_typeStack) EXCEPT
                               ![Len(m_typeStack) - 1].children = Append(@, Last(m_typeStack))]
         /\ UNCHANGED m_doneTypes
    ELSE m_typeStack' = <<>> /\ m_doneTypes' = m_doneTypes \o m_typeStack

\* The call is printed with the types it takes
Printed(c) ==
    /\ m_indent' = m_indent + (IF c[1] \in Opening THEN 1 ELSE 0)
                            - (IF c[1] \in Closing THEN 1 ELSE 0)
    /\ m_doneTypes' = IF Debug THEN SubSeq(m_doneTypes, 1, Len(m_doneTypes) - Takes(c))
                               ELSE m_doneTypes
    /\ UNCHANGED m_typeStack

\* A call whose asserts hold
Perform(c) ==
    /\ ~Fails(c)
    /\ \/ c[1] = "beginType" /\ beginType(c[3]) /\ UNCHANGED m_indent
       \/ c[1] = "typeName" /\ typeName(c[2]) /\ UNCHANGED m_indent
       \/ c[1] = "endType" /\ endType /\ UNCHANGED m_indent
       \/ c[1] \notin TypeCalls /\ Printed(c)
=============================================================================
