---------------------------- MODULE TypeDbProofs ----------------------------
(***************************************************************************)
(* The backend alone, driven by any calls in any order, and what holds of  *)
(* it whatever the parser sends.                                           *)
(***************************************************************************)
EXTENDS TypeDb, SequenceTheorems, TLAPS

CONSTANT Calls      \* the calls there are, <<operation, name, kind>>

ASSUME CallsAssumption ==
    /\ Calls \subseteq Strings \X Strings \X Strings
    \* the tag of a class is that of its scope type, not that of the root
    /\ \A c \in Calls : c[3] # "typedb"

Next == \E c \in Calls : Perform(c)
Spec == Init /\ [][Next]_vars

-----------------------------------------------------------------------------
(* Paths and trees of paths. *)

Elements == Strings \X Strings
Paths    == Seq(Elements)
Tree(D)  == /\ D \subseteq Paths /\ <<>> \in D
            /\ \A q \in D : q # <<>> => Front(q) \in D

\* The path of a child leads back to its parent.
LEMMA ChildPath ==
    ASSUME NEW s \in Paths, NEW e \in Elements
    PROVE  /\ Append(s, e) \in Paths /\ Append(s, e) # <<>>
           /\ Front(Append(s, e)) = s /\ Last(Append(s, e)) = e
           /\ Len(Append(s, e)) = Len(s) + 1
<1>1. /\ Append(s, e) \in Paths /\ Len(Append(s, e)) = Len(s) + 1
      /\ Append(s, e)[Len(s) + 1] = e
  BY AppendProperties DEF Paths
<1>2. SubSeq(Append(s, e), 1, Len(s)) = s
  BY AppendProperties, SubSeqProperties, SeqEqual DEF Paths
<1> QED  BY <1>1, <1>2 DEF Front, Last, Paths

\* The front of a path is a path, one element shorter.
LEMMA FrontPath ==
    ASSUME NEW s \in Paths, s # <<>>
    PROVE  /\ Front(s) \in Paths /\ Len(Front(s)) = Len(s) - 1
           /\ \A i \in 1 .. Len(s) - 1 : Front(s)[i] = s[i]
<1>1. Len(s) \in Nat \ {0} /\ \A i \in 1 .. Len(s) : s[i] \in Elements
  BY EmptySeq, ElementOfSeq DEF Paths
<1>2. \A i \in 1 .. Len(s) - 1 : s[i] \in Elements
  BY <1>1
<1>3. 1 \in Int /\ Len(s) - 1 \in Int
  BY <1>1
<1>4. SubSeq(s, 1, Len(s) - 1) \in Seq(Elements)
  BY <1>2, <1>3, SubSeqProperties
<1>5. Len(SubSeq(s, 1, Len(s) - 1)) = Len(s) - 1
  <2>1. Len(SubSeq(s, 1, Len(s) - 1)) =
          IF 1 <= Len(s) - 1 THEN (Len(s) - 1) - 1 + 1 ELSE 0
    BY <1>2, <1>3, SubSeqProperties
  <2> QED  BY <1>1, <2>1
<1>6. \A i \in 1 .. Len(s) - 1 : SubSeq(s, 1, Len(s) - 1)[i] = s[i]
  <2>1. \A i \in 1 .. (Len(s) - 1) - 1 + 1 : SubSeq(s, 1, Len(s) - 1)[i] = s[1 + i - 1]
    BY <1>2, <1>3, SubSeqProperties
  <2> QED  BY <1>1, <2>1
<1> QED  BY <1>4, <1>5, <1>6 DEF Paths, Front

\* A tree with a child added to one of its elements is a tree.
LEMMA TreeGrows ==
    ASSUME NEW D, Tree(D), NEW p \in D, NEW e \in Elements
    PROVE  Tree(D \cup {Append(p, e)})
<1>1. p \in Paths
  BY DEF Tree
<1>2. Append(p, e) \in Paths /\ Front(Append(p, e)) = p
  BY <1>1, ChildPath
<1> QED  BY <1>2 DEF Tree

\* What processTemplate pushes: an element for each parameter of the template.
LEMMA ParameterStepsArePath ==
    ASSUME Tree(DOMAIN m_document), m_doneTemplates \in Seq(Seq(Strings)), NEW path,
           NEW steps \in ParameterSteps(path)
    PROVE  steps \in Paths
<1> DEFINE t == ParameterNames
           names == Range(t) \cup {Last(q)[2] : q \in DOMAIN m_document \ {<<>>}}
<1>1. t \in Seq(Strings)
  <2>1. CASE TakesTemplate
    BY <2>1, EmptySeq, ElementOfSeq DEF ParameterNames, TakesTemplate, Last
  <2>2. CASE ~TakesTemplate
    BY <2>2 DEF ParameterNames
  <2> QED  BY <2>1, <2>2
<1>2. Len(t) \in Nat /\ DOMAIN t = 1 .. Len(t) /\ \A i \in 1 .. Len(t) : t[i] \in Strings
  BY <1>1, LenProperties, ElementOfSeq
<1>3. \A q \in DOMAIN m_document \ {<<>>} : Last(q)[2] \in Strings
  <2> SUFFICES ASSUME NEW q \in DOMAIN m_document \ {<<>>}
               PROVE  Last(q)[2] \in Strings
    OBVIOUS
  <2>1. q \in Seq(Elements) /\ q # <<>>
    BY DEF Tree, Paths
  <2>2. Last(q) \in Elements
    BY <2>1, EmptySeq, ElementOfSeq DEF Last
  <2> QED  BY <2>2 DEF Elements
<1>4. names \subseteq Strings
  BY <1>2, <1>3 DEF Range
<1>5. "template-argument" \in Strings
  BY StringsAssumption
<1>6. steps \in [DOMAIN t -> {"template-argument"} \X names]
  BY DEF ParameterSteps
<1> HIDE DEF t, names
<1>7. {"template-argument"} \X names \subseteq Elements
  BY <1>4, <1>5 DEF Elements
<1>8. steps \in [1 .. Len(t) -> Elements]
  BY <1>2, <1>6, <1>7
<1> QED  BY <1>2, <1>8, SeqDef DEF Paths

\* Without the pops, each parameter is a child of the one before.
LEMMA NestedPath ==
    ASSUME NEW path \in Paths, NEW steps \in Paths, NEW i \in 1 .. Len(steps)
    PROVE  /\ path \o SubSeq(steps, 1, i) \in Paths
           /\ path \o SubSeq(steps, 1, i) # <<>>
           /\ Front(path \o SubSeq(steps, 1, i)) =
                IF i = 1 THEN path ELSE path \o SubSeq(steps, 1, i - 1)
<1> DEFINE before == SubSeq(steps, 1, i - 1)
<1>1. Len(steps) \in Nat /\ i - 1 \in Int /\ steps[i] \in Elements
  BY LenProperties, ElementOfSeq DEF Paths
<1>2. before \in Seq(Elements)
  <2>1. \A j \in 1 .. i - 1 : steps[j] \in Elements
    BY <1>1, ElementOfSeq DEF Paths
  <2> QED  BY <1>1, <2>1, SubSeqProperties
<1>3. SubSeq(steps, 1, i) = before \o <<steps[i]>>
  <2>1. 1 \in 1 .. Len(steps) /\ i \in 1 .. Len(steps)
    BY <1>1
  <2> QED  BY <2>1, SubSeqRecursiveSecond DEF Paths
<1>4. path \o SubSeq(steps, 1, i) = Append(path \o before, steps[i])
  <2>1. path \o (before \o <<steps[i]>>) = (path \o before) \o <<steps[i]>>
    <3>1. <<steps[i]>> \in Seq(Elements)
      BY <1>1
    <3> HIDE DEF before
    <3> QED  BY <1>2, <3>1, ConcatAssociative DEF Paths
  <2>2. path \o before \in Seq(Elements)
    BY <1>2, ConcatProperties DEF Paths
  <2> HIDE DEF before
  <2> QED  BY <1>1, <1>3, <2>1, <2>2, AppendIsConcat
<1>5. path \o before \in Paths
  BY <1>2, ConcatProperties DEF Paths
<1>6. i = 1 => path \o before = path
  <2>1. i = 1 => before = <<>>
    BY <1>1, SubSeqEmpty
  <2> HIDE DEF before
  <2> QED  BY <2>1, ConcatEmptySeq DEF Paths
<1> HIDE DEF before
<1>7. Front(path \o SubSeq(steps, 1, i)) = path \o before
  BY <1>1, <1>4, <1>5, ChildPath
<1>8. path \o SubSeq(steps, 1, i) \in Paths /\ path \o SubSeq(steps, 1, i) # <<>>
  BY <1>1, <1>4, <1>5, ChildPath
<1> QED  BY <1>6, <1>7, <1>8 DEF before

\* processTemplate keeps the document a tree and the stack in it, with and without
\* the asserts that pop the parameters.
LEMMA ParametersGrow ==
    ASSUME NEW D, Tree(D), NEW path \in D, NEW steps \in Paths
    PROVE  /\ Tree(D \cup Parameters(path, steps))
           /\ AfterParameters(path, steps) \in D \cup Parameters(path, steps)
<1>1. path \in Paths
  BY DEF Tree
<1>2. /\ Len(steps) \in Nat /\ DOMAIN steps = 1 .. Len(steps)
      /\ \A i \in 1 .. Len(steps) : steps[i] \in Elements
  BY <1>1, LenProperties, ElementOfSeq DEF Paths
<1>3. CASE Debug
  <2>1. \A i \in DOMAIN steps :
            /\ Append(path, steps[i]) \in Paths
            /\ Front(Append(path, steps[i])) = path
    BY <1>1, <1>2, ChildPath
  <2>2. Parameters(path, steps) = {Append(path, steps[i]) : i \in DOMAIN steps}
    BY <1>3 DEF Parameters
  <2> QED  BY <1>3, <2>1, <2>2 DEF Tree, AfterParameters
<1>4. CASE ~Debug
  <2>1. Parameters(path, steps) = {path \o SubSeq(steps, 1, i) : i \in DOMAIN steps}
    BY <1>4 DEF Parameters
  <2>2. \A i \in DOMAIN steps :
            /\ path \o SubSeq(steps, 1, i) \in Paths
            /\ Front(path \o SubSeq(steps, 1, i)) \in D \cup Parameters(path, steps)
    <3> SUFFICES ASSUME NEW i \in DOMAIN steps
                 PROVE  /\ path \o SubSeq(steps, 1, i) \in Paths
                        /\ Front(path \o SubSeq(steps, 1, i)) \in D \cup Parameters(path, steps)
      OBVIOUS
    <3>1. /\ path \o SubSeq(steps, 1, i) \in Paths
          /\ Front(path \o SubSeq(steps, 1, i)) =
               IF i = 1 THEN path ELSE path \o SubSeq(steps, 1, i - 1)
      BY <1>1, <1>2, NestedPath
    <3>2. i # 1 => i - 1 \in DOMAIN steps
      BY <1>2
    <3> QED  BY <2>1, <3>1, <3>2
  <2>3. AfterParameters(path, steps) \in D \cup Parameters(path, steps)
    <3>1. AfterParameters(path, steps) = path \o steps
      BY <1>4 DEF AfterParameters
    <3>2. CASE steps = <<>>
      BY <1>1, <3>1, <3>2, ConcatEmptySeq DEF Paths
    <3>3. CASE steps # <<>>
      <4>1. Len(steps) \in DOMAIN steps
        BY <1>1, <1>2, <3>3, EmptySeq DEF Paths
      <4>2. SubSeq(steps, 1, Len(steps)) = steps
        BY <1>1, SubSeqFull DEF Paths
      <4> QED  BY <2>1, <3>1, <4>1, <4>2
    <3> QED  BY <3>2, <3>3
  <2> QED  BY <2>1, <2>2, <2>3 DEF Tree
<1> QED  BY <1>3, <1>4, DebugAssumption

-----------------------------------------------------------------------------
(* Type correctness.  The conjuncts of TypeOK a call can disturb, in three parts. *)

DocumentOK  == Tree(DOMAIN m_document) /\ m_nodeStack \in DOMAIN m_document
TemplatesOK == m_templateData \in Seq(Strings) /\ m_doneTemplates \in Seq(Seq(Strings))
FlagsOK     == m_access \in Strings /\ inFile \in BOOLEAN /\ aborted \in BOOLEAN

LEMMA TypeOKParts == TypeOK <=> DocumentOK /\ TemplatesOK /\ FlagsOK
  BY DEF TypeOK, DocumentOK, TemplatesOK, FlagsOK, Tree, Paths, Elements

\* The end of an element leaves the stack on its parent, or where it is if the
\* assert is not evaluated.
LEMMA PoppedInTree ==
    ASSUME NEW D, Tree(D), NEW path \in D
    PROVE  Popped(path) \in D
  BY DEF Tree, Popped

\* A new element below the top of the stack.
LEMMA ChildGrows ==
    ASSUME DocumentOK, NEW tag \in Strings, NEW name \in Strings
    PROVE  Tree(DOMAIN m_document \cup {Child(tag, name)})
<1>1. <<tag, name>> \in Elements
  BY DEF Elements
<1> QED  BY <1>1, TreeGrows DEF DocumentOK, Child

\* Writing to an element adds at most that element.
LEMMA PutDomain ==
    \A path, node : DOMAIN Put(path, node) = DOMAIN m_document \cup {path}
  BY DEF Put
LEMMA TouchDomain ==
    \A paths : DOMAIN Touch(paths) = DOMAIN m_document \cup paths
  BY DEF Touch

\* beginClass and beginFunction.
LEMMA PushedDocument ==
    ASSUME DocumentOK, TemplatesOK, NEW tag \in Strings, NEW name \in Strings, NEW node,
           PushWithTemplate(Child(tag, name), node)
    PROVE  DocumentOK' /\ TemplatesOK'
<1> DEFINE path == Child(tag, name)
           D == DOMAIN m_document \cup {path}
<1>1. Tree(D) /\ path \in D
  BY ChildGrows
<1>2. PICK steps \in ParameterSteps(path) :
          /\ DOMAIN m_document' = D \cup Parameters(path, steps)
          /\ m_nodeStack' = AfterParameters(path, steps)
  BY DEF PushWithTemplate
<1>3. /\ Tree(D \cup Parameters(path, steps))
      /\ AfterParameters(path, steps) \in D \cup Parameters(path, steps)
  <2> HIDE DEF D, path
  <2>1. steps \in Paths
    BY ParameterStepsArePath DEF DocumentOK, TemplatesOK
  <2> QED  BY <1>1, <2>1, ParametersGrow
<1>4. DocumentOK'
  BY <1>2, <1>3 DEF DocumentOK, Tree
<1>5. TemplatesOK'
  <2>1. m_templateData' = m_templateData
    BY DEF PushWithTemplate
  <2>2. CASE TakesTemplate
    <3>1. m_doneTemplates' = Front(m_doneTemplates) /\ m_doneTemplates # <<>>
      BY <2>2 DEF PushWithTemplate, TakesTemplate
    <3>2. \A i \in 1 .. Len(m_doneTemplates) - 1 : m_doneTemplates[i] \in Seq(Strings)
      BY ElementOfSeq DEF TemplatesOK
    <3>3. 1 \in Int /\ Len(m_doneTemplates) - 1 \in Int
      BY LenProperties DEF TemplatesOK
    <3> QED  BY <2>1, <3>1, <3>2, <3>3, SubSeqProperties DEF TemplatesOK, Front
  <2>3. CASE ~TakesTemplate
    BY <2>1, <2>3 DEF PushWithTemplate, TemplatesOK
  <2> QED  BY <2>2, <2>3
<1> QED  BY <1>4, <1>5

\* An assert decides whether the program is aborted.
LEMMA AssertedFlag ==
    /\ \A n \in Nat : Take(n) => aborted' \in BOOLEAN
    /\ Pop => aborted' \in BOOLEAN
    /\ Asserted(m_typeStack # <<>>) => aborted' \in BOOLEAN
  BY DebugAssumption DEF Take, Pop, Asserted

\* Calls that leave the document, or its elements, as they are.
LEMMA DocumentKept ==
    ASSUME DocumentOK, UNCHANGED docVars
    PROVE  DocumentOK'
  BY DEF DocumentOK, docVars, Tree
LEMMA TopWritten ==
    ASSUME DocumentOK, NEW node, m_document' = Put(m_nodeStack, node),
           m_nodeStack' \in {m_nodeStack, Popped(m_nodeStack)}
    PROVE  DocumentOK'
<1>1. DOMAIN m_document' = DOMAIN m_document
  <2>1. DOMAIN Put(m_nodeStack, node) = DOMAIN m_document \cup {m_nodeStack}
    BY PutDomain
  <2> QED  BY <2>1 DEF DocumentOK
<1>2. m_nodeStack' \in DOMAIN m_document
  BY PoppedInTree DEF DocumentOK
<1> QED  BY <1>1, <1>2 DEF DocumentOK, Tree
LEMMA TopPopped ==
    ASSUME DocumentOK, m_document' = m_document, m_nodeStack' = Popped(m_nodeStack)
    PROVE  DocumentOK'
  BY PoppedInTree DEF DocumentOK, Tree

\* Calls that open an element.
LEMMA ChildOpened ==
    ASSUME DocumentOK, NEW tag \in Strings, NEW name \in Strings,
           m_nodeStack' = Child(tag, name),
           DOMAIN m_document' = DOMAIN m_document \cup {Child(tag, name)}
    PROVE  DocumentOK'
  BY ChildGrows DEF DocumentOK, Tree

\* Calls that leave the templates as they are.
LEMMA TemplatesKept ==
    ASSUME TemplatesOK, UNCHANGED templateVars
    PROVE  TemplatesOK'
  BY DEF TemplatesOK, templateVars

\* end, wherever it finds the stack: the recovered root, the source map and the
\* file are made and closed again.
LEMMA EndDocument ==
    ASSUME DocumentOK, NEW source \in Strings, end(source)
    PROVE  DocumentOK'
<1> DEFINE map  == Append(Recovered, <<"source-map", "">>)
           file == Append(map, <<"file", source>>)
           D0   == DOMAIN m_document \cup {Recovered}
           D    == D0 \cup {map} \cup {file}
<1>1. /\ <<"typedb", "">> \in Elements /\ <<"source-map", "">> \in Elements
      /\ <<"file", source>> \in Elements
  BY StringsAssumption DEF Elements
<1>2. Tree(D0) /\ Recovered \in D0
  <2>1. CASE Recovered = m_nodeStack
    BY <2>1 DEF DocumentOK, Tree
  <2>2. CASE Recovered = <<TypeDbStep>>
    <3>1. Append(<<>>, TypeDbStep) = <<TypeDbStep>>
      OBVIOUS
    <3>2. <<>> \in DOMAIN m_document
      BY DEF DocumentOK, Tree
    <3> QED  BY <1>1, <2>2, <3>1, <3>2, TreeGrows DEF DocumentOK, TypeDbStep
  <2> QED  BY <2>1, <2>2 DEF Recovered
<1>3. Tree(D0 \cup {map}) /\ map \in D0 \cup {map}
  <2> HIDE DEF D0
  <2> QED  BY <1>1, <1>2, TreeGrows
<1>4. Tree(D) /\ file \in D
  <2> HIDE DEF D0, map
  <2> QED  BY <1>1, <1>3, TreeGrows
<1>5. DOMAIN m_document' = D /\ m_nodeStack' = Popped(Popped(Popped(file)))
  <2>1. m_document' = Touch({Recovered, map, file})
    BY DEF end
  <2>2. DOMAIN Touch({Recovered, map, file}) = DOMAIN m_document \cup {Recovered, map, file}
    BY TouchDomain
  <2>3. m_nodeStack' = Popped(Popped(Popped(file)))
    BY DEF end
  <2> QED  BY <2>1, <2>2, <2>3
<1>6. m_nodeStack' \in D
  <2> HIDE DEF D, file
  <2> QED  BY <1>4, <1>5, PoppedInTree
<1> QED  BY <1>4, <1>5, <1>6 DEF DocumentOK, Tree

\* A call between begin and end, one step per operation.
LEMMA InsideTypes ==
    ASSUME DocumentOK, TemplatesOK, FlagsOK, NEW c \in Calls, Inside(c)
    PROVE  DocumentOK' /\ TemplatesOK' /\ FlagsOK'
<1>1. c[1] \in Strings /\ c[2] \in Strings /\ c[3] \in Strings
  BY CallsAssumption
<1>2. inFile' \in BOOLEAN
  BY DEF Inside, FlagsOK
<1>beginType. CASE beginType(c[3])
  BY <1>2, <1>beginType, DocumentKept, TemplatesKept DEF beginType, FlagsOK
<1>typeName. CASE typeName(c[2])
  BY <1>2, <1>typeName, DocumentKept, TemplatesKept, AssertedFlag DEF typeName, FlagsOK
<1>endType. CASE endType
  BY <1>2, <1>endType, DocumentKept, TemplatesKept, AssertedFlag DEF endType, FlagsOK
<1>using. CASE using_(c[3])
  BY <1>2, <1>using, DocumentKept, TemplatesKept, AssertedFlag DEF using_, FlagsOK
<1>friend. CASE friend_
  BY <1>2, <1>friend, DocumentKept, TemplatesKept, AssertedFlag DEF friend_, FlagsOK
<1>beginTemplate. CASE beginTemplate
  BY <1>2, <1>beginTemplate, DocumentKept DEF beginTemplate, FlagsOK, TemplatesOK
<1>templateArgument. CASE templateArgument(c[2], c[3])
  <2>1. m_templateData' \in Seq(Strings) /\ m_doneTemplates' = m_doneTemplates
    BY <1>1, <1>templateArgument, AppendProperties DEF templateArgument, TemplatesOK
  <2>2. DocumentOK'
    BY <1>templateArgument, DocumentKept DEF templateArgument
  <2>3. aborted' \in BOOLEAN /\ m_access' = m_access
    BY <1>templateArgument, AssertedFlag DEF templateArgument
  <2> QED  BY <1>2, <2>1, <2>2, <2>3 DEF FlagsOK, TemplatesOK
<1>endTemplate. CASE endTemplate
  <2>1. m_doneTemplates' \in Seq(Seq(Strings)) /\ m_templateData' = m_templateData
    BY <1>endTemplate, AppendProperties DEF endTemplate, TemplatesOK
  <2> QED  BY <1>2, <1>endTemplate, <2>1, DocumentKept DEF endTemplate, FlagsOK, TemplatesOK
<1>access. CASE access(c[3])
  BY <1>1, <1>2, <1>access, DocumentKept, TemplatesKept DEF access, FlagsOK
<1>beginNamespace. CASE beginNamespace(c[2])
  <2>1. /\ m_nodeStack' = Child("namespace", c[2])
        /\ DOMAIN m_document' = DOMAIN m_document \cup {Child("namespace", c[2])}
    BY <1>beginNamespace, TouchDomain DEF beginNamespace
  <2>2. DocumentOK'
    BY <1>1, <2>1, ChildOpened, StringsAssumption
  <2> QED  BY <1>2, <1>beginNamespace, <2>2, TemplatesKept DEF beginNamespace, FlagsOK
<1>endNamespace. CASE endNamespace
  BY <1>2, <1>endNamespace, TopPopped, TemplatesKept, AssertedFlag
     DEF endNamespace, Pop, FlagsOK
<1>beginClass. CASE beginClass(c[2], c[3])
  <2>1. DocumentOK' /\ TemplatesOK'
    BY <1>1, <1>beginClass, PushedDocument DEF beginClass
  <2> QED  BY <1>2, <1>beginClass, <2>1 DEF beginClass, FlagsOK
<1>baseType. CASE baseType
  <2>1. DocumentOK'
    BY <1>baseType, TopWritten DEF baseType
  <2> QED  BY <1>2, <1>baseType, <2>1, TemplatesKept, AssertedFlag DEF baseType, FlagsOK
<1>endClass. CASE endClass(c[3])
  <2>1. DocumentOK'
    BY <1>endClass, TopWritten DEF endClass, Pop
  <2> QED  BY <1>2, <1>endClass, <2>1, TemplatesKept, AssertedFlag DEF endClass, FlagsOK
<1>beginTyped. ASSUME NEW tag \in {"property", "typedef"}, beginTyped(tag, c[2])
               PROVE  DocumentOK' /\ TemplatesOK' /\ FlagsOK'
  <2>1. /\ m_nodeStack' = Child(tag, c[2])
        /\ DOMAIN m_document' = DOMAIN m_document \cup {Child(tag, c[2])}
    BY <1>beginTyped, PutDomain DEF beginTyped
  <2>2. tag \in Strings
    BY StringsAssumption
  <2>3. DocumentOK'
    BY <1>1, <2>1, <2>2, ChildOpened
  <2> QED  BY <1>2, <1>beginTyped, <2>3, TemplatesKept, AssertedFlag DEF beginTyped, FlagsOK
<1>arraySubscript. CASE arraySubscript(c[2])
  <2>1. DocumentOK'
    BY <1>arraySubscript, TopWritten DEF arraySubscript
  <2> QED  BY <1>2, <1>arraySubscript, <2>1, TemplatesKept DEF arraySubscript, FlagsOK
<1>endTyped. CASE endTyped
  BY <1>2, <1>endTyped, TopPopped, TemplatesKept, AssertedFlag DEF endTyped, Pop, FlagsOK
<1>beginFunction. CASE beginFunction(c[2])
  <2>1. DocumentOK' /\ TemplatesOK'
    BY <1>1, <1>beginFunction, PushedDocument, StringsAssumption DEF beginFunction
  <2> QED  BY <1>2, <1>beginFunction, <2>1, AssertedFlag DEF beginFunction, FlagsOK
<1>functionArgument. CASE functionArgument(c[2])
  <2>1. DocumentOK'
    BY <1>functionArgument, TopWritten DEF functionArgument
  <2> QED  BY <1>2, <1>functionArgument, <2>1, TemplatesKept, AssertedFlag
           DEF functionArgument, FlagsOK
<1>ignored. CASE ignored
  BY <1>2, <1>ignored, DocumentKept, TemplatesKept DEF ignored, FlagsOK
<1> QED
  BY <1>beginType, <1>typeName, <1>endType, <1>using, <1>friend, <1>beginTemplate,
     <1>templateArgument, <1>endTemplate, <1>access, <1>beginNamespace, <1>endNamespace,
     <1>beginClass, <1>baseType, <1>endClass, <1>beginTyped, <1>arraySubscript,
     <1>endTyped, <1>beginFunction, <1>functionArgument, <1>ignored DEF Inside

\* Every call keeps the state of its form.
LEMMA TypesStep ==
    ASSUME TypeOK, NEW c \in Calls, Perform(c)
    PROVE  TypeOK'
<1>1. DocumentOK /\ TemplatesOK /\ FlagsOK
  BY TypeOKParts
<1>2. c[2] \in Strings
  BY CallsAssumption
<1>3. CASE begin(c[2])
  <2>1. /\ m_nodeStack' = Child("typedb", "")
        /\ DOMAIN m_document' = DOMAIN m_document \cup {Child("typedb", "")}
    BY <1>3, TouchDomain DEF begin, Child, TypeDbStep
  <2>2. DocumentOK'
    BY <1>1, <2>1, ChildOpened, StringsAssumption
  <2>3. TemplatesOK' /\ FlagsOK'
    BY <1>1, <1>3, TemplatesKept, StringsAssumption DEF begin, FlagsOK
  <2> QED  BY <2>2, <2>3, TypeOKParts, PTL
<1>4. CASE end(c[2])
  <2>1. DocumentOK' /\ TemplatesOK' /\ FlagsOK'
    BY <1>1, <1>2, <1>4, EndDocument, TemplatesKept DEF end, FlagsOK
  <2> QED  BY <2>1, TypeOKParts, PTL
<1>5. CASE Inside(c)
  <2>1. DocumentOK' /\ TemplatesOK' /\ FlagsOK'
    BY <1>1, <1>5, InsideTypes
  <2> QED  BY <2>1, TypeOKParts, PTL
<1> QED  BY <1>3, <1>4, <1>5 DEF Perform

\* TypeOK is an invariant of the backend under any calls: in particular the document
\* stays a tree, and the element stack of TypeDbParserInterface.cpp a path in it.
THEOREM TypeCorrect == Spec => []TypeOK
<1>1. Init => TypeOK
  BY StringsAssumption, EmptySeq DEF Init, TypeOK
<1>2. TypeOK /\ UNCHANGED vars => TypeOK'
  BY DEF TypeOK, vars, docVars, typeVars, templateVars
<1>3. TypeOK /\ [Next]_vars => TypeOK'
  BY <1>2, TypesStep DEF Next
<1> QED  BY <1>1, <1>3, PTL DEF Spec

-----------------------------------------------------------------------------
(* No element stays open between two files.  end() pops one element behind the  *)
(* file it records, and this empties the stack only if the root element is its  *)
(* bottom and nowhere else.                                                      *)

RootOnlyAtBottom(path) == \A i \in 2 .. Len(path) : path[i][1] # "typedb"
CleanInv == RootOnlyAtBottom(m_nodeStack) /\ FilesStartClean

LEMMA ChildRoot ==
    ASSUME NEW s \in Paths, RootOnlyAtBottom(s), NEW tag \in Strings, NEW name \in Strings,
           tag # "typedb"
    PROVE  RootOnlyAtBottom(Append(s, <<tag, name>>))
<1>1. <<tag, name>> \in Elements
  BY DEF Elements
<1>2. /\ Len(s) \in Nat /\ Len(Append(s, <<tag, name>>)) = Len(s) + 1
      /\ \A i \in 1 .. Len(s) : Append(s, <<tag, name>>)[i] = s[i]
      /\ Append(s, <<tag, name>>)[Len(s) + 1] = <<tag, name>>
  BY <1>1, AppendProperties, LenProperties DEF Paths
<1>3. ASSUME NEW i \in 2 .. Len(s) + 1
      PROVE  Append(s, <<tag, name>>)[i][1] # "typedb"
  <2>1. CASE i = Len(s) + 1
    BY <1>2, <2>1
  <2>2. CASE i # Len(s) + 1
    BY <1>2, <2>2 DEF RootOnlyAtBottom
  <2> QED  BY <2>1, <2>2
<1> QED  BY <1>2, <1>3 DEF RootOnlyAtBottom

LEMMA PoppedRoot ==
    ASSUME NEW s \in Paths, RootOnlyAtBottom(s)
    PROVE  RootOnlyAtBottom(Popped(s))
<1>1. CASE Popped(s) = s
  BY <1>1
<1>2. CASE Popped(s) = Front(s) /\ s # <<>>
  <2>1. Len(s) \in Nat
    BY LenProperties DEF Paths
  <2> QED  BY <1>2, <2>1, FrontPath DEF RootOnlyAtBottom
<1> QED  BY <1>1, <1>2 DEF Popped

\* A call between begin and end never opens a second root element.
LEMMA InsideRoot ==
    ASSUME Debug, TypeOK, RootOnlyAtBottom(m_nodeStack), NEW c \in Calls, Inside(c)
    PROVE  RootOnlyAtBottom(m_nodeStack')
<1>1. /\ c[2] \in Strings /\ c[3] \in Strings /\ c[3] # "typedb"
      /\ {"namespace", "property", "typedef", "function"} \subseteq Strings
  BY CallsAssumption, StringsAssumption
<1>2. m_nodeStack \in Paths
  BY DEF TypeOK, Paths, Elements
<1>3. CASE m_nodeStack' = m_nodeStack
  BY <1>3
<1>4. CASE m_nodeStack' = Popped(m_nodeStack)
  BY <1>2, <1>4, PoppedRoot
<1>5. ASSUME NEW tag \in Strings, tag # "typedb", m_nodeStack' = Child(tag, c[2])
      PROVE  RootOnlyAtBottom(m_nodeStack')
  BY <1>1, <1>2, <1>5, ChildRoot DEF Child
<1>6. CASE beginClass(c[2], c[3])
  BY <1>1, <1>5, <1>6 DEF beginClass, PushWithTemplate, AfterParameters
<1>7. CASE beginFunction(c[2])
  BY <1>1, <1>5, <1>7 DEF beginFunction, PushWithTemplate, AfterParameters
<1>8. CASE beginNamespace(c[2])
  BY <1>1, <1>5, <1>8 DEF beginNamespace
<1>9. CASE beginTyped("property", c[2]) \/ beginTyped("typedef", c[2])
  BY <1>1, <1>5, <1>9 DEF beginTyped
<1>10. CASE endNamespace \/ endClass(c[3]) \/ endTyped
  BY <1>4, <1>10 DEF endNamespace, endClass, endTyped, Pop
<1>11. CASE \/ beginType(c[3]) \/ typeName(c[2]) \/ endType \/ using_(c[3]) \/ friend_
            \/ beginTemplate \/ templateArgument(c[2], c[3]) \/ endTemplate
            \/ access(c[3]) \/ ignored
  BY <1>3, <1>11 DEF beginType, typeName, endType, using_, friend_, beginTemplate,
     templateArgument, endTemplate, access, ignored, docVars
<1>12. CASE baseType \/ arraySubscript(c[2]) \/ functionArgument(c[2])
  BY <1>3, <1>12 DEF baseType, arraySubscript, functionArgument
<1> QED  BY <1>6, <1>7, <1>8, <1>9, <1>10, <1>11, <1>12 DEF Inside

\* Three pops take end back to what was below the root element.
LEMMA EndEmptiesStack ==
    ASSUME Debug, TypeOK, RootOnlyAtBottom(m_nodeStack), NEW source \in Strings, end(source)
    PROVE  m_nodeStack' = <<>>
<1> DEFINE map  == Append(Recovered, <<"source-map", "">>)
           file == Append(map, <<"file", source>>)
<1>1. m_nodeStack \in Paths
  BY DEF TypeOK, Paths, Elements
<1>2. <<"source-map", "">> \in Elements /\ <<"file", source>> \in Elements
      /\ TypeDbStep \in Elements
  BY StringsAssumption DEF Elements, TypeDbStep
<1>3. Recovered \in Paths /\ Len(Recovered) = 1
  <2>1. CASE m_nodeStack # <<>> /\ Last(m_nodeStack)[1] = "typedb"
    <3>1. Len(m_nodeStack) \in Nat \ {0}
      BY <1>1, <2>1, EmptySeq DEF Paths
    <3>2. Len(m_nodeStack) \notin 2 .. Len(m_nodeStack)
      BY <2>1 DEF RootOnlyAtBottom, Last
    <3>3. Len(m_nodeStack) = 1
      BY <3>1, <3>2
    <3>4. Recovered = m_nodeStack
      BY <2>1 DEF Recovered
    <3> QED  BY <1>1, <3>3, <3>4
  <2>2. CASE ~(m_nodeStack # <<>> /\ Last(m_nodeStack)[1] = "typedb")
    <3>1. Recovered = <<TypeDbStep>>
      BY <2>2 DEF Recovered
    <3>2. <<TypeDbStep>> \in Seq(Elements) /\ Len(<<TypeDbStep>>) = 1
      <4>1. Append(<<>>, TypeDbStep) = <<TypeDbStep>>
        OBVIOUS
      <4>2. TypeDbStep \in Elements
        BY <1>2
      <4> QED  BY <4>1, <4>2, EmptySeq, AppendProperties
    <3> QED  BY <3>1, <3>2 DEF Paths
  <2> QED  BY <2>1, <2>2
<1>4. map \in Paths /\ map # <<>> /\ Front(map) = Recovered
  BY <1>2, <1>3, ChildPath
<1>5. file # <<>> /\ Front(file) = map
  <2> HIDE DEF map
  <2> QED  BY <1>2, <1>4, ChildPath
<1>6. Popped(file) = map
  BY <1>5 DEF Popped
<1>7. Popped(map) = Recovered
  BY <1>4 DEF Popped
<1>8. Popped(Recovered) = <<>>
  <2>1. Recovered # <<>> /\ Front(Recovered) \in Paths /\ Len(Front(Recovered)) = 0
    BY <1>3, FrontPath, EmptySeq DEF Paths
  <2>2. Front(Recovered) = <<>>
    BY <2>1, EmptySeq DEF Paths
  <2> QED  BY <2>1, <2>2 DEF Popped
<1>9. m_nodeStack' = Popped(Popped(Popped(file)))
  BY DEF end
<1> QED
  <2> HIDE DEF map, file
  <2> QED  BY <1>6, <1>7, <1>8, <1>9

LEMMA CleanStep ==
    ASSUME Debug, TypeOK, CleanInv, NEW c \in Calls, Perform(c)
    PROVE  CleanInv'
<1>1. c[2] \in Strings
  BY CallsAssumption
<1>2. CASE begin(c[2])
  <2>1. m_nodeStack' = <<TypeDbStep>> /\ inFile'
    BY <1>2 DEF begin, CleanInv, FilesStartClean
  <2> QED  BY <2>1 DEF CleanInv, RootOnlyAtBottom, FilesStartClean
<1>3. CASE end(c[2])
  <2>1. m_nodeStack' = <<>>
    BY <1>1, <1>3, EndEmptiesStack DEF CleanInv
  <2> QED  BY <2>1 DEF CleanInv, RootOnlyAtBottom, FilesStartClean
<1>4. CASE Inside(c)
  <2>1. RootOnlyAtBottom(m_nodeStack')
    BY <1>4, InsideRoot DEF CleanInv
  <2>2. inFile'
    BY <1>4 DEF Inside
  <2> QED  BY <2>1, <2>2 DEF CleanInv, FilesStartClean, RootOnlyAtBottom
<1> QED  BY <1>2, <1>3, <1>4 DEF Perform

\* Where assert evaluates its argument, the element stack is empty between two files,
\* whatever calls were made in them: an element left open by a declaration the parser
\* abandoned in one file does not enclose what the next one declares.
THEOREM FilesClean ==
    ASSUME Debug
    PROVE  Spec => []FilesStartClean
<1>1. Init => CleanInv
  BY EmptySeq DEF Init, CleanInv, RootOnlyAtBottom, FilesStartClean
<1>2. CleanInv /\ UNCHANGED vars => CleanInv'
  BY DEF CleanInv, RootOnlyAtBottom, FilesStartClean, vars, docVars
<1>3. TypeOK /\ CleanInv /\ [Next]_vars => CleanInv'
  BY <1>2, CleanStep DEF Next
<1>4. CleanInv => FilesStartClean
  BY DEF CleanInv
<1> QED  BY <1>1, <1>3, <1>4, TypeCorrect, PTL DEF Spec
=============================================================================
