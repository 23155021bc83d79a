---------------------------- MODULE BackendsProofs ----------------------------
(***************************************************************************)
(* Proofs about the two backends of Backends, under any results whose      *)
(* calls match: their asserts hold, and they take the same types, although *)
(* the debug backend keeps friend_ to itself.                              *)
(***************************************************************************)
EXTENDS Backends, SequenceTheorems, FiniteSetTheorems, TLAPS

AnyCalls == {c \in Strings \X Strings \X Strings : c[3] # "typedb"}

\* The backends are sent one result after the other.
Receive ==
  /\ result = <<>>
  /\ \E r \in Seq(Strings \X Strings \X Strings) : Matched(r) /\ result' = r
  /\ UNCHANGED <<dbVars, debug, printerVars>>

BackendsNext == RunCall \/ Receive
BackendsSpec == BackendsInit /\ [][BackendsNext]_backendVars

DB == INSTANCE TypeDbProofs WITH Calls <- AnyCalls

-----------------------------------------------------------------------------
(* The instance of the model and that of its proofs say the same.          *)

LEMMA DatabaseParameters ==
  /\ DB!CallsAssumption /\ DB!DebugAssumption /\ DB!StringsAssumption
BY ParametersAssumption DEF AnyCalls, DB!CallsAssumption, DB!DebugAssumption, DB!StringsAssumption

LEMMA DatabaseSame ==
  /\ DB!Init <=> db!Init
  /\ DB!FilesStartClean <=> db!FilesStartClean
  /\ \A c : DB!Perform(c) <=> db!Perform(c)
<1>1. (DB!Init <=> db!Init) /\ (DB!FilesStartClean <=> db!FilesStartClean)
  BY DEF DB!Init, db!Init, DB!NewNode, db!NewNode, DB!NoType, db!NoType,
      DB!FilesStartClean, db!FilesStartClean
<1>2. \A c : DB!Perform(c) <=> db!Perform(c)
  BY DEF DB!begin, db!begin, DB!end, db!end, DB!beginType, db!beginType,
      DB!typeName, db!typeName, DB!endType, db!endType, DB!using_, db!using_,
      DB!friend_, db!friend_, DB!beginTemplate, db!beginTemplate,
      DB!templateArgument, db!templateArgument, DB!endTemplate,
      db!endTemplate, DB!access, db!access, DB!beginNamespace,
      db!beginNamespace, DB!endNamespace, db!endNamespace, DB!beginClass,
      db!beginClass, DB!baseType, db!baseType, DB!endClass, db!endClass,
      DB!beginTyped, db!beginTyped, DB!arraySubscript, db!arraySubscript,
      DB!endTyped, db!endTyped, DB!beginFunction, db!beginFunction,
      DB!functionArgument, db!functionArgument, DB!ignored, db!ignored,
      DB!Asserted, db!Asserted, DB!CanTake, db!CanTake, DB!Taken, db!Taken,
      DB!Take, db!Take, DB!Popped, db!Popped, DB!Pop, db!Pop, DB!Child,
      db!Child, DB!TakesTemplate, db!TakesTemplate, DB!ParameterNames, db!ParameterNames,
      DB!ArgumentsBelow, db!ArgumentsBelow, DB!FirstBelow, db!FirstBelow, DB!NamesFor,
      db!NamesFor, DB!Range, db!Range, DB!ParameterSteps,
      db!ParameterSteps, DB!Parameters, db!Parameters, DB!AfterParameters,
      db!AfterParameters, DB!PushWithTemplate, db!PushWithTemplate,
      DB!TypeDbStep, db!TypeDbStep, DB!Recovered, db!Recovered, DB!Touch,
      db!Touch, DB!Put, db!Put, DB!At, db!At, DB!NewNode, db!NewNode,
      DB!NoType, db!NoType, DB!Ignored, db!Ignored, DB!docVars, db!docVars,
      DB!typeVars, db!typeVars, DB!templateVars, db!templateVars, DB!Front,
      db!Front, DB!Last, db!Last, DB!Perform, db!Perform, DB!Inside, db!Inside
<1> QED
  BY <1>1, <1>2

-----------------------------------------------------------------------------
(* Counting the calls of a result.                                         *)

\* What one more position adds to a count.
LEMMA CountNext ==
  ASSUME NEW D, NEW k \in Nat, NEW i \in Nat, k <= i
  PROVE  /\ Cardinality({j \in k + 1 .. i : j \in D}) \in Nat
         /\ Cardinality({j \in k + 1 .. i + 1 : j \in D})
              = Cardinality({j \in k + 1 .. i : j \in D}) + (IF i + 1 \in D THEN 1 ELSE 0)
<1> DEFINE S == {j \in k + 1 .. i : j \in D}
           T == {j \in k + 1 .. i + 1 : j \in D}
<1>1. IsFiniteSet(k + 1 .. i)
  BY FS_Interval
<1>2. IsFiniteSet(S) /\ Cardinality(S) \in Nat
  BY <1>1, FS_Subset, FS_CardinalityType
<1>3. i + 1 \notin S
  OBVIOUS
<1>4. CASE i + 1 \in D
  <2>1. T = S \union {i + 1}
    BY <1>4
  <2> HIDE DEF S, T
  <2>2. Cardinality(S \union {i + 1}) = Cardinality(S) + 1
    BY <1>2, <1>3, FS_AddElement
  <2> QED
    BY <1>2, <1>4, <2>1, <2>2 DEF S, T
<1>5. CASE i + 1 \notin D
  <2>1. T = S
    BY <1>5
  <2> HIDE DEF S, T
  <2> QED
    BY <1>2, <1>5, <2>1 DEF S, T
<1> QED
  BY <1>4, <1>5

\* Nothing lies between a position and itself.
LEMMA CountNone ==
  ASSUME NEW D, NEW k \in Nat
  PROVE  Cardinality({j \in k + 1 .. k : j \in D}) = 0
<1>1. {j \in k + 1 .. k : j \in D} = {}
  OBVIOUS
<1> QED
  BY <1>1, FS_EmptySet

LEMMA CountOfNext ==
  ASSUME NEW r, NEW ops, NEW k \in Nat, NEW i \in Nat, k <= i
  PROVE  /\ NumberOf(r, ops, k, i) \in Nat
         /\ NumberOf(r, ops, k, k) = 0
         /\ NumberOf(r, ops, k, i + 1)
              = NumberOf(r, ops, k, i) + (IF r[i + 1][1] \in ops THEN 1 ELSE 0)
<1> DEFINE D == {j \in Nat : r[j][1] \in ops}
<1>1. \A n \in Nat : NumberOf(r, ops, k, n) = Cardinality({j \in k + 1 .. n : j \in D})
  <2> SUFFICES ASSUME NEW n \in Nat
               PROVE  NumberOf(r, ops, k, n) = Cardinality({j \in k + 1 .. n : j \in D})
    OBVIOUS
  <2>1. {j \in k + 1 .. n : r[j][1] \in ops} = {j \in k + 1 .. n : j \in D}
    OBVIOUS
  <2> QED
    BY <2>1 DEF NumberOf
<1>2. i + 1 \in D <=> r[i + 1][1] \in ops
  OBVIOUS
<1> HIDE DEF D
<1>3. /\ Cardinality({j \in k + 1 .. i : j \in D}) \in Nat
      /\ Cardinality({j \in k + 1 .. k : j \in D}) = 0
      /\ Cardinality({j \in k + 1 .. i + 1 : j \in D})
           = Cardinality({j \in k + 1 .. i : j \in D}) + (IF i + 1 \in D THEN 1 ELSE 0)
  BY CountNext, CountNone
<1>4. /\ NumberOf(r, ops, k, k) = Cardinality({j \in k + 1 .. k : j \in D})
      /\ NumberOf(r, ops, k, i) = Cardinality({j \in k + 1 .. i : j \in D})
      /\ NumberOf(r, ops, k, i + 1) = Cardinality({j \in k + 1 .. i + 1 : j \in D})
  BY <1>1
<1> QED
  BY <1>2, <1>3, <1>4

\* From the start of the result.
LEMMA NumberOfNext ==
  ASSUME NEW r, NEW ops, NEW i \in Nat
  PROVE  /\ NumberOf(r, ops, 0, i) \in Nat
         /\ NumberOf(r, ops, 0, 0) = 0
         /\ NumberOf(r, ops, 0, i + 1)
              = NumberOf(r, ops, 0, i) + (IF r[i + 1][1] \in ops THEN 1 ELSE 0)
<1>1. 0 \in Nat /\ 0 <= i
  OBVIOUS
<1> QED
  BY <1>1, CountOfNext

LEMMA WrittenNext ==
  ASSUME NEW r, NEW k \in Nat, NEW i \in Nat, k <= i
  PROVE  /\ Written(r, k, i) \in Nat
         /\ Written(r, k, k) = 0
         /\ Written(r, k, i + 1) = Written(r, k, i)
              + (IF r[i + 1][1] = "endType" /\ TypesOpen(r, i + 1) = 0 THEN 1 ELSE 0)
<1> DEFINE D == {j \in Nat : r[j][1] = "endType" /\ TypesOpen(r, j) = 0}
<1>1. \A n \in Nat : Written(r, k, n) = Cardinality({j \in k + 1 .. n : j \in D})
  <2> SUFFICES ASSUME NEW n \in Nat
               PROVE  Written(r, k, n) = Cardinality({j \in k + 1 .. n : j \in D})
    OBVIOUS
  <2>1. {j \in k + 1 .. n : r[j][1] = "endType" /\ TypesOpen(r, j) = 0}
          = {j \in k + 1 .. n : j \in D}
    OBVIOUS
  <2> QED
    BY <2>1 DEF Written
<1>2. i + 1 \in D <=> r[i + 1][1] = "endType" /\ TypesOpen(r, i + 1) = 0
  OBVIOUS
<1> HIDE DEF D
<1>3. /\ Cardinality({j \in k + 1 .. i : j \in D}) \in Nat
      /\ Cardinality({j \in k + 1 .. k : j \in D}) = 0
      /\ Cardinality({j \in k + 1 .. i + 1 : j \in D})
           = Cardinality({j \in k + 1 .. i : j \in D}) + (IF i + 1 \in D THEN 1 ELSE 0)
  BY CountNext, CountNone
<1>4. /\ Written(r, k, k) = Cardinality({j \in k + 1 .. k : j \in D})
      /\ Written(r, k, i) = Cardinality({j \in k + 1 .. i : j \in D})
      /\ Written(r, k, i + 1) = Cardinality({j \in k + 1 .. i + 1 : j \in D})
  BY <1>1
<1> QED
  BY <1>2, <1>3, <1>4

\* A call takes two types at most.
LEMMA TakesType == \A c : printer!Takes(c) \in 0 .. 2
BY DEF printer!Takes

LEMMA TakenByNext ==
  ASSUME NEW r, NEW k \in Nat, NEW i \in Nat, k <= i
  PROVE  /\ TakenBy(r, k, i) \in Nat
         /\ TakenBy(r, k, k) = 0
         /\ TakenBy(r, k, i + 1) = TakenBy(r, k, i) + printer!Takes(r[i + 1])
<1> DEFINE D == {j \in Nat : printer!Takes(r[j]) > 0}
           E == {j \in Nat : printer!Takes(r[j]) > 1}
           One(n) == Cardinality({j \in k + 1 .. n : j \in D})
           Two(n) == Cardinality({j \in k + 1 .. n : j \in E})
<1>1. \A n \in Nat : TakenBy(r, k, n) = One(n) + Two(n)
  <2> SUFFICES ASSUME NEW n \in Nat
               PROVE  TakenBy(r, k, n) = One(n) + Two(n)
    OBVIOUS
  <2>1. {j \in k + 1 .. n : printer!Takes(r[j]) > 0} = {j \in k + 1 .. n : j \in D}
    OBVIOUS
  <2>2. {j \in k + 1 .. n : printer!Takes(r[j]) > 1} = {j \in k + 1 .. n : j \in E}
    OBVIOUS
  <2> QED
    BY <2>1, <2>2 DEF TakenBy
<1>2. /\ i + 1 \in D <=> printer!Takes(r[i + 1]) > 0
      /\ i + 1 \in E <=> printer!Takes(r[i + 1]) > 1
  OBVIOUS
<1> HIDE DEF D, E
<1>3. /\ One(i) \in Nat /\ One(k) = 0
      /\ One(i + 1) = One(i) + (IF i + 1 \in D THEN 1 ELSE 0)
  BY CountNext, CountNone
<1>4. /\ Two(i) \in Nat /\ Two(k) = 0
      /\ Two(i + 1) = Two(i) + (IF i + 1 \in E THEN 1 ELSE 0)
  BY CountNext, CountNone
<1>5. printer!Takes(r[i + 1]) \in 0 .. 2
  BY TakesType
<1> HIDE DEF One, Two
<1> QED
  BY <1>1, <1>2, <1>3, <1>4, <1>5

-----------------------------------------------------------------------------
(* The types a call opens, completes and takes.                            *)

IsSeq(s) == \E S : s \in Seq(S)

LEMMA SeqFacts ==
  ASSUME NEW s, IsSeq(s)
  PROVE  Len(s) \in Nat /\ DOMAIN s = 1 .. Len(s) /\ (s = <<>> <=> Len(s) = 0)
BY EmptySeq, LenProperties DEF IsSeq

LEMMA SeqAppend ==
  ASSUME NEW s, IsSeq(s), NEW e
  PROVE  /\ IsSeq(Append(s, e)) /\ Len(Append(s, e)) = Len(s) + 1
         /\ \A i \in 1 .. Len(s) : Append(s, e)[i] = s[i]
         /\ Append(s, e)[Len(s) + 1] = e
<1>1. PICK S : s \in Seq(S)
  BY DEF IsSeq
<1> DEFINE T == S \union {e}
<1>2. s \in Seq(T) /\ e \in T
  BY <1>1, SeqDef
<1> HIDE DEF T
<1> QED
  BY <1>2, AppendProperties DEF IsSeq

\* The sequence without its last n elements.
LEMMA SeqCut ==
  ASSUME NEW s, IsSeq(s), NEW n \in 0 .. Len(s)
  PROVE  /\ IsSeq(SubSeq(s, 1, Len(s) - n)) /\ Len(SubSeq(s, 1, Len(s) - n)) = Len(s) - n
         /\ \A i \in 1 .. Len(s) - n : SubSeq(s, 1, Len(s) - n)[i] = s[i]
         /\ n = 0 => SubSeq(s, 1, Len(s) - n) = s
<1>1. PICK S : s \in Seq(S)
  BY DEF IsSeq
<1>2. Len(s) \in Nat /\ Len(s) - n \in Int /\ 1 \in Int
  BY SeqFacts
<1>3. \A i \in 1 .. Len(s) - n : s[i] \in S
  BY <1>1, <1>2, ElementOfSeq
<1>4. SubSeq(s, 1, Len(s) - n) \in Seq(S)
  BY <1>2, <1>3, SubSeqProperties
<1>5. Len(SubSeq(s, 1, Len(s) - n)) = Len(s) - n
  <2>1. Len(SubSeq(s, 1, Len(s) - n)) =
          IF 1 <= Len(s) - n THEN (Len(s) - n) - 1 + 1 ELSE 0
    BY <1>2, <1>3, SubSeqProperties
  <2> QED
    BY <1>2, <2>1
<1>6. \A i \in 1 .. Len(s) - n : SubSeq(s, 1, Len(s) - n)[i] = s[i]
  <2>1. \A i \in 1 .. (Len(s) - n) - 1 + 1 : SubSeq(s, 1, Len(s) - n)[i] = s[1 + i - 1]
    BY <1>2, <1>3, SubSeqProperties
  <2> QED
    BY <1>2, <2>1
<1>7. n = 0 => SubSeq(s, 1, Len(s) - n) = s
  <2>1. SubSeq(s, 1, Len(s)) = s
    BY <1>1, SubSeqFull
  <2>2. n = 0 => Len(s) - n = Len(s)
    BY <1>2
  <2> QED
    BY <2>1, <2>2
<1> QED
  BY <1>4, <1>5, <1>6, <1>7 DEF IsSeq

LEMMA SeqJoin ==
  ASSUME NEW s, IsSeq(s), NEW t, IsSeq(t)
  PROVE  /\ IsSeq(s \o t) /\ Len(s \o t) = Len(s) + Len(t)
         /\ \A i \in 1 .. Len(s) : (s \o t)[i] = s[i]
         /\ \A i \in 1 .. Len(t) : (s \o t)[Len(s) + i] = t[i]
<1>1. PICK S : s \in Seq(S)
  BY DEF IsSeq
<1>2. PICK T : t \in Seq(T)
  BY DEF IsSeq
<1> DEFINE U == S \union T
<1>3. s \in Seq(U) /\ t \in Seq(U)
  BY <1>1, <1>2, SeqDef
<1> HIDE DEF U
<1>4. Len(s) \in Nat /\ Len(t) \in Nat
  BY SeqFacts
<1> QED
  BY <1>3, <1>4, ConcatProperties DEF IsSeq

\* A sequence with elements replaced.
LEMMA SeqReplaced ==
  ASSUME NEW s, IsSeq(s), NEW t, t = [i \in DOMAIN s |-> t[i]]
  PROVE  IsSeq(t) /\ Len(t) = Len(s)
<1>1. Len(s) \in Nat /\ DOMAIN s = 1 .. Len(s)
  BY SeqFacts
<1> DEFINE T == {t[i] : i \in 1 .. Len(s)}
<1>2. t \in [1 .. Len(s) -> T]
  <2>1. \A i \in 1 .. Len(s) : t[i] \in T
    OBVIOUS
  <2> HIDE DEF T
  <2> QED
    BY <1>1, <2>1
<1> HIDE DEF T
<1>3. t \in Seq(T) /\ DOMAIN t = 1 .. Len(s)
  BY <1>1, <1>2, SeqDef
<1>4. Len(t) = Len(s)
  <2>1. Len(t) \in Nat /\ DOMAIN t = 1 .. Len(t)
    BY <1>3, LenProperties
  <2>2. 1 .. Len(t) = 1 .. Len(s)
    BY <1>3, <2>1
  <2> QED
    BY <1>1, <2>1, <2>2
<1> QED
  BY <1>3, <1>4 DEF IsSeq

\* The stack s of open types behind the call c, and the completed types d.
Part(c, s) ==
  CASE c[1] = "beginType" -> Append(s, [kind |-> c[3], name |-> "", children |-> <<>>])
    [] c[1] = "typeName"  -> [s EXCEPT ![Len(s)].name = c[2]]
    [] c[1] = "endType"   ->
         IF Len(s) > 1
         THEN [SubSeq(s, 1, Len(s) - 1) EXCEPT
                 ![Len(s) - 1].children = Append(@, s[Len(s)])]
         ELSE <<>>
    [] OTHER -> s
Completes(c, s) == c[1] = "endType" /\ Len(s) = 1
Whole(c, s, d) ==
  IF c[1] = "endType" THEN IF Len(s) > 1 THEN d ELSE d \o s
                      ELSE SubSeq(d, 1, Len(d) - printer!Takes(c))

\* What a call needs of the open types, and of n completed ones.
NeedsPart(c, s) == c[1] \in {"typeName", "endType"} => s # <<>>

LEMMA PartLength ==
  ASSUME NEW c, NEW s, IsSeq(s), NeedsPart(c, s)
  PROVE  /\ IsSeq(Part(c, s))
         /\ Len(Part(c, s)) = Len(s) + (IF c[1] = "beginType" THEN 1 ELSE 0)
                                     - (IF c[1] = "endType" THEN 1 ELSE 0)
<1>0. Len(s) \in Nat /\ DOMAIN s = 1 .. Len(s) /\ (s = <<>> <=> Len(s) = 0)
  BY SeqFacts
<1>1. CASE c[1] = "beginType"
  <2> DEFINE t == [kind |-> c[3], name |-> "", children |-> <<>>]
  <2>1. Part(c, s) = Append(s, t)
    BY <1>1 DEF Part
  <2> HIDE DEF t
  <2>2. IsSeq(Append(s, t)) /\ Len(Append(s, t)) = Len(s) + 1
    BY SeqAppend
  <2> QED
    BY <1>0, <1>1, <2>1, <2>2
<1>2. CASE c[1] = "typeName"
  <2> DEFINE t == [s EXCEPT ![Len(s)].name = c[2]]
  <2>1. Part(c, s) = t
    BY <1>2 DEF Part
  <2>2. t = [i \in DOMAIN s |-> t[i]]
    OBVIOUS
  <2> HIDE DEF t
  <2>3. IsSeq(t) /\ Len(t) = Len(s)
    BY <2>2, SeqReplaced
  <2> QED
    BY <1>0, <1>2, <2>1, <2>3
<1>3. CASE c[1] = "endType" /\ Len(s) > 1
  <2> DEFINE u == SubSeq(s, 1, Len(s) - 1)
             t == [u EXCEPT ![Len(s) - 1].children = Append(@, s[Len(s)])]
  <2>1. Part(c, s) = t
    BY <1>3 DEF Part
  <2>2. t = [i \in DOMAIN u |-> t[i]]
    OBVIOUS
  <2>3. IsSeq(u) /\ Len(u) = Len(s) - 1
    <3>1. 1 \in 0 .. Len(s)
      BY <1>0, <1>3
    <3> QED
      BY <3>1, SeqCut
  <2> HIDE DEF t, u
  <2>4. IsSeq(t) /\ Len(t) = Len(u)
    BY <2>2, <2>3, SeqReplaced
  <2> QED
    BY <1>0, <1>3, <2>1, <2>3, <2>4
<1>4. CASE c[1] = "endType" /\ ~(Len(s) > 1)
  <2>1. Part(c, s) = <<>>
    BY <1>4 DEF Part
  <2>3. Len(s) = 1
    BY <1>0, <1>4 DEF NeedsPart
  <2>2. IsSeq(<<>>) /\ Len(<<>>) = 0
    BY EmptySeq DEF IsSeq
  <2> QED
    BY <1>4, <2>1, <2>2, <2>3
<1>5. CASE c[1] \notin {"beginType", "typeName", "endType"}
  <2>1. Part(c, s) = s
    BY <1>5 DEF Part
  <2> QED
    BY <1>0, <1>5, <2>1
<1> QED
  BY <1>1, <1>2, <1>3, <1>4, <1>5

LEMMA WholeLength ==
  ASSUME NEW c, NEW s, IsSeq(s), NeedsPart(c, s), NEW d, IsSeq(d), printer!Takes(c) <= Len(d)
  PROVE  /\ IsSeq(Whole(c, s, d))
         /\ Len(Whole(c, s, d)) = Len(d) + (IF Completes(c, s) THEN 1 ELSE 0)
                                         - printer!Takes(c)
<1>0. /\ Len(s) \in Nat /\ DOMAIN s = 1 .. Len(s) /\ (s = <<>> <=> Len(s) = 0)
      /\ Len(d) \in Nat /\ DOMAIN d = 1 .. Len(d)
  BY SeqFacts
<1>1. printer!Takes(c) \in 0 .. Len(d) /\ (c[1] = "endType" => printer!Takes(c) = 0)
  BY <1>0, TakesType DEF printer!Takes
<1>2. CASE c[1] = "endType" /\ Len(s) > 1
  <2>1. Whole(c, s, d) = d
    BY <1>2 DEF Whole
  <2>2. ~Completes(c, s)
    BY <1>0, <1>2 DEF Completes
  <2> QED
    BY <1>0, <1>1, <1>2, <2>1, <2>2
<1>3. CASE c[1] = "endType" /\ ~(Len(s) > 1)
  <2>1. Len(s) = 1
    BY <1>0, <1>3 DEF NeedsPart
  <2>2. Whole(c, s, d) = d \o s /\ Completes(c, s)
    BY <1>3, <2>1 DEF Whole, Completes
  <2>3. IsSeq(d \o s) /\ Len(d \o s) = Len(d) + Len(s)
    BY SeqJoin
  <2> QED
    BY <1>0, <1>1, <1>3, <2>1, <2>2, <2>3
<1>4. CASE c[1] # "endType"
  <2> DEFINE t == printer!Takes(c)
  <2>1. Whole(c, s, d) = SubSeq(d, 1, Len(d) - t) /\ ~Completes(c, s)
    BY <1>4 DEF Whole, Completes
  <2>2. IsSeq(SubSeq(d, 1, Len(d) - t)) /\ Len(SubSeq(d, 1, Len(d) - t)) = Len(d) - t
    BY <1>1, SeqCut
  <2> QED
    BY <1>0, <1>1, <2>1, <2>2
<1> QED
  BY <1>2, <1>3, <1>4

\* The last n of two sequences are the same.
SharedSuffix(d, e, n) ==
  /\ n <= Len(d) /\ n <= Len(e)
  /\ \A j \in 0 .. n - 1 : d[Len(d) - j] = e[Len(e) - j]

\* What two backends share of their types they still share behind a call that takes none
\* of the others.
LEMMA WholeShared ==
  ASSUME NEW c, NEW s, IsSeq(s), NeedsPart(c, s), NEW d, IsSeq(d), NEW e, IsSeq(e),
         NEW n \in Nat, SharedSuffix(d, e, n), printer!Takes(c) <= n
  PROVE  SharedSuffix(Whole(c, s, d), Whole(c, s, e),
                      n + (IF Completes(c, s) THEN 1 ELSE 0) - printer!Takes(c))
<1>0. /\ Len(s) \in Nat /\ DOMAIN s = 1 .. Len(s) /\ (s = <<>> <=> Len(s) = 0)
      /\ Len(d) \in Nat /\ DOMAIN d = 1 .. Len(d)
      /\ Len(e) \in Nat /\ DOMAIN e = 1 .. Len(e)
  BY SeqFacts
<1>1. /\ printer!Takes(c) \in 0 .. n /\ n <= Len(d) /\ n <= Len(e)
      /\ c[1] = "endType" => printer!Takes(c) = 0
  BY <1>0, TakesType DEF printer!Takes, SharedSuffix
<1>2. CASE c[1] = "endType" /\ Len(s) > 1
  <2>1. Whole(c, s, d) = d /\ Whole(c, s, e) = e
    BY <1>2 DEF Whole
  <2>2. ~Completes(c, s)
    <3>1. Len(s) # 1
      <4>1. Len(s) \in Nat /\ \A m \in Nat : m > 1 => m # 1
        BY SeqFacts
      <4> QED
        BY <1>2, <4>1, Zenon
    <3> QED
      BY <3>1 DEF Completes
  <2>3. n + 0 - printer!Takes(c) = n
    BY <1>1, <1>2
  <2> QED
    BY <2>1, <2>2, <2>3
<1>3. CASE c[1] = "endType" /\ ~(Len(s) > 1)
  <2>1. Whole(c, s, d) = d \o s /\ Whole(c, s, e) = e \o s /\ Len(s) = 1 /\ Completes(c, s)
    BY <1>0, <1>3 DEF Whole, Completes, NeedsPart
  <2>2. /\ Len(d \o s) = Len(d) + 1 /\ (d \o s)[Len(d) + 1] = s[1]
        /\ \A i \in 1 .. Len(d) : (d \o s)[i] = d[i]
    <3>1. 1 \in 1 .. Len(s)
      BY <2>1
    <3>2. /\ Len(d \o s) = Len(d) + Len(s)
          /\ \A i \in 1 .. Len(d) : (d \o s)[i] = d[i]
          /\ \A i \in 1 .. Len(s) : (d \o s)[Len(d) + i] = s[i]
      BY SeqJoin
    <3> QED
      BY <2>1, <3>1, <3>2
  <2>3. /\ Len(e \o s) = Len(e) + 1 /\ (e \o s)[Len(e) + 1] = s[1]
        /\ \A i \in 1 .. Len(e) : (e \o s)[i] = e[i]
    <3>1. 1 \in 1 .. Len(s)
      BY <2>1
    <3>2. /\ Len(e \o s) = Len(e) + Len(s)
          /\ \A i \in 1 .. Len(e) : (e \o s)[i] = e[i]
          /\ \A i \in 1 .. Len(s) : (e \o s)[Len(e) + i] = s[i]
      BY SeqJoin
    <3> QED
      BY <2>1, <3>1, <3>2
  <2>4. ASSUME NEW j \in 0 .. n
        PROVE  (d \o s)[Len(d) + 1 - j] = (e \o s)[Len(e) + 1 - j]
    <3>1. CASE j = 0
      BY <1>0, <2>2, <2>3, <3>1
    <3>2. CASE j # 0
      <4>1. d[Len(d) - (j - 1)] = e[Len(e) - (j - 1)]
        <5>1. j - 1 \in 0 .. n - 1
          BY <3>2
        <5> QED
          BY <5>1 DEF SharedSuffix
      <4>2. /\ (d \o s)[Len(d) - (j - 1)] = d[Len(d) - (j - 1)]
            /\ (e \o s)[Len(e) - (j - 1)] = e[Len(e) - (j - 1)]
        BY <1>0, <1>1, <2>2, <2>3, <3>2
      <4>3. Len(d) + 1 - j = Len(d) - (j - 1) /\ Len(e) + 1 - j = Len(e) - (j - 1)
        BY <1>0
      <4> QED
        BY <4>1, <4>2, <4>3
    <3> QED
      BY <3>1, <3>2
  <2> QED
    <3>1. n + 1 - printer!Takes(c) = n + 1 /\ n + 1 - 1 = n
      BY <1>1, <1>3
    <3>2. SharedSuffix(d \o s, e \o s, n + 1)
      BY <1>0, <1>1, <2>2, <2>3, <2>4, <3>1 DEF SharedSuffix
    <3> QED
      BY <2>1, <3>1, <3>2
<1>4. CASE c[1] # "endType"
  <2> DEFINE t == printer!Takes(c)
             d2 == SubSeq(d, 1, Len(d) - t)
             e2 == SubSeq(e, 1, Len(e) - t)
  <2>1. Whole(c, s, d) = d2 /\ Whole(c, s, e) = e2 /\ ~Completes(c, s)
    BY <1>4 DEF Whole, Completes
  <2>2. t \in 0 .. Len(d) /\ t \in 0 .. Len(e)
    BY <1>0, <1>1
  <2>3. /\ Len(d2) = Len(d) - t /\ \A i \in 1 .. Len(d) - t : d2[i] = d[i]
        /\ Len(e2) = Len(e) - t /\ \A i \in 1 .. Len(e) - t : e2[i] = e[i]
    BY <2>2, SeqCut
  <2> HIDE DEF d2, e2
  <2>4. ASSUME NEW j \in 0 .. n - t - 1
        PROVE  d2[Len(d2) - j] = e2[Len(e2) - j]
    <3>1. d[Len(d) - (j + t)] = e[Len(e) - (j + t)]
      <4>1. j + t \in 0 .. n - 1
        BY <1>1
      <4> QED
        BY <4>1 DEF SharedSuffix
    <3>2. d2[Len(d) - t - j] = d[Len(d) - t - j] /\ e2[Len(e) - t - j] = e[Len(e) - t - j]
      BY <1>0, <1>1, <2>3
    <3>3. Len(d) - (j + t) = Len(d) - t - j /\ Len(e) - (j + t) = Len(e) - t - j
      BY <1>0, <1>1
    <3> QED
      BY <2>3, <3>1, <3>2, <3>3
  <2> QED
    BY <1>0, <1>1, <2>1, <2>3, <2>4 DEF SharedSuffix
<1> QED
  BY <1>2, <1>3, <1>4

-----------------------------------------------------------------------------
(* What a call does to the types and the elements of either backend.       *)

TypeCalls == {"beginType", "typeName", "endType"}

\* A call that takes nothing leaves the types as they are.
LEMMA TypesKept ==
  ASSUME NEW c, c[1] \notin TypeCalls, printer!Takes(c) = 0, NEW s, NEW d, IsSeq(d)
  PROVE  Part(c, s) = s /\ Whole(c, s, d) = d
<1>1. Part(c, s) = s
  BY DEF Part, TypeCalls
<1>2. Whole(c, s, d) = SubSeq(d, 1, Len(d) - 0)
  BY DEF Whole, TypeCalls
<1>3. 0 \in 0 .. Len(d)
  BY SeqFacts
<1> QED
  BY <1>1, <1>2, <1>3, SeqCut

LEMMA PrinterEffect ==
  ASSUME Debug, NEW c, IsSeq(printedTypeStack), IsSeq(printedDoneTypes), m_indent \in Int,
         printer!Perform(c)
  PROVE  /\ printedTypeStack' = Part(c, printedTypeStack)
         /\ printedDoneTypes' = Whole(c, printedTypeStack, printedDoneTypes)
         /\ m_indent' = m_indent + (IF c[1] \in printer!Opening THEN 1 ELSE 0)
                                 - (IF c[1] \in printer!Closing THEN 1 ELSE 0)
<1>1. c[1] \in TypeCalls => printer!Takes(c) = 0
  BY DEF TypeCalls, printer!Takes
<1>2. CASE c[1] \in {"beginType", "typeName"}
  <2>1. printedDoneTypes' = printedDoneTypes /\ m_indent' = m_indent
    BY <1>2 DEF printer!Perform, printer!beginType, printer!typeName, printer!TypeCalls
  <2>2. printedTypeStack' = Part(c, printedTypeStack)
    BY <1>2 DEF printer!Perform, printer!beginType, printer!typeName, printer!TypeCalls, Part
  <2>3. Whole(c, printedTypeStack, printedDoneTypes)
          = SubSeq(printedDoneTypes, 1, Len(printedDoneTypes) - 0)
    BY <1>1, <1>2 DEF Whole, TypeCalls
  <2>4. 0 \in 0 .. Len(printedDoneTypes)
    BY SeqFacts
  <2>5. SubSeq(printedDoneTypes, 1, Len(printedDoneTypes) - 0) = printedDoneTypes
    BY <2>4, SeqCut
  <2> QED
    BY <1>2, <2>1, <2>2, <2>3, <2>5 DEF printer!Opening, printer!Closing
<1>3. CASE c[1] = "endType"
  <2>1. printer!endType /\ m_indent' = m_indent
    BY <1>3 DEF printer!Perform, printer!TypeCalls
  <2>2. printedTypeStack' = Part(c, printedTypeStack)
    BY <1>3, <2>1 DEF printer!endType, printer!Front, printer!Last, Part
  <2>3. printedDoneTypes' = Whole(c, printedTypeStack, printedDoneTypes)
    BY <1>3, <2>1 DEF printer!endType, Whole
  <2> QED
    BY <1>3, <2>1, <2>2, <2>3 DEF printer!Opening, printer!Closing
<1>4. CASE c[1] \notin TypeCalls
  <2>1. printer!Printed(c)
    BY <1>4 DEF printer!Perform, printer!TypeCalls, TypeCalls
  <2> QED
    BY <1>4, <2>1 DEF printer!Printed, Part, Whole, TypeCalls
<1> QED
  BY <1>2, <1>3, <1>4 DEF TypeCalls

\* A call that takes the types it needs.
LEMMA TakeEffect ==
  ASSUME Debug, NEW c, c[1] \notin TypeCalls, IsSeq(m_doneTypes),
         printer!Takes(c) <= Len(m_doneTypes), DB!Take(printer!Takes(c)),
         m_typeStack' = m_typeStack
  PROVE  /\ aborted' = FALSE
         /\ m_typeStack' = Part(c, m_typeStack)
         /\ m_doneTypes' = Whole(c, m_typeStack, m_doneTypes)
<1>1. DB!CanTake(printer!Takes(c))
  BY DEF DB!CanTake
<1>2. aborted' = FALSE
  BY <1>1 DEF DB!Take, DB!Asserted
<1>3. m_doneTypes' = SubSeq(m_doneTypes, 1, Len(m_doneTypes) - printer!Takes(c))
  BY <1>1 DEF DB!Take
<1> QED
  BY <1>2, <1>3 DEF Part, Whole, TypeCalls

LEMMA KeepEffect ==
  ASSUME NEW c, c[1] \notin TypeCalls, printer!Takes(c) = 0, IsSeq(m_doneTypes),
         UNCHANGED DB!typeVars
  PROVE  /\ m_typeStack' = Part(c, m_typeStack)
         /\ m_doneTypes' = Whole(c, m_typeStack, m_doneTypes)
<1>1. m_typeStack' = m_typeStack /\ m_doneTypes' = m_doneTypes
  BY DEF DB!typeVars
<1> QED
  BY <1>1, TypesKept

\* What a call adds to the depth of the element stack.
Deeper(c) == (IF c[1] \in ElementOpening THEN 1 ELSE 0)
               - (IF c[1] \in ElementClosing THEN 1 ELSE 0)

LEMMA StackIsSeq ==
  ASSUME DB!TypeOK
  PROVE  IsSeq(m_nodeStack)
BY DEF DB!TypeOK, IsSeq

LEMMA ChildDepth ==
  ASSUME DB!TypeOK, NEW c, c[1] \in ElementOpening, NEW tag, NEW name,
         m_nodeStack' = DB!Child(tag, name)
  PROVE  Len(m_nodeStack') = Len(m_nodeStack) + Deeper(c)
<1>1. Len(DB!Child(tag, name)) = Len(m_nodeStack) + 1
  BY StackIsSeq, SeqAppend DEF DB!Child
<1>2. Deeper(c) = 1
  BY DEF Deeper, ElementOpening, ElementClosing
<1> QED
  BY <1>1, <1>2

LEMMA PopDepth ==
  ASSUME Debug, DB!TypeOK, NEW c, c[1] \in ElementClosing, m_nodeStack # <<>>, DB!Pop
  PROVE  Len(m_nodeStack') = Len(m_nodeStack) + Deeper(c) /\ aborted' = FALSE
<1>1. IsSeq(m_nodeStack)
  BY StackIsSeq
<1>2. 1 \in 0 .. Len(m_nodeStack)
  BY <1>1, SeqFacts
<1>3. m_nodeStack' = SubSeq(m_nodeStack, 1, Len(m_nodeStack) - 1)
  BY DEF DB!Pop, DB!Popped, DB!Front
<1>4. Len(m_nodeStack') = Len(m_nodeStack) - 1
  BY <1>1, <1>2, <1>3, SeqCut
<1>5. Deeper(c) = -1
  BY DEF Deeper, ElementOpening, ElementClosing
<1>6. Len(m_nodeStack) \in Nat
  BY <1>1, SeqFacts
<1> QED
  BY <1>4, <1>5, <1>6 DEF DB!Pop, DB!Asserted

LEMMA KeptDepth ==
  ASSUME DB!TypeOK, NEW c, c[1] \notin ElementOpening \union ElementClosing,
         m_nodeStack' = m_nodeStack
  PROVE  Len(m_nodeStack') = Len(m_nodeStack) + Deeper(c)
<1>1. Len(m_nodeStack) \in Nat /\ Deeper(c) = 0
  BY StackIsSeq, SeqFacts DEF Deeper
<1> QED
  BY <1>1

\* A type that has just been begun, as the two backends write it.
LEMMA NewType ==
  ASSUME NEW kind
  PROVE  [DB!NoType EXCEPT !.kind = kind] = [kind |-> kind, name |-> "", children |-> <<>>]
<1> DEFINE t == [DB!NoType EXCEPT !.kind = kind]
           u == [kind |-> kind, name |-> "", children |-> <<>>]
<1>1. DOMAIN t = {"kind", "name", "children"} /\ DOMAIN u = {"kind", "name", "children"}
  BY DEF DB!NoType
<1>2. t["kind"] = u["kind"]
  BY DEF DB!NoType
<1>3. t["name"] = u["name"]
  BY DEF DB!NoType
<1>4. t["children"] = u["children"]
  BY DEF DB!NoType
<1>5. t = [x \in DOMAIN t |-> t[x]] /\ u = [x \in DOMAIN u |-> u[x]]
  OBVIOUS
<1> HIDE DEF t, u
<1>6. t = u
  BY <1>1, <1>2, <1>3, <1>4, <1>5
<1> QED
  BY <1>6 DEF t, u

\* A call inside a file whose asserts hold.
Supports(c) ==
  /\ NeedsPart(c, m_typeStack)
  /\ printer!Takes(c) <= Len(m_doneTypes)
  /\ c[1] \in ElementClosing => m_nodeStack # <<>>

LEMMA InsideEffect ==
  ASSUME Debug, DB!TypeOK, IsSeq(m_typeStack), IsSeq(m_doneTypes), ~aborted,
         NEW c, Supports(c), DB!Inside(c)
  PROVE  /\ aborted' = FALSE
         /\ m_typeStack' = Part(c, m_typeStack)
         /\ m_doneTypes' = Whole(c, m_typeStack, m_doneTypes)
         /\ Len(m_nodeStack') = Len(m_nodeStack) + Deeper(c)
<1>0. aborted = FALSE
  BY DEF DB!TypeOK
<1> DEFINE G == /\ aborted' = FALSE
                /\ m_typeStack' = Part(c, m_typeStack)
                /\ m_doneTypes' = Whole(c, m_typeStack, m_doneTypes)
                /\ Len(m_nodeStack') = Len(m_nodeStack) + Deeper(c)
           NoElement == c[1] \notin ElementOpening \union ElementClosing
           Still == m_nodeStack' = m_nodeStack
<1>still. NoElement /\ Still => Len(m_nodeStack') = Len(m_nodeStack) + Deeper(c)
  BY KeptDepth
<1>keep. c[1] \notin TypeCalls /\ printer!Takes(c) = 0 /\ UNCHANGED DB!typeVars
           => /\ m_typeStack' = Part(c, m_typeStack)
              /\ m_doneTypes' = Whole(c, m_typeStack, m_doneTypes)
  BY KeepEffect
<1>take. c[1] \notin TypeCalls /\ DB!Take(printer!Takes(c)) /\ m_typeStack' = m_typeStack
           => /\ aborted' = FALSE
              /\ m_typeStack' = Part(c, m_typeStack)
              /\ m_doneTypes' = Whole(c, m_typeStack, m_doneTypes)
  BY TakeEffect DEF Supports
<1>whole. Whole(c, m_typeStack, m_doneTypes) = m_doneTypes
            \/ c[1] \notin {"beginType", "typeName"}
  <2>1. 0 \in 0 .. Len(m_doneTypes)
    BY SeqFacts
  <2>2. SubSeq(m_doneTypes, 1, Len(m_doneTypes) - 0) = m_doneTypes
    BY <2>1, SeqCut
  <2>3. c[1] \in {"beginType", "typeName"} => printer!Takes(c) = 0
    BY DEF printer!Takes
  <2> QED
    BY <2>2, <2>3 DEF Whole
<1> HIDE DEF Still
<1>beginType. CASE c[1] = "beginType" /\ DB!beginType(c[3])
  <2>1. m_typeStack' = Part(c, m_typeStack)
    <3>1. [DB!NoType EXCEPT !.kind = c[3]]
            = [kind |-> c[3], name |-> "", children |-> <<>>]
      BY NewType
    <3>2. m_typeStack' = Append(m_typeStack, [DB!NoType EXCEPT !.kind = c[3]])
      BY <1>beginType DEF DB!beginType
    <3> QED
      BY <1>beginType, <3>1, <3>2 DEF Part
  <2>2. m_doneTypes' = m_doneTypes /\ aborted' = aborted /\ Still
    BY <1>beginType DEF DB!beginType, DB!docVars, Still
  <2> QED
    BY <1>0, <1>beginType, <1>still, <1>whole, <2>1, <2>2 DEF ElementOpening, ElementClosing
<1>typeName. CASE c[1] = "typeName" /\ DB!typeName(c[2])
  <2>1. m_typeStack' = Part(c, m_typeStack)
    BY <1>typeName DEF DB!typeName, Part
  <2>2. m_doneTypes' = m_doneTypes /\ Still
    BY <1>typeName DEF DB!typeName, DB!docVars, Still
  <2>3. aborted' = FALSE
    BY <1>typeName DEF DB!typeName, DB!Asserted, Supports, NeedsPart
  <2> QED
    BY <1>typeName, <1>still, <1>whole, <2>1, <2>2, <2>3 DEF ElementOpening, ElementClosing
<1>endType. CASE c[1] = "endType" /\ DB!endType
  <2>1. m_typeStack' = Part(c, m_typeStack)
    BY <1>endType DEF DB!endType, DB!Front, DB!Last, Part
  <2>2. m_doneTypes' = Whole(c, m_typeStack, m_doneTypes)
    BY <1>endType DEF DB!endType, Whole
  <2>3. aborted' = FALSE /\ Still
    BY <1>endType DEF DB!endType, DB!Asserted, DB!docVars, Supports, NeedsPart, Still
  <2> QED
    BY <1>endType, <1>still, <2>1, <2>2, <2>3 DEF ElementOpening, ElementClosing
<1>taking. CASE \/ c[1] = "using_" /\ DB!using_(c[3])
                \/ c[1] = "friend_" /\ DB!friend_
                \/ c[1] = "templateArgument" /\ DB!templateArgument(c[2], c[3])
                \/ c[1] = "baseType" /\ DB!baseType
                \/ c[1] = "functionArgument" /\ DB!functionArgument(c[2])
  <2>1. DB!Take(printer!Takes(c)) /\ m_typeStack' = m_typeStack /\ Still
    BY <1>taking DEF DB!using_, DB!friend_, DB!templateArgument, DB!baseType,
       DB!functionArgument, DB!docVars, printer!Takes, Still
  <2>2. c[1] \notin TypeCalls /\ NoElement
    BY <1>taking DEF TypeCalls, ElementOpening, ElementClosing
  <2> QED
    BY <1>still, <1>take, <2>1, <2>2
<1>keeping. CASE \/ c[1] = "beginTemplate" /\ DB!beginTemplate
                 \/ c[1] = "endTemplate" /\ DB!endTemplate
                 \/ c[1] = "access" /\ DB!access(c[3])
                 \/ c[1] = "arraySubscript" /\ DB!arraySubscript(c[2])
                 \/ c[1] \in DB!Ignored /\ DB!ignored
  <2>1. UNCHANGED DB!typeVars /\ aborted' = aborted /\ Still
    BY <1>keeping DEF DB!beginTemplate, DB!endTemplate, DB!access, DB!arraySubscript,
       DB!ignored, DB!docVars, Still
  <2>2. c[1] \notin TypeCalls /\ printer!Takes(c) = 0 /\ NoElement
    BY <1>keeping DEF TypeCalls, printer!Takes, DB!Ignored, ElementOpening, ElementClosing
  <2> QED
    BY <1>0, <1>still, <1>keep, <2>1, <2>2
<1>opening. CASE \/ c[1] = "beginNamespace" /\ DB!beginNamespace(c[2])
                 \/ c[1] = "beginClass" /\ DB!beginClass(c[2], c[3])
  <2>1. UNCHANGED DB!typeVars /\ aborted' = aborted
    BY <1>opening DEF DB!beginNamespace, DB!beginClass
  <2>2. c[1] \notin TypeCalls /\ printer!Takes(c) = 0 /\ c[1] \in ElementOpening
    BY <1>opening DEF TypeCalls, printer!Takes, ElementOpening
  <2>3. \E tag : m_nodeStack' = DB!Child(tag, c[2])
    BY <1>opening DEF DB!beginNamespace, DB!beginClass, DB!PushWithTemplate, DB!AfterParameters
  <2>4. Len(m_nodeStack') = Len(m_nodeStack) + Deeper(c)
    BY <2>2, <2>3, ChildDepth
  <2> QED
    BY <1>0, <1>keep, <2>1, <2>2, <2>4
<1>openingTyped. CASE \/ c[1] = "beginProperty" /\ DB!beginTyped("property", c[2])
                      \/ c[1] = "beginTypedef" /\ DB!beginTyped("typedef", c[2])
                      \/ c[1] = "beginFunction" /\ DB!beginFunction(c[2])
  <2>1. DB!Take(printer!Takes(c)) /\ m_typeStack' = m_typeStack
    BY <1>openingTyped DEF DB!beginTyped, DB!beginFunction, printer!Takes
  <2>2. c[1] \notin TypeCalls /\ c[1] \in ElementOpening
    BY <1>openingTyped DEF TypeCalls, ElementOpening
  <2>3. \E tag : m_nodeStack' = DB!Child(tag, c[2])
    BY <1>openingTyped DEF DB!beginTyped, DB!beginFunction, DB!PushWithTemplate,
       DB!AfterParameters
  <2>4. Len(m_nodeStack') = Len(m_nodeStack) + Deeper(c)
    BY <2>2, <2>3, ChildDepth
  <2> QED
    BY <1>take, <2>1, <2>2, <2>4
<1>closing. CASE \/ c[1] = "endNamespace" /\ DB!endNamespace
                 \/ c[1] = "endClass" /\ DB!endClass(c[3])
                 \/ c[1] \in {"endProperty", "endTypedef", "endFunction"} /\ DB!endTyped
  <2>1. UNCHANGED DB!typeVars /\ DB!Pop
    BY <1>closing DEF DB!endNamespace, DB!endClass, DB!endTyped
  <2>2. c[1] \notin TypeCalls /\ printer!Takes(c) = 0 /\ c[1] \in ElementClosing
    BY <1>closing DEF TypeCalls, printer!Takes, ElementClosing
  <2>3. Len(m_nodeStack') = Len(m_nodeStack) + Deeper(c) /\ aborted' = FALSE
    BY <2>1, <2>2, PopDepth DEF Supports
  <2> QED
    BY <1>keep, <2>1, <2>2, <2>3
<1> QED
  BY <1>beginType, <1>typeName, <1>endType, <1>taking, <1>keeping, <1>opening,
     <1>openingTyped, <1>closing DEF DB!Inside

-----------------------------------------------------------------------------
(* The invariant: how far the result is run, and what that leaves behind.  *)

OpenElements(r, i) == NumberOf(r, ElementOpening, 0, i) - NumberOf(r, ElementClosing, 0, i)
OpenOthers(r, i)   == NumberOf(r, OtherOpening, 0, i) - NumberOf(r, OtherClosing, 0, i)
Supply(r, k, i)    == Written(r, k, i) - TakenBy(r, k, i)

Stacks ==
  /\ aborted = FALSE /\ debug \in BOOLEAN /\ m_indent \in Int
  /\ IsSeq(m_typeStack) /\ IsSeq(m_doneTypes)
  /\ IsSeq(printedTypeStack) /\ IsSeq(printedDoneTypes)
  /\ debug => printedTypeStack = m_typeStack

\* Between two results.
Between ==
  /\ m_nodeStack = <<>> /\ inFile = FALSE
  /\ m_typeStack = <<>>
  /\ debug => m_indent >= 0

\* The types written behind the k-th call and not taken are the last of either backend.
Reach(r, k, i) ==
  /\ Supply(r, k, i) \in Nat /\ Supply(r, k, i) <= Len(m_doneTypes)
  /\ debug => SharedSuffix(m_doneTypes, printedDoneTypes, Supply(r, k, i))

\* i calls of r have been run.
Progress(r, i) ==
  /\ Len(m_typeStack) = TypesOpen(r, i)
  /\ OpenElements(r, i) >= 0 /\ OpenOthers(r, i) >= 0
  /\ \E k \in Cuts(r, i) : Reach(r, k, i)
  /\ inFile <=> i > 0
  /\ i = 0 => m_nodeStack = <<>> /\ (debug => m_indent >= 0)
  /\ i > 0 => /\ Len(m_nodeStack) = 1 + OpenElements(r, i)
              /\ debug => m_indent >= 1 + OpenElements(r, i) + OpenOthers(r, i)

Running(r, i) == result = SubSeq(r, i + 1, Len(r)) /\ Progress(r, i)

BackendsInv ==
  /\ Stacks
  /\ \/ result = <<>> /\ Between
     \/ \E r \in Seq(AnyCalls) : \E i \in 0 .. Len(r) - 1 : Matched(r) /\ Running(r, i)

-----------------------------------------------------------------------------
(* The counts as the invariant uses them.                                  *)

LEMMA TypesOpenNext ==
  ASSUME NEW r, NEW i \in Nat
  PROVE  /\ TypesOpen(r, i) \in Int /\ TypesOpen(r, 0) = 0
         /\ TypesOpen(r, i + 1) = TypesOpen(r, i)
              + (IF r[i + 1][1] = "beginType" THEN 1 ELSE 0)
              - (IF r[i + 1][1] = "endType" THEN 1 ELSE 0)
<1>1. /\ NumberOf(r, {"beginType"}, 0, i) \in Nat /\ NumberOf(r, {"beginType"}, 0, 0) = 0
      /\ NumberOf(r, {"beginType"}, 0, i + 1) = NumberOf(r, {"beginType"}, 0, i)
           + (IF r[i + 1][1] \in {"beginType"} THEN 1 ELSE 0)
  BY NumberOfNext
<1>2. /\ NumberOf(r, {"endType"}, 0, i) \in Nat /\ NumberOf(r, {"endType"}, 0, 0) = 0
      /\ NumberOf(r, {"endType"}, 0, i + 1) = NumberOf(r, {"endType"}, 0, i)
           + (IF r[i + 1][1] \in {"endType"} THEN 1 ELSE 0)
  BY NumberOfNext
<1> QED
  BY <1>1, <1>2 DEF TypesOpen

LEMMA OpenElementsNext ==
  ASSUME NEW r, NEW i \in Nat
  PROVE  /\ OpenElements(r, i) \in Int /\ OpenElements(r, 0) = 0
         /\ OpenElements(r, i + 1) = OpenElements(r, i) + Deeper(r[i + 1])
<1>1. /\ NumberOf(r, ElementOpening, 0, i) \in Nat /\ NumberOf(r, ElementOpening, 0, 0) = 0
      /\ NumberOf(r, ElementOpening, 0, i + 1) = NumberOf(r, ElementOpening, 0, i)
           + (IF r[i + 1][1] \in ElementOpening THEN 1 ELSE 0)
  BY NumberOfNext
<1>2. /\ NumberOf(r, ElementClosing, 0, i) \in Nat /\ NumberOf(r, ElementClosing, 0, 0) = 0
      /\ NumberOf(r, ElementClosing, 0, i + 1) = NumberOf(r, ElementClosing, 0, i)
           + (IF r[i + 1][1] \in ElementClosing THEN 1 ELSE 0)
  BY NumberOfNext
<1> QED
  BY <1>1, <1>2 DEF OpenElements, Deeper

LEMMA OpenOthersNext ==
  ASSUME NEW r, NEW i \in Nat
  PROVE  /\ OpenOthers(r, i) \in Int /\ OpenOthers(r, 0) = 0
         /\ OpenOthers(r, i + 1) = OpenOthers(r, i)
              + (IF r[i + 1][1] \in OtherOpening THEN 1 ELSE 0)
              - (IF r[i + 1][1] \in OtherClosing THEN 1 ELSE 0)
<1>1. /\ NumberOf(r, OtherOpening, 0, i) \in Nat /\ NumberOf(r, OtherOpening, 0, 0) = 0
      /\ NumberOf(r, OtherOpening, 0, i + 1) = NumberOf(r, OtherOpening, 0, i)
           + (IF r[i + 1][1] \in OtherOpening THEN 1 ELSE 0)
  BY NumberOfNext
<1>2. /\ NumberOf(r, OtherClosing, 0, i) \in Nat /\ NumberOf(r, OtherClosing, 0, 0) = 0
      /\ NumberOf(r, OtherClosing, 0, i + 1) = NumberOf(r, OtherClosing, 0, i)
           + (IF r[i + 1][1] \in OtherClosing THEN 1 ELSE 0)
  BY NumberOfNext
<1> QED
  BY <1>1, <1>2 DEF OpenOthers

LEMMA SupplyNext ==
  ASSUME NEW r, NEW k \in Nat, NEW i \in Nat, k <= i
  PROVE  /\ Supply(r, k, i) \in Int /\ Supply(r, k, k) = 0
         /\ Supply(r, k, i + 1) = Supply(r, k, i)
              + (IF r[i + 1][1] = "endType" /\ TypesOpen(r, i + 1) = 0 THEN 1 ELSE 0)
              - printer!Takes(r[i + 1])
<1>1. printer!Takes(r[i + 1]) \in Int
  BY TakesType
<1>2. /\ Written(r, k, i) \in Nat /\ Written(r, k, k) = 0
      /\ Written(r, k, i + 1) = Written(r, k, i)
           + (IF r[i + 1][1] = "endType" /\ TypesOpen(r, i + 1) = 0 THEN 1 ELSE 0)
  BY WrittenNext
<1>3. /\ TakenBy(r, k, i) \in Nat /\ TakenBy(r, k, k) = 0
      /\ TakenBy(r, k, i + 1) = TakenBy(r, k, i) + printer!Takes(r[i + 1])
  BY TakenByNext
<1> QED
  BY <1>1, <1>2, <1>3 DEF Supply

\* What the next call needs is there.
LEMMA CallSupported ==
  ASSUME Stacks, DB!TypeOK, NEW r \in Seq(AnyCalls), Matched(r),
         NEW i \in 0 .. Len(r) - 1, Progress(r, i), NEW k \in Cuts(r, i), Reach(r, k, i)
  PROVE  /\ Supports(r[i + 1])
         /\ printer!Takes(r[i + 1]) <= Supply(r, k, i)
         /\ r[i + 1][1] \in ElementClosing => OpenElements(r, i) > 0
         /\ r[i + 1][1] \in OtherClosing => OpenOthers(r, i) > 0
         /\ debug => ~printer!Fails(r[i + 1])
<1> DEFINE c == r[i + 1]
<1>1. Len(r) \in Nat /\ i \in Nat /\ i + 1 \in DOMAIN r /\ (i + 1) - 1 = i
  BY LenProperties
<1>2. printer!Takes(c) <= Supply(r, k, i)
  BY <1>1 DEF Matched, Supplied, Supply
<1>3. printer!Takes(c) \in 0 .. 2
  BY TakesType
<1>4. Supply(r, k, i) \in Nat /\ Supply(r, k, i) <= Len(m_doneTypes)
  BY DEF Reach
<1>5. Len(m_doneTypes) \in Nat /\ Len(m_nodeStack) \in Nat
  BY SeqFacts, StackIsSeq DEF Stacks
<1>6. printer!Takes(c) <= Len(m_doneTypes)
  BY <1>2, <1>3, <1>4, <1>5
<1>7. NeedsPart(c, m_typeStack)
  <2>1. c[1] \in {"typeName", "endType"} => TypesOpen(r, i) > 0
    BY <1>1 DEF Matched, Nested
  <2>2. m_typeStack = <<>> => Len(m_typeStack) = 0
    BY SeqFacts DEF Stacks
  <2> QED
    BY <2>1, <2>2 DEF NeedsPart, Progress
<1>8. c[1] \in ElementClosing => OpenElements(r, i) > 0
  <2>1. c[1] \in ElementClosing => OpenBefore(r, i + 1, ElementOpening, ElementClosing)
    BY <1>1 DEF Matched, Nested
  <2>2. /\ NumberOf(r, ElementOpening, 0, i) \in Nat
        /\ NumberOf(r, ElementClosing, 0, i) \in Nat
    BY <1>1, NumberOfNext
  <2> QED
    BY <1>1, <2>1, <2>2 DEF OpenBefore, OpenElements
<1>9. c[1] \in OtherClosing => OpenOthers(r, i) > 0
  <2>1. c[1] \in OtherClosing => OpenBefore(r, i + 1, OtherOpening, OtherClosing)
    BY <1>1 DEF Matched, Nested
  <2>2. /\ NumberOf(r, OtherOpening, 0, i) \in Nat
        /\ NumberOf(r, OtherClosing, 0, i) \in Nat
    BY <1>1, NumberOfNext
  <2> QED
    BY <1>1, <2>1, <2>2 DEF OpenBefore, OpenOthers
<1>10. c[1] \in ElementClosing => m_nodeStack # <<>>
  <2>1. i > 0 => Len(m_nodeStack) = 1 + OpenElements(r, i)
    BY DEF Progress
  <2>2. OpenElements(r, 0) = 0
    BY <1>1, OpenElementsNext
  <2>3. m_nodeStack = <<>> => Len(m_nodeStack) = 0
    BY SeqFacts, StackIsSeq
  <2>4. i = 0 => OpenElements(r, i) = 0
    BY <2>2
  <2>5. OpenElements(r, i) \in Int
    BY <1>1, OpenElementsNext
  <2> QED
    BY <1>1, <1>8, <2>1, <2>3, <2>4, <2>5
<1>11. Supports(c)
  BY <1>6, <1>7, <1>10 DEF Supports
<1>12. ASSUME debug
       PROVE  ~printer!Fails(c)
  <2>1. printer!Takes(c) <= Len(printedDoneTypes)
    <3>1. Supply(r, k, i) <= Len(printedDoneTypes)
      BY <1>12 DEF Reach, SharedSuffix
    <3>2. Len(printedDoneTypes) \in Nat
      BY SeqFacts DEF Stacks
    <3> QED
      BY <1>2, <1>3, <1>4, <3>1, <3>2
  <2>2. ~(Len(printedDoneTypes) < printer!Takes(c))
    <3>1. Len(printedDoneTypes) \in Nat
      BY SeqFacts DEF Stacks
    <3> QED
      BY <1>3, <2>1, <3>1
  <2>3. ~(m_indent < 0)
    <3>1. OpenElements(r, i) \in Int /\ OpenOthers(r, i) \in Int
      BY <1>1, OpenElementsNext, OpenOthersNext
    <3>2. OpenElements(r, i) >= 0 /\ OpenOthers(r, i) >= 0 /\ m_indent \in Int
      BY DEF Progress, Stacks
    <3>3. i = 0 => m_indent >= 0
      BY <1>12 DEF Progress
    <3>4. i > 0 => m_indent >= 1 + OpenElements(r, i) + OpenOthers(r, i)
      BY <1>12 DEF Progress
    <3> QED
      BY <1>1, <3>1, <3>2, <3>3, <3>4
  <2>4. c[1] \in {"typeName", "endType"} => printedTypeStack # <<>>
    BY <1>7, <1>12 DEF NeedsPart, Stacks
  <2> QED
    BY <2>2, <2>3, <2>4 DEF printer!Fails
<1> QED
  BY <1>2, <1>8, <1>9, <1>11, <1>12

-----------------------------------------------------------------------------
(* One call of a result.                                                   *)

\* The database's own invariants, whatever is called.
DatabaseInv == DB!TypeOK /\ DB!CleanInv

\* Of a result, i calls are run.
LEMMA ResultFacts ==
  ASSUME NEW r \in Seq(AnyCalls), NEW i \in 0 .. Len(r) - 1, result = SubSeq(r, i + 1, Len(r))
  PROVE  /\ result # <<>> /\ Head(result) = r[i + 1]
         /\ r[i + 1] \in AnyCalls
         /\ Tail(result) = SubSeq(r, i + 2, Len(r))
<1>1. Len(r) \in Nat /\ i + 1 \in 1 .. Len(r) /\ i \in Nat
  BY LenProperties
<1>2. r[i + 1] \in AnyCalls
  BY <1>1, ElementOfSeq
<1>3. \A j \in i + 1 .. Len(r) : r[j] \in AnyCalls
  BY <1>1, ElementOfSeq
<1>4. /\ result \in Seq(AnyCalls) /\ Len(result) = Len(r) - i
      /\ \A j \in 1 .. Len(r) - i : result[j] = r[i + j]
  <2>1. i + 1 \in Int /\ Len(r) \in Int
    BY <1>1
  <2>2. /\ SubSeq(r, i + 1, Len(r)) \in Seq(AnyCalls)
        /\ Len(SubSeq(r, i + 1, Len(r))) =
             IF i + 1 <= Len(r) THEN Len(r) - (i + 1) + 1 ELSE 0
        /\ \A j \in 1 .. Len(r) - (i + 1) + 1 : SubSeq(r, i + 1, Len(r))[j] = r[i + 1 + j - 1]
    BY <1>3, <2>1, SubSeqProperties
  <2>3. Len(r) - (i + 1) + 1 = Len(r) - i
    BY <1>1
  <2>4. \A j \in 1 .. Len(r) - i : i + 1 + j - 1 = i + j
    BY <1>1
  <2> QED
    BY <1>1, <2>2, <2>3, <2>4
<1>5. result # <<>>
  <2>1. Len(r) - i # 0
    BY <1>1
  <2>2. Len(result) # 0
    BY <1>4, <2>1
  <2> QED
    BY <2>2, EmptySeq
<1>6. Head(result) = r[i + 1]
  <2>1. Head(result) = result[1]
    BY <1>4, <1>5, HeadTailProperties
  <2>2. 1 \in 1 .. Len(r) - i
    BY <1>1
  <2> QED
    BY <1>4, <2>1, <2>2
<1>7. Tail(result) = SubSeq(r, i + 2, Len(r))
  <2> DEFINE s == SubSeq(r, i + 2, Len(r))
             t == Tail(result)
  <2>1. /\ s \in Seq(AnyCalls) /\ Len(s) = Len(r) - i - 1
        /\ \A j \in 1 .. Len(r) - i - 1 : s[j] = r[i + 1 + j]
    <3>1. i + 2 \in Int /\ Len(r) \in Int /\ \A j \in i + 2 .. Len(r) : r[j] \in AnyCalls
      BY <1>1, <1>3
    <3>2. /\ s \in Seq(AnyCalls)
          /\ Len(s) = IF i + 2 <= Len(r) THEN Len(r) - (i + 2) + 1 ELSE 0
          /\ \A j \in 1 .. Len(r) - (i + 2) + 1 : s[j] = r[i + 2 + j - 1]
      BY <3>1, SubSeqProperties
    <3>3. Len(r) - (i + 2) + 1 = Len(r) - i - 1
      BY <1>1
    <3>4. \A j \in 1 .. Len(r) - i - 1 : i + 2 + j - 1 = i + 1 + j
      BY <1>1
    <3> HIDE DEF s
    <3>5. Len(s) = Len(r) - i - 1
      BY <1>1, <3>2
    <3>6. \A j \in 1 .. Len(r) - i - 1 : s[j] = r[i + 1 + j]
      BY <3>2, <3>3, <3>4
    <3> QED
      BY <3>2, <3>5, <3>6
  <2>2. /\ t \in Seq(AnyCalls) /\ Len(t) = Len(result) - 1
        /\ \A j \in 1 .. Len(t) : t[j] = result[j + 1]
    BY <1>4, <1>5, HeadTailProperties
  <2>3. \A j \in 1 .. Len(r) - i - 1 : t[j] = r[i + 1 + j]
    <3> SUFFICES ASSUME NEW j \in 1 .. Len(r) - i - 1 PROVE t[j] = r[i + 1 + j]
      OBVIOUS
    <3>1. j + 1 \in 1 .. Len(r) - i /\ i + (j + 1) = i + 1 + j /\ j \in 1 .. Len(t)
      BY <1>1, <1>4, <2>2
    <3> QED
      BY <1>4, <2>2, <3>1
  <2> HIDE DEF s, t
  <2>4. Len(t) = Len(s)
    BY <1>1, <1>4, <2>1, <2>2
  <2>5. \A j \in 1 .. Len(s) : s[j] = t[j]
    BY <2>1, <2>3
  <2>6. s = t
    BY <2>1, <2>2, <2>4, <2>5, SeqEqual
  <2> QED
    BY <2>6 DEF s, t
<1> QED
  BY <1>2, <1>5, <1>6, <1>7

\* The call c reaches the database unless the debug backend keeps it.
Reaches(c) == ~debug \/ printer!Forwards(c)

LEMMA CallPerformed ==
  ASSUME NEW c, c = Head(result), debug => ~printer!Fails(c), RunCall
  PROVE  /\ result' = Tail(result) /\ debug' = debug
         /\ debug => printer!Perform(c)
         /\ ~debug => UNCHANGED printerVars
         /\ Reaches(c) => DB!Perform(c)
         /\ ~Reaches(c) => UNCHANGED dbVars
         /\ ~aborted
<1>1. DB!Perform(c) <=> db!Perform(c)
  BY DatabaseSame
<1>2. result' = Tail(result) /\ debug' = debug
  BY DEF RunCall
<1>3. CASE debug
  <2>1. PerformPrinted(c)
    BY <1>3 DEF RunCall
  <2> QED
    BY <1>1, <1>2, <1>3, <2>1 DEF PerformPrinted, Reaches
<1>4. CASE ~debug
  <2>1. db!Perform(c) /\ UNCHANGED printerVars
    BY <1>4 DEF RunCall
  <2> QED
    BY <1>1, <1>2, <1>4, <2>1 DEF Reaches, db!Perform
<1> QED
  BY <1>3, <1>4

LEMMA DatabaseKept == DatabaseInv /\ UNCHANGED dbVars => DatabaseInv'
BY DEF DatabaseInv, DB!TypeOK, DB!CleanInv, DB!RootOnlyAtBottom, DB!FilesStartClean, dbVars

LEMMA DatabaseStep ==
  ASSUME Debug, DatabaseInv, NEW c \in AnyCalls, DB!Perform(c)
  PROVE  DatabaseInv'
<1>1. DB!TypeOK'
  BY DatabaseParameters, DB!TypesStep DEF DatabaseInv
<1>2. DB!CleanInv'
  BY DatabaseParameters, DB!CleanStep DEF DatabaseInv
<1> QED
  BY <1>1, <1>2 DEF DatabaseInv

\* What the call c does to the database it reaches.
LEMMA DatabaseEffect ==
  ASSUME Debug, Stacks, DatabaseInv, NEW c \in AnyCalls, Supports(c), DB!Perform(c)
  PROVE  /\ aborted' = FALSE
         /\ m_typeStack' = Part(c, m_typeStack)
         /\ m_doneTypes' = Whole(c, m_typeStack, m_doneTypes)
         /\ c[1] = "begin" => /\ inFile' = TRUE
                              /\ m_nodeStack = <<>> => Len(m_nodeStack') = 1
         /\ c[1] = "end" => inFile' = FALSE /\ m_nodeStack' = <<>>
         /\ c[1] \notin {"begin", "end"} =>
              inFile' = inFile /\ Len(m_nodeStack') = Len(m_nodeStack) + Deeper(c)
<1>0. aborted = FALSE /\ IsSeq(m_typeStack) /\ IsSeq(m_doneTypes) /\ DB!TypeOK
  BY DEF Stacks, DatabaseInv
<1>1. CASE c[1] = "begin" /\ DB!begin(c[2])
  <2>1. UNCHANGED DB!typeVars /\ aborted' = aborted /\ inFile' = TRUE
    BY <1>1 DEF DB!begin
  <2>2. c[1] \notin TypeCalls /\ printer!Takes(c) = 0
    BY <1>1 DEF TypeCalls, printer!Takes
  <2>3. m_nodeStack = <<>> => Len(m_nodeStack') = 1
    <3>1. m_nodeStack' = Append(m_nodeStack, DB!TypeDbStep)
      BY <1>1 DEF DB!begin
    <3>2. IsSeq(m_nodeStack)
      BY <1>0, StackIsSeq
    <3>3. Len(Append(m_nodeStack, DB!TypeDbStep)) = Len(m_nodeStack) + 1
      BY <3>2, SeqAppend
    <3>4. m_nodeStack = <<>> => Len(m_nodeStack) = 0
      BY <3>2, SeqFacts
    <3> QED
      BY <3>1, <3>3, <3>4
  <2> QED
    BY <1>0, <1>1, <2>1, <2>2, <2>3, KeepEffect
<1>2. CASE c[1] = "end" /\ DB!end(c[2])
  <2>1. UNCHANGED DB!typeVars /\ aborted' = aborted /\ inFile' = FALSE
    BY <1>2 DEF DB!end
  <2>2. c[1] \notin TypeCalls /\ printer!Takes(c) = 0
    BY <1>2 DEF TypeCalls, printer!Takes
  <2>3. m_nodeStack' = <<>>
    <3>1. DatabaseInv'
      BY DatabaseStep
    <3> QED
      BY <2>1, <3>1 DEF DatabaseInv, DB!CleanInv, DB!FilesStartClean
  <2> QED
    BY <1>0, <1>2, <2>1, <2>2, <2>3, KeepEffect
<1>3. CASE DB!Inside(c)
  <2>1. c[1] \notin {"begin", "end"}
    BY <1>3 DEF DB!Inside, DB!Ignored
  <2>2. inFile' = inFile
    BY <1>3 DEF DB!Inside
  <2>3. ~aborted
    BY <1>0
  <2>4. /\ aborted' = FALSE
        /\ m_typeStack' = Part(c, m_typeStack)
        /\ m_doneTypes' = Whole(c, m_typeStack, m_doneTypes)
        /\ Len(m_nodeStack') = Len(m_nodeStack) + Deeper(c)
    BY <1>0, <1>3, <2>3, InsideEffect
  <2> QED
    BY <2>1, <2>2, <2>4
<1> QED
  BY <1>1, <1>2, <1>3 DEF DB!Perform

LEMMA CallEffect ==
  ASSUME Debug, Stacks, DatabaseInv, NEW r \in Seq(AnyCalls), Matched(r),
         NEW i \in 0 .. Len(r) - 1, Running(r, i), RunCall, NEW c, c = r[i + 1]
  PROVE  /\ DatabaseInv' /\ debug' = debug /\ result' = SubSeq(r, i + 2, Len(r))
         /\ aborted' = FALSE
         /\ m_typeStack' = Part(c, m_typeStack)
         /\ m_doneTypes' = IF Reaches(c) THEN Whole(c, m_typeStack, m_doneTypes)
                                         ELSE m_doneTypes
         /\ debug => /\ printedTypeStack' = Part(c, printedTypeStack)
                     /\ printedDoneTypes' = Whole(c, printedTypeStack, printedDoneTypes)
                     /\ m_indent' = m_indent + (IF c[1] \in printer!Opening THEN 1 ELSE 0)
                                             - (IF c[1] \in printer!Closing THEN 1 ELSE 0)
         /\ ~debug => UNCHANGED printerVars
         /\ i = 0 => inFile' = TRUE /\ Len(m_nodeStack') = 1
         /\ i + 1 = Len(r) => inFile' = FALSE /\ m_nodeStack' = <<>>
         /\ i > 0 /\ i + 1 < Len(r) =>
              inFile' = TRUE /\ Len(m_nodeStack') = Len(m_nodeStack) + Deeper(c)
<1>1. Progress(r, i) /\ result = SubSeq(r, i + 1, Len(r))
  BY DEF Running
<1>2. c \in AnyCalls /\ c = Head(result) /\ Tail(result) = SubSeq(r, i + 2, Len(r))
  BY <1>1, ResultFacts
<1>3. Supports(c) /\ (debug => ~printer!Fails(c))
  <2>1. PICK k \in Cuts(r, i) : Reach(r, k, i)
    BY <1>1 DEF Progress
  <2> QED
    BY <1>1, <2>1, CallSupported DEF DatabaseInv
<1>4. /\ result' = Tail(result) /\ debug' = debug
      /\ debug => printer!Perform(c)
      /\ ~debug => UNCHANGED printerVars
      /\ Reaches(c) => DB!Perform(c)
      /\ ~Reaches(c) => UNCHANGED dbVars
  BY <1>2, <1>3, CallPerformed
<1>5. debug => /\ printedTypeStack' = Part(c, printedTypeStack)
               /\ printedDoneTypes' = Whole(c, printedTypeStack, printedDoneTypes)
               /\ m_indent' = m_indent + (IF c[1] \in printer!Opening THEN 1 ELSE 0)
                                       - (IF c[1] \in printer!Closing THEN 1 ELSE 0)
  <2> SUFFICES ASSUME debug
               PROVE  /\ printedTypeStack' = Part(c, printedTypeStack)
                      /\ printedDoneTypes' = Whole(c, printedTypeStack, printedDoneTypes)
                      /\ m_indent' = m_indent + (IF c[1] \in printer!Opening THEN 1 ELSE 0)
                                              - (IF c[1] \in printer!Closing THEN 1 ELSE 0)
    OBVIOUS
  <2>1. IsSeq(printedTypeStack) /\ IsSeq(printedDoneTypes) /\ m_indent \in Int
    BY DEF Stacks
  <2> QED
    BY <1>4, <2>1, PrinterEffect
<1>6. /\ Len(r) \in Nat /\ i \in Nat /\ i + 1 \in DOMAIN r /\ Len(r) > 1
      /\ (c[1] = "begin" <=> i + 1 = 1) /\ (c[1] = "end" <=> i + 1 = Len(r))
  <2>1. Len(r) \in Nat /\ i \in Nat /\ i + 1 \in DOMAIN r
    BY LenProperties
  <2> QED
    BY <2>1 DEF Matched, Framed
<1>7. i = 0 => m_nodeStack = <<>>
  BY <1>1 DEF Progress
<1>8. inFile \in BOOLEAN /\ (inFile <=> i > 0)
  BY <1>1 DEF Progress, DatabaseInv, DB!TypeOK
<1>9. CASE Reaches(c)
  <2>1. DB!Perform(c)
    BY <1>4, <1>9
  <2>2. DatabaseInv'
    BY <1>2, <2>1, DatabaseStep
  <2>3. /\ aborted' = FALSE
        /\ m_typeStack' = Part(c, m_typeStack)
        /\ m_doneTypes' = Whole(c, m_typeStack, m_doneTypes)
        /\ c[1] = "begin" => /\ inFile' = TRUE
                             /\ m_nodeStack = <<>> => Len(m_nodeStack') = 1
        /\ c[1] = "end" => inFile' = FALSE /\ m_nodeStack' = <<>>
        /\ c[1] \notin {"begin", "end"} =>
             inFile' = inFile /\ Len(m_nodeStack') = Len(m_nodeStack) + Deeper(c)
    BY <1>2, <1>3, <2>1, DatabaseEffect
  <2>4. i = 0 => c[1] = "begin"
    BY <1>6
  <2>5. i + 1 = Len(r) => c[1] = "end"
    BY <1>6
  <2>6. i > 0 /\ i + 1 < Len(r) => c[1] \notin {"begin", "end"}
    BY <1>6
  <2>7. i > 0 => inFile = TRUE
    BY <1>8
  <2> HIDE DEF DatabaseInv
  <2> QED
    BY <1>2, <1>4, <1>5, <1>7, <1>9, <2>2, <2>3, <2>4, <2>5, <2>6, <2>7
<1>10. CASE ~Reaches(c)
  <2>1. debug /\ c[1] = "friend_"
    BY <1>10 DEF Reaches, printer!Forwards
  <2>2. UNCHANGED dbVars
    BY <1>4, <1>10
  <2>3. DatabaseInv'
    BY <2>2, DatabaseKept
  <2>4. i > 0 /\ i + 1 # Len(r)
    BY <1>6, <2>1
  <2>5. m_typeStack' = Part(c, m_typeStack) /\ m_doneTypes' = m_doneTypes
    BY <2>1, <2>2 DEF Part, dbVars
  <2>6. aborted' = FALSE
    BY <2>2 DEF dbVars, Stacks
  <2>7. Deeper(c) = 0 /\ Len(m_nodeStack) \in Nat
    <3>1. IsSeq(m_nodeStack)
      BY StackIsSeq DEF DatabaseInv
    <3> QED
      BY <2>1, <3>1, SeqFacts DEF Deeper, ElementOpening, ElementClosing
  <2>8. m_nodeStack' = m_nodeStack /\ inFile' = TRUE
    BY <1>8, <2>2, <2>4 DEF dbVars
  <2>9. Len(m_nodeStack') = Len(m_nodeStack) + Deeper(c)
    BY <2>7, <2>8
  <2>10. ~(i = 0)
    BY <1>6, <2>4
  <2> HIDE DEF DatabaseInv
  <2> QED
    BY <1>2, <1>4, <1>5, <1>10, <2>1, <2>3, <2>4, <2>5, <2>6, <2>8, <2>9, <2>10
<1> QED
  BY <1>9, <1>10

\* The types that a call leaves.
LEMMA StacksStep ==
  ASSUME Debug, Stacks, DatabaseInv, NEW r \in Seq(AnyCalls), Matched(r),
         NEW i \in 0 .. Len(r) - 1, Running(r, i), RunCall
  PROVE  Stacks' /\ Len(m_typeStack') = TypesOpen(r, i + 1)
<1> DEFINE c == r[i + 1]
<1>0. i \in Nat /\ Progress(r, i)
  BY DEF Running
<1>1. Supports(c) /\ (debug => ~printer!Fails(c))
  <2>1. PICK k \in Cuts(r, i) : Reach(r, k, i)
    BY <1>0 DEF Progress
  <2> QED
    BY <1>0, <2>1, CallSupported DEF DatabaseInv
<1>2. /\ debug' = debug /\ aborted' = FALSE
      /\ m_typeStack' = Part(c, m_typeStack)
      /\ m_doneTypes' = IF Reaches(c) THEN Whole(c, m_typeStack, m_doneTypes)
                                      ELSE m_doneTypes
      /\ debug => /\ printedTypeStack' = Part(c, printedTypeStack)
                  /\ printedDoneTypes' = Whole(c, printedTypeStack, printedDoneTypes)
                  /\ m_indent' = m_indent + (IF c[1] \in printer!Opening THEN 1 ELSE 0)
                                          - (IF c[1] \in printer!Closing THEN 1 ELSE 0)
      /\ ~debug => UNCHANGED printerVars
  BY CallEffect
<1> HIDE DEF c
<1>3. /\ IsSeq(m_typeStack) /\ IsSeq(m_doneTypes) /\ IsSeq(printedTypeStack)
      /\ IsSeq(printedDoneTypes) /\ m_indent \in Int /\ debug \in BOOLEAN
      /\ debug => printedTypeStack = m_typeStack
  BY DEF Stacks
<1>4. NeedsPart(c, m_typeStack) /\ printer!Takes(c) <= Len(m_doneTypes)
  BY <1>1 DEF Supports
<1>5. /\ IsSeq(Part(c, m_typeStack))
      /\ Len(Part(c, m_typeStack)) = Len(m_typeStack) + (IF c[1] = "beginType" THEN 1 ELSE 0)
                                                      - (IF c[1] = "endType" THEN 1 ELSE 0)
  BY <1>3, <1>4, PartLength
<1>6. IsSeq(Whole(c, m_typeStack, m_doneTypes))
  BY <1>3, <1>4, WholeLength
<1>7. debug => IsSeq(Whole(c, printedTypeStack, printedDoneTypes))
  <2> SUFFICES ASSUME debug PROVE IsSeq(Whole(c, printedTypeStack, printedDoneTypes))
    OBVIOUS
  <2>1. NeedsPart(c, printedTypeStack)
    BY <1>3, <1>4
  <2>2. printer!Takes(c) <= Len(printedDoneTypes)
    <3>1. printer!Takes(c) \in 0 .. 2 /\ Len(printedDoneTypes) \in Nat
      BY <1>3, TakesType, SeqFacts
    <3>2. c[1] \notin printer!TypeCalls => ~(Len(printedDoneTypes) < printer!Takes(c))
      BY <1>1 DEF printer!Fails
    <3>3. c[1] \in printer!TypeCalls => printer!Takes(c) = 0
      BY DEF printer!TypeCalls, printer!Takes
    <3> QED
      BY <3>1, <3>2, <3>3
  <2> QED
    BY <1>3, <2>1, <2>2, WholeLength
<1>8. Len(m_typeStack') = TypesOpen(r, i + 1)
  <2>1. Len(m_typeStack) = TypesOpen(r, i)
    BY <1>0 DEF Progress
  <2> QED
    BY <1>0, <1>2, <1>5, <2>1, TypesOpenNext DEF c
<1>9. IsSeq(m_typeStack') /\ IsSeq(m_doneTypes')
  BY <1>2, <1>3, <1>5, <1>6
<1>10. CASE debug
  <2>1. printedTypeStack' = m_typeStack' /\ m_indent' \in Int
    BY <1>2, <1>3, <1>10
  <2>2. IsSeq(printedTypeStack') /\ IsSeq(printedDoneTypes')
    BY <1>2, <1>7, <1>9, <1>10, <2>1
  <2> QED
    BY <1>2, <1>3, <1>8, <1>9, <2>1, <2>2 DEF Stacks, IsSeq
<1>11. CASE ~debug
  <2>1. /\ printedTypeStack' = printedTypeStack /\ printedDoneTypes' = printedDoneTypes
        /\ m_indent' = m_indent
    BY <1>2, <1>11 DEF printerVars
  <2> QED
    BY <1>2, <1>3, <1>8, <1>9, <1>11, <2>1 DEF Stacks, IsSeq
<1> QED
  BY <1>10, <1>11

\* The types still in reach.
LEMMA ReachStep ==
  ASSUME Debug, Stacks, DatabaseInv, NEW r \in Seq(AnyCalls), Matched(r),
         NEW i \in 0 .. Len(r) - 1, Running(r, i), RunCall
  PROVE  \E k \in Cuts(r, i + 1) : Reach(r, k, i + 1)'
<1> DEFINE c == r[i + 1]
<1>0. i \in Nat /\ i + 1 \in Nat /\ Progress(r, i) /\ Stacks'
  BY StacksStep DEF Running
<1>1. PICK k \in Cuts(r, i) : Reach(r, k, i)
  BY <1>0 DEF Progress
<1>2. Supports(c) /\ printer!Takes(c) <= Supply(r, k, i)
  BY <1>0, <1>1, CallSupported DEF DatabaseInv
<1>3. /\ debug' = debug
      /\ m_doneTypes' = IF Reaches(c) THEN Whole(c, m_typeStack, m_doneTypes)
                                      ELSE m_doneTypes
      /\ debug => printedDoneTypes' = Whole(c, printedTypeStack, printedDoneTypes)
  BY CallEffect
<1>4. /\ IsSeq(m_typeStack) /\ IsSeq(m_doneTypes) /\ IsSeq(printedDoneTypes)
      /\ debug => printedTypeStack = m_typeStack
  BY DEF Stacks
<1>5. Len(m_doneTypes') \in Nat /\ Len(printedDoneTypes') \in Nat
  <2>1. IsSeq(m_doneTypes') /\ IsSeq(printedDoneTypes')
    BY <1>0 DEF Stacks, IsSeq
  <2> QED
    BY <2>1, SeqFacts
<1>6. CASE c[1] = "friend_"
  <2>1. i + 1 \in Cuts(r, i + 1)
    BY <1>0, <1>6 DEF Cuts
  <2>2. Supply(r, i + 1, i + 1) = 0
    <3>1. i + 1 <= i + 1
      BY <1>0
    <3> QED
      BY <1>0, <3>1, SupplyNext
  <2>3. SharedSuffix(m_doneTypes, printedDoneTypes, 0)'
    BY <1>5 DEF SharedSuffix
  <2>4. Reach(r, i + 1, i + 1)'
    BY <1>5, <2>2, <2>3 DEF Reach
  <2> QED
    BY <2>1, <2>4
<1>7. CASE c[1] # "friend_"
  <2> DEFINE n == Supply(r, k, i)
             m == Supply(r, k, i + 1)
             e == IF Completes(c, m_typeStack) THEN 1 ELSE 0
  <2>1. k \in Cuts(r, i + 1) /\ k \in Nat /\ k <= i
    BY <1>0 DEF Cuts
  <2>2. Reaches(c)
    BY <1>7 DEF Reaches, printer!Forwards
  <2>3. m_doneTypes' = Whole(c, m_typeStack, m_doneTypes)
    BY <1>3, <2>2
  <2>4. n \in Nat /\ n <= Len(m_doneTypes) /\ printer!Takes(c) \in 0 .. 2 /\ e \in 0 .. 1
    BY <1>1, TakesType DEF Reach
  <2>5. m = n + e - printer!Takes(c)
    <3>1. m = n + (IF c[1] = "endType" /\ TypesOpen(r, i + 1) = 0 THEN 1 ELSE 0)
                - printer!Takes(c)
      BY <1>0, <2>1, SupplyNext
    <3>2. c[1] = "endType" => TypesOpen(r, i + 1) = Len(m_typeStack) - 1
      <4>1. Len(m_typeStack) = TypesOpen(r, i) /\ TypesOpen(r, i) \in Int
        BY <1>0, TypesOpenNext DEF Progress
      <4>2. TypesOpen(r, i + 1) = TypesOpen(r, i)
              + (IF c[1] = "beginType" THEN 1 ELSE 0) - (IF c[1] = "endType" THEN 1 ELSE 0)
        BY <1>0, TypesOpenNext
      <4> QED
        BY <4>1, <4>2
    <3>3. Len(m_typeStack) \in Nat /\ DOMAIN m_typeStack = 1 .. Len(m_typeStack)
      BY <1>4, SeqFacts
    <3>4. Completes(c, m_typeStack) <=> c[1] = "endType" /\ TypesOpen(r, i + 1) = 0
      BY <3>2, <3>3 DEF Completes
    <3> QED
      BY <3>1, <3>4
  <2>6. Len(m_doneTypes') = Len(m_doneTypes) + e - printer!Takes(c)
    BY <1>2, <1>4, <2>3, WholeLength DEF Supports
  <2>7. m \in Nat /\ m <= Len(m_doneTypes')
    <3>1. Len(m_doneTypes) \in Nat
      BY <1>4, SeqFacts
    <3> HIDE DEF n, m, e
    <3>2. printer!Takes(c) <= n
      BY <1>2 DEF n
    <3> QED
      BY <2>4, <2>5, <2>6, <3>1, <3>2
  <2>8. debug => SharedSuffix(m_doneTypes', printedDoneTypes', m)
    <3> SUFFICES ASSUME debug PROVE SharedSuffix(m_doneTypes', printedDoneTypes', m)
      OBVIOUS
    <3>1. SharedSuffix(m_doneTypes, printedDoneTypes, n)
      BY <1>1 DEF Reach
    <3>2. printedDoneTypes' = Whole(c, m_typeStack, printedDoneTypes)
      BY <1>3, <1>4
    <3>3. NeedsPart(c, m_typeStack)
      BY <1>2 DEF Supports
    <3>4. SharedSuffix(Whole(c, m_typeStack, m_doneTypes), Whole(c, m_typeStack, printedDoneTypes),
                       n + e - printer!Takes(c))
      BY <1>2, <1>4, <2>4, <3>1, <3>3, WholeShared
    <3> QED
      BY <2>3, <2>5, <3>2, <3>4
  <2>9. Reach(r, k, i + 1)'
    BY <1>3, <2>7, <2>8 DEF Reach, SharedSuffix
  <2> QED
    BY <2>1, <2>9
<1> QED
  BY <1>6, <1>7

\* The elements that a call leaves open, and how far the debug backend indents.
LEMMA DepthStep ==
  ASSUME Debug, Stacks, DatabaseInv, NEW r \in Seq(AnyCalls), Matched(r),
         NEW i \in 0 .. Len(r) - 1, Running(r, i), RunCall
  PROVE  /\ OpenElements(r, i + 1) >= 0 /\ OpenOthers(r, i + 1) >= 0
         /\ i + 1 < Len(r) =>
              /\ inFile' = TRUE
              /\ Len(m_nodeStack') = 1 + OpenElements(r, i + 1)
              /\ debug => m_indent' >= 1 + OpenElements(r, i + 1) + OpenOthers(r, i + 1)
         /\ i + 1 = Len(r) =>
              /\ inFile' = FALSE /\ m_nodeStack' = <<>>
              /\ debug => m_indent' >= 0
<1> DEFINE c == r[i + 1]
           d == (IF c[1] \in OtherOpening THEN 1 ELSE 0)
                  - (IF c[1] \in OtherClosing THEN 1 ELSE 0)
           f == (IF c[1] = "begin" THEN 1 ELSE 0) - (IF c[1] = "end" THEN 1 ELSE 0)
           b == OpenElements(r, i)
           o == OpenOthers(r, i)
<1>0. i \in Nat /\ Progress(r, i) /\ Len(r) \in Nat
  BY LenProperties DEF Running
<1>1. /\ c[1] \in ElementClosing => b > 0
      /\ c[1] \in OtherClosing => o > 0
  <2>1. PICK k \in Cuts(r, i) : Reach(r, k, i)
    BY <1>0 DEF Progress
  <2> QED
    BY <1>0, <2>1, CallSupported DEF DatabaseInv
<1>2. /\ debug => m_indent' = m_indent + (IF c[1] \in printer!Opening THEN 1 ELSE 0)
                                       - (IF c[1] \in printer!Closing THEN 1 ELSE 0)
      /\ i = 0 => inFile' = TRUE /\ Len(m_nodeStack') = 1
      /\ i + 1 = Len(r) => inFile' = FALSE /\ m_nodeStack' = <<>>
      /\ i > 0 /\ i + 1 < Len(r) =>
           inFile' = TRUE /\ Len(m_nodeStack') = Len(m_nodeStack) + Deeper(c)
  BY CallEffect
<1>3. /\ (c[1] = "begin" <=> i = 0) /\ (c[1] = "end" <=> i + 1 = Len(r)) /\ Len(r) > 1
  BY <1>0 DEF Matched, Framed
<1>4. (IF c[1] \in printer!Opening THEN 1 ELSE 0) - (IF c[1] \in printer!Closing THEN 1 ELSE 0)
        = Deeper(c) + d + f
  BY DEF printer!Opening, printer!Closing, Deeper, ElementOpening, ElementClosing,
     OtherOpening, OtherClosing
<1>5. /\ b \in Int /\ o \in Int /\ b >= 0 /\ o >= 0 /\ (i = 0 => b = 0 /\ o = 0)
      /\ OpenElements(r, i + 1) = b + Deeper(c)
      /\ OpenOthers(r, i + 1) = o + d
  <2>1. b \in Int /\ o \in Int /\ OpenElements(r, 0) = 0 /\ OpenOthers(r, 0) = 0
    BY <1>0, OpenElementsNext, OpenOthersNext
  <2>2. OpenElements(r, i + 1) = b + Deeper(c)
    BY <1>0, OpenElementsNext
  <2>3. OpenOthers(r, i + 1) = o + (IF c[1] \in OtherOpening THEN 1 ELSE 0)
                                 - (IF c[1] \in OtherClosing THEN 1 ELSE 0)
    BY <1>0, OpenOthersNext
  <2>4. b >= 0 /\ o >= 0
    BY <1>0 DEF Progress
  <2> HIDE DEF c
  <2> QED
    BY <2>1, <2>2, <2>3, <2>4
<1>6. /\ Deeper(c) \in -1 .. 1 /\ (c[1] \notin ElementClosing => Deeper(c) >= 0)
      /\ d \in -1 .. 1 /\ (c[1] \notin OtherClosing => d >= 0)
      /\ f \in -1 .. 1 /\ (i = 0 => f = 1) /\ (i > 0 /\ i + 1 < Len(r) => f = 0)
      /\ (i + 1 = Len(r) => f = -1)
      /\ (c[1] \in {"begin", "end"} => Deeper(c) = 0 /\ d = 0)
  <2>1. /\ Deeper(c) \in -1 .. 1 /\ (c[1] \notin ElementClosing => Deeper(c) >= 0)
        /\ d \in -1 .. 1 /\ (c[1] \notin OtherClosing => d >= 0)
    BY DEF Deeper
  <2>2. c[1] \in {"begin", "end"} => Deeper(c) = 0 /\ d = 0
    BY DEF Deeper, ElementOpening, ElementClosing, OtherOpening, OtherClosing
  <2>3. /\ f \in -1 .. 1 /\ (i = 0 => f = 1) /\ (i > 0 /\ i + 1 < Len(r) => f = 0)
        /\ (i + 1 = Len(r) => f = -1)
    BY <1>0, <1>3
  <2> HIDE DEF c, d, f
  <2> QED
    BY <2>1, <2>2, <2>3
<1>7. /\ m_indent \in Int
      /\ debug /\ i = 0 => m_indent >= 0
      /\ i > 0 => Len(m_nodeStack) = 1 + b
      /\ debug /\ i > 0 => m_indent >= 1 + b + o
  BY <1>0 DEF Progress, Stacks
<1> DEFINE p == (IF c[1] \in printer!Opening THEN 1 ELSE 0)
                  - (IF c[1] \in printer!Closing THEN 1 ELSE 0)
<1>8. debug => m_indent' = m_indent + Deeper(c) + d + f
  <2>1. debug => m_indent' = m_indent + p
    BY <1>2, <1>7
  <2> HIDE DEF p
  <2>2. p = Deeper(c) + d + f
    BY <1>4 DEF p
  <2> HIDE DEF c, d, f
  <2> QED
    BY <1>6, <1>7, <2>1, <2>2
<1>9. i = 0 => Deeper(c) = 0 /\ d = 0
  BY <1>3, <1>6
<1>10. i + 1 = Len(r) => Deeper(c) = 0 /\ d = 0 /\ i > 0
  <2>1. i + 1 = Len(r) => i > 0
    BY <1>0, <1>3
  <2> QED
    BY <1>3, <1>6, <2>1
<1> DEFINE E == Deeper(c)
           B == OpenElements(r, i + 1)
           O == OpenOthers(r, i + 1)
<1>11. B >= 0 /\ O >= 0
  <2> HIDE DEF E, B, O, c, d, b, o
  <2>1. E \in -1 .. 1 /\ B = b + E /\ O = o + d /\ (c[1] \notin ElementClosing => E >= 0)
    BY <1>5, <1>6 DEF E, B, O
  <2> QED
    BY <1>1, <1>5, <1>6, <2>1
<1>12. ASSUME i + 1 < Len(r)
       PROVE  /\ inFile' = TRUE /\ Len(m_nodeStack') = 1 + B
              /\ debug => m_indent' >= 1 + B + O
  <2>1. CASE i = 0
    <3>1. B = 0 /\ O = 0
      <4>1. B = b + E /\ O = o + d
        BY <1>5
      <4> HIDE DEF B, O, E, d, b, o
      <4>2. E = 0 /\ d = 0 /\ b = 0 /\ o = 0
        BY <1>5, <1>9, <2>1 DEF E
      <4> QED
        BY <4>1, <4>2
    <3>2. debug => m_indent' = m_indent + 1
      BY <1>6, <1>7, <1>8, <1>9, <2>1
    <3> HIDE DEF B, O
    <3> QED
      BY <1>2, <1>7, <2>1, <3>1, <3>2
  <2>2. CASE i > 0
    <3>1. B = b + E /\ O = o + d /\ f = 0 /\ E \in -1 .. 1 /\ d \in -1 .. 1
      BY <1>5, <1>6, <1>12, <2>2
    <3>2. debug => m_indent' = m_indent + E + d + f
      BY <1>8
    <3>3. inFile' = TRUE /\ Len(m_nodeStack') = Len(m_nodeStack) + E
      BY <1>2, <1>12, <2>2
    <3> HIDE DEF B, O, E, c, d, f, b, o
    <3> QED
      BY <1>5, <1>7, <2>2, <3>1, <3>2, <3>3
  <2>3. i = 0 \/ i > 0
    BY <1>0
  <2> HIDE DEF B, O
  <2> QED
    BY <2>1, <2>2, <2>3
<1>13. ASSUME i + 1 = Len(r)
       PROVE  inFile' = FALSE /\ m_nodeStack' = <<>> /\ (debug => m_indent' >= 0)
  <2>1. f = -1 /\ Deeper(c) = 0 /\ d = 0 /\ i > 0
    BY <1>6, <1>10, <1>13
  <2>2. debug => m_indent' = m_indent - 1
    BY <1>7, <1>8, <2>1
  <2>3. inFile' = FALSE /\ m_nodeStack' = <<>>
    BY <1>2, <1>13
  <2> HIDE DEF c, d, f, b, o
  <2> QED
    BY <1>5, <1>7, <2>1, <2>2, <2>3
<1> QED
  BY <1>11, <1>12, <1>13

LEMMA CallStep ==
  ASSUME Debug, Stacks, DatabaseInv, NEW r \in Seq(AnyCalls), Matched(r),
         NEW i \in 0 .. Len(r) - 1, Running(r, i), RunCall
  PROVE  DatabaseInv' /\ BackendsInv'
<1>0. i \in Nat /\ Len(r) \in Nat
  BY LenProperties
<1>1. /\ DatabaseInv' /\ debug' = debug /\ result' = SubSeq(r, i + 2, Len(r))
  BY CallEffect
<1>2. Stacks' /\ Len(m_typeStack') = TypesOpen(r, i + 1)
  BY StacksStep
<1>3. \E k \in Cuts(r, i + 1) : Reach(r, k, i + 1)'
  BY ReachStep
<1>4. /\ OpenElements(r, i + 1) >= 0 /\ OpenOthers(r, i + 1) >= 0
      /\ i + 1 < Len(r) =>
           /\ inFile' = TRUE
           /\ Len(m_nodeStack') = 1 + OpenElements(r, i + 1)
           /\ debug => m_indent' >= 1 + OpenElements(r, i + 1) + OpenOthers(r, i + 1)
      /\ i + 1 = Len(r) =>
           /\ inFile' = FALSE /\ m_nodeStack' = <<>>
           /\ debug => m_indent' >= 0
  BY DepthStep
<1>5. CASE i + 1 < Len(r)
  <2>1. Progress(r, i + 1)'
    <3>1. i + 1 > 0 /\ ~(i + 1 = 0)
      BY <1>0
    <3>2. (\E k \in Cuts(r, i + 1) : Reach(r, k, i + 1))'
      BY <1>3
    <3> QED
      BY <1>1, <1>2, <1>4, <1>5, <3>1, <3>2 DEF Progress
  <2>2. Running(r, i + 1)'
    <3>1. (i + 1) + 1 = i + 2
      BY <1>0
    <3> QED
      BY <1>1, <2>1, <3>1 DEF Running
  <2>3. i + 1 \in 0 .. Len(r) - 1
    BY <1>0, <1>5
  <2> QED
    BY <1>1, <1>2, <2>2, <2>3 DEF BackendsInv
<1>6. CASE i + 1 = Len(r)
  <2>1. result' = <<>>
    <3>1. i + 2 > Len(r) /\ i + 2 \in Int
      BY <1>0, <1>6
    <3> QED
      BY <1>0, <1>1, <3>1, SubSeqEmpty
  <2>2. m_typeStack' = <<>>
    <3>1. TypesOpen(r, Len(r)) = 0
      BY DEF Matched, Nested
    <3>2. IsSeq(m_typeStack')
      BY <1>2 DEF Stacks, IsSeq
    <3> QED
      BY <1>2, <1>6, <3>1, <3>2, SeqFacts
  <2>3. Between'
    BY <1>1, <1>4, <1>6, <2>2 DEF Between
  <2> QED
    BY <1>1, <1>2, <2>1, <2>3 DEF BackendsInv
<1> QED
  BY <1>0, <1>5, <1>6

\* A result is received between two files.
LEMMA ReceiveStep ==
  ASSUME BackendsInv, DatabaseInv, Receive
  PROVE  DatabaseInv' /\ BackendsInv'
<1>1. PICK r \in Seq(Strings \X Strings \X Strings) : Matched(r) /\ result' = r
  BY DEF Receive
<1>2. r \in Seq(AnyCalls)
  <2>1. Len(r) \in Nat /\ DOMAIN r = 1 .. Len(r) /\ r \in [1 .. Len(r) -> Strings \X Strings \X Strings]
    BY LenProperties
  <2>2. \A j \in 1 .. Len(r) : r[j] \in AnyCalls
    BY <1>1, <2>1 DEF Matched, NoSecondRoot, AnyCalls
  <2>3. r \in [1 .. Len(r) -> AnyCalls]
    BY <2>1, <2>2
  <2> QED
    BY <2>1, <2>3, SeqDef
<1>3. /\ UNCHANGED dbVars /\ UNCHANGED printerVars /\ debug' = debug
  BY DEF Receive
<1>4. DatabaseInv'
  BY <1>3, DatabaseKept
<1>5. Stacks /\ Between
  <2>1. ~ \E s \in Seq(AnyCalls) : \E i \in 0 .. Len(s) - 1 : Matched(s) /\ Running(s, i)
    <3> SUFFICES ASSUME NEW s \in Seq(AnyCalls), NEW i \in 0 .. Len(s) - 1, Running(s, i)
                 PROVE  FALSE
      OBVIOUS
    <3>1. result # <<>>
      BY ResultFacts DEF Running
    <3> QED
      BY <3>1 DEF Receive
  <2> QED
    BY <2>1 DEF BackendsInv
<1>6. Stacks' /\ Between'
  BY <1>3, <1>5 DEF Stacks, Between, dbVars, printerVars, IsSeq
<1>7. Progress(r, 0)'
  <2>1. TypesOpen(r, 0) = 0 /\ OpenElements(r, 0) = 0 /\ OpenOthers(r, 0) = 0
    BY TypesOpenNext, OpenElementsNext, OpenOthersNext
  <2>2. Supply(r, 0, 0) = 0
    <3>1. 0 \in Nat /\ 0 <= 0
      OBVIOUS
    <3> QED
      BY <3>1, SupplyNext
  <2>3. Reach(r, 0, 0)'
    <3>1. IsSeq(m_doneTypes') /\ IsSeq(printedDoneTypes')
      BY <1>6 DEF Stacks, IsSeq
    <3>2. Len(m_doneTypes') \in Nat /\ Len(printedDoneTypes') \in Nat
      BY <3>1, SeqFacts
    <3>3. SharedSuffix(m_doneTypes, printedDoneTypes, 0)'
      BY <3>2 DEF SharedSuffix
    <3> QED
      BY <2>2, <3>2, <3>3 DEF Reach
  <2>4. 0 \in Cuts(r, 0)
    BY DEF Cuts
  <2>5. Len(m_typeStack') = 0
    BY <1>6, EmptySeq DEF Between
  <2>6. (\E k \in Cuts(r, 0) : Reach(r, k, 0))'
    BY <2>3, <2>4
  <2> QED
    BY <1>6, <2>1, <2>5, <2>6 DEF Progress, Between
<1>8. Running(r, 0)'
  <2>1. SubSeq(r, 1, Len(r)) = r
    BY SubSeqFull
  <2>2. 0 + 1 = 1
    OBVIOUS
  <2> QED
    BY <1>1, <1>7, <2>1, <2>2 DEF Running
<1>9. 0 \in 0 .. Len(r) - 1
  <2>1. Len(r) \in Nat /\ Len(r) > 1
    BY <1>1, LenProperties DEF Matched, Framed
  <2> QED
    BY <2>1
<1> QED
  BY <1>1, <1>2, <1>4, <1>6, <1>8, <1>9 DEF BackendsInv

LEMMA InitialState == BackendsInit => BackendsInv /\ DatabaseInv
<1> SUFFICES ASSUME BackendsInit PROVE BackendsInv /\ DatabaseInv
  OBVIOUS
<1>1. DB!Init /\ printer!Init /\ debug \in BOOLEAN /\ result = <<>>
  BY DatabaseSame DEF BackendsInit
<1>2. DB!TypeOK
  BY <1>1, ParametersAssumption, EmptySeq DEF DB!Init, DB!TypeOK
<1>3. DB!CleanInv
  BY <1>1, EmptySeq DEF DB!Init, DB!CleanInv, DB!RootOnlyAtBottom, DB!FilesStartClean
<1>4. Stacks
  <2>1. IsSeq(<<>>)
    BY DEF IsSeq
  <2> QED
    BY <1>1, <2>1 DEF DB!Init, printer!Init, Stacks
<1>5. Between
  BY <1>1 DEF DB!Init, printer!Init, Between
<1> QED
  BY <1>1, <1>2, <1>3, <1>4, <1>5 DEF BackendsInv, DatabaseInv

LEMMA StateKept ==
  ASSUME BackendsInv, UNCHANGED backendVars
  PROVE  BackendsInv'
<1>1. /\ UNCHANGED <<m_nodeStack, m_typeStack, m_doneTypes, inFile, aborted>>
      /\ UNCHANGED <<debug, m_indent, printedTypeStack, printedDoneTypes, result>>
  BY DEF backendVars, dbVars, printerVars
<1>2. Stacks'
  BY <1>1 DEF BackendsInv, Stacks, IsSeq
<1>3. CASE result = <<>> /\ Between
  BY <1>1, <1>2, <1>3 DEF BackendsInv, Between
<1>4. ASSUME NEW r \in Seq(AnyCalls), NEW i \in 0 .. Len(r) - 1, Matched(r), Running(r, i)
      PROVE  BackendsInv'
  <2>1. Running(r, i)'
    BY <1>1, <1>4 DEF Running, Progress, Reach, SharedSuffix
  <2> QED
    BY <1>2, <1>4, <2>1 DEF BackendsInv
<1> QED
  BY <1>3, <1>4 DEF BackendsInv

-----------------------------------------------------------------------------
(* What holds of the two backends.                                         *)

LEMMA BackendsHold ==
  ASSUME Debug
  PROVE  BackendsSpec => [](BackendsInv /\ DatabaseInv)
<1>1. BackendsInv /\ DatabaseInv /\ [BackendsNext]_backendVars => (BackendsInv /\ DatabaseInv)'
  <2> SUFFICES ASSUME BackendsInv, DatabaseInv, [BackendsNext]_backendVars
               PROVE  BackendsInv' /\ DatabaseInv'
    OBVIOUS
  <2>1. CASE RunCall
    <3>1. result # <<>>
      BY <2>1 DEF RunCall
    <3>2. PICK r \in Seq(AnyCalls) : \E i \in 0 .. Len(r) - 1 : Matched(r) /\ Running(r, i)
      BY <3>1 DEF BackendsInv
    <3>3. PICK i \in 0 .. Len(r) - 1 : Matched(r) /\ Running(r, i)
      BY <3>2
    <3>4. Stacks
      BY DEF BackendsInv
    <3> QED
      BY <2>1, <3>3, <3>4, CallStep
  <2>2. CASE Receive
    BY <2>2, ReceiveStep
  <2>3. CASE UNCHANGED backendVars
    <3>1. UNCHANGED dbVars
      BY <2>3 DEF backendVars
    <3> QED
      BY <2>3, <3>1, StateKept, DatabaseKept
  <2> QED
    BY <2>1, <2>2, <2>3 DEF BackendsNext
<1> QED
  BY <1>1, InitialState, PTL DEF BackendsSpec

\* The last types of two sequences that share them.
LEMMA SharedTypes ==
  ASSUME NEW d, IsSeq(d), NEW e, IsSeq(e), NEW n \in Nat, SharedSuffix(d, e, n)
  PROVE  printer!LastTypes(e, n) = printer!LastTypes(d, n)
<1>1. PICK S : d \in Seq(S)
  BY DEF IsSeq
<1>2. PICK T : e \in Seq(T)
  BY DEF IsSeq
<1> DEFINE U == S \union T
           x == SubSeq(d, Len(d) - n + 1, Len(d))
           y == SubSeq(e, Len(e) - n + 1, Len(e))
<1>3. d \in Seq(U) /\ e \in Seq(U)
  BY <1>1, <1>2, SeqDef
<1> HIDE DEF U
<1>4. Len(d) \in Nat /\ Len(e) \in Nat /\ n <= Len(d) /\ n <= Len(e)
  BY SeqFacts DEF SharedSuffix
<1>5. x \in Seq(U) /\ Len(x) = n /\ \A j \in 1 .. n : x[j] = d[Len(d) - n + j]
  <2>1. Len(d) - n + 1 \in Int /\ Len(d) \in Int
    BY <1>4
  <2>2. \A j \in Len(d) - n + 1 .. Len(d) : d[j] \in U
    BY <1>3, <1>4, ElementOfSeq
  <2>3. /\ x \in Seq(U)
        /\ Len(x) = IF Len(d) - n + 1 <= Len(d) THEN Len(d) - (Len(d) - n + 1) + 1 ELSE 0
        /\ \A j \in 1 .. Len(d) - (Len(d) - n + 1) + 1 : x[j] = d[Len(d) - n + 1 + j - 1]
    BY <2>1, <2>2, SubSeqProperties
  <2> HIDE DEF x
  <2>4. Len(d) - (Len(d) - n + 1) + 1 = n
    BY <1>4
  <2>5. Len(x) = n
    BY <1>4, <2>3
  <2>6. \A j \in 1 .. n : Len(d) - n + 1 + j - 1 = Len(d) - n + j
    BY <1>4
  <2> QED
    BY <2>3, <2>4, <2>5, <2>6
<1>6. y \in Seq(U) /\ Len(y) = n /\ \A j \in 1 .. n : y[j] = e[Len(e) - n + j]
  <2>1. Len(e) - n + 1 \in Int /\ Len(e) \in Int
    BY <1>4
  <2>2. \A j \in Len(e) - n + 1 .. Len(e) : e[j] \in U
    BY <1>3, <1>4, ElementOfSeq
  <2>3. /\ y \in Seq(U)
        /\ Len(y) = IF Len(e) - n + 1 <= Len(e) THEN Len(e) - (Len(e) - n + 1) + 1 ELSE 0
        /\ \A j \in 1 .. Len(e) - (Len(e) - n + 1) + 1 : y[j] = e[Len(e) - n + 1 + j - 1]
    BY <2>1, <2>2, SubSeqProperties
  <2> HIDE DEF y
  <2>4. Len(e) - (Len(e) - n + 1) + 1 = n
    BY <1>4
  <2>5. Len(y) = n
    BY <1>4, <2>3
  <2>6. \A j \in 1 .. n : Len(e) - n + 1 + j - 1 = Len(e) - n + j
    BY <1>4
  <2> QED
    BY <2>3, <2>4, <2>5, <2>6
<1>7. ASSUME NEW j \in 1 .. n
      PROVE  d[Len(d) - n + j] = e[Len(e) - n + j]
  <2>1. d[Len(d) - (n - j)] = e[Len(e) - (n - j)]
    <3>1. n - j \in 0 .. n - 1
      OBVIOUS
    <3> QED
      BY <3>1 DEF SharedSuffix
  <2>2. Len(d) - (n - j) = Len(d) - n + j /\ Len(e) - (n - j) = Len(e) - n + j
    BY <1>4
  <2> QED
    BY <2>1, <2>2
<1> HIDE DEF x, y
<1>8. \A j \in 1 .. n : x[j] = y[j]
  BY <1>5, <1>6, <1>7
<1>9. x = y
  BY <1>5, <1>6, <1>8, SeqEqual
<1> QED
  BY <1>9 DEF x, y, printer!LastTypes

\* Whatever results the backends are sent, if their calls match, no assert of theirs fails:
\* takeType finds a type and popElement an element for every call that takes one, and
\* printf of the debug backend is never left of the margin.
THEOREM AssertsNeverFail ==
  ASSUME Debug
  PROVE  BackendsSpec => []AssertsHold
<1>1. BackendsInv => AssertsHold
  BY DEF BackendsInv, Stacks, AssertsHold
<1> QED
  BY <1>1, BackendsHold, PTL

\* Behind either backend the next file starts with an empty element stack.
THEOREM ResultsStartClean ==
  ASSUME Debug
  PROVE  BackendsSpec => []FilesStartClean
<1>1. DatabaseInv => FilesStartClean
  BY DatabaseSame DEF DatabaseInv, DB!CleanInv, FilesStartClean
<1> QED
  BY <1>1, BackendsHold, PTL

\* Between two results no type is still being written, by either backend: what a declaration
\* that was abandoned half-way has begun, endType has ended, so a type of the next file
\* never becomes a part of one of the last (the first conjunct of NothingLeftOver).
THEOREM TypesClosed ==
  ASSUME Debug
  PROVE  BackendsSpec =>
           [](result = <<>> => m_typeStack = <<>> /\ (debug => printedTypeStack = <<>>))
<1>1. BackendsInv /\ DatabaseInv =>
        (result = <<>> => m_typeStack = <<>> /\ (debug => printedTypeStack = <<>>))
  <2> SUFFICES ASSUME BackendsInv, result = <<>>
               PROVE  m_typeStack = <<>> /\ (debug => printedTypeStack = <<>>)
    OBVIOUS
  <2>1. ~ \E s \in Seq(AnyCalls) : \E i \in 0 .. Len(s) - 1 : Matched(s) /\ Running(s, i)
    <3> SUFFICES ASSUME NEW s \in Seq(AnyCalls), NEW i \in 0 .. Len(s) - 1, Running(s, i)
                 PROVE  FALSE
      OBVIOUS
    <3> QED
      BY ResultFacts DEF Running
  <2>2. Stacks /\ Between
    BY <2>1 DEF BackendsInv
  <2> QED
    BY <2>2 DEF Stacks, Between
<1> QED
  BY <1>1, BackendsHold, PTL

\* The types the debug backend prints of a call are those the database stores, although
\* friend_ takes a type of the one and not of the other.
THEOREM PrintedIsStored ==
  ASSUME Debug
  PROVE  BackendsSpec => []PrintsWhatIsStored
<1>1. BackendsInv /\ DatabaseInv => PrintsWhatIsStored
  <2> SUFFICES ASSUME BackendsInv, DatabaseInv, debug, result # <<>>
               PROVE  printer!LastTypes(printedDoneTypes, printer!Takes(Head(result)))
                        = printer!LastTypes(m_doneTypes, printer!Takes(Head(result)))
    BY DEF PrintsWhatIsStored
  <2>1. PICK r \in Seq(AnyCalls) : \E i \in 0 .. Len(r) - 1 : Matched(r) /\ Running(r, i)
    BY DEF BackendsInv
  <2>2. PICK i \in 0 .. Len(r) - 1 : Matched(r) /\ Running(r, i)
    BY <2>1
  <2>3. PICK k \in Cuts(r, i) : Reach(r, k, i)
    BY <2>2 DEF Running, Progress
  <2>4. Head(result) = r[i + 1]
    BY <2>2, ResultFacts DEF Running
  <2> DEFINE n == printer!Takes(r[i + 1])
  <2>5. n <= Supply(r, k, i) /\ n \in 0 .. 2 /\ Supply(r, k, i) \in Nat
    BY <2>2, <2>3, CallSupported, TakesType DEF BackendsInv, DatabaseInv, Running, Reach
  <2>6. IsSeq(m_doneTypes) /\ IsSeq(printedDoneTypes)
    BY DEF BackendsInv, Stacks
  <2>7. Len(m_doneTypes) \in Nat /\ Len(printedDoneTypes) \in Nat
    BY <2>6, SeqFacts
  <2> HIDE DEF n
  <2>8. SharedSuffix(m_doneTypes, printedDoneTypes, n)
    <3>1. SharedSuffix(m_doneTypes, printedDoneTypes, Supply(r, k, i))
      BY <2>3 DEF Reach
    <3>2. \A j \in 0 .. n - 1 : j \in 0 .. Supply(r, k, i) - 1
      BY <2>5
    <3> QED
      BY <2>5, <2>7, <3>1, <3>2 DEF SharedSuffix
  <2>9. printer!LastTypes(printedDoneTypes, n) = printer!LastTypes(m_doneTypes, n)
    BY <2>5, <2>6, <2>8, SharedTypes
  <2> QED
    BY <2>4, <2>9 DEF n
<1> QED
  BY <1>1, BackendsHold, PTL

\* The debug backend indents at least as far as the document is deep.
THEOREM DepthIndented ==
  ASSUME Debug
  PROVE  BackendsSpec => []IndentCoversDocument
<1>1. BackendsInv => IndentCoversDocument
  <2> SUFFICES ASSUME BackendsInv, debug PROVE m_indent >= Len(m_nodeStack)
    BY DEF IndentCoversDocument
  <2>1. m_indent \in Int
    BY DEF BackendsInv, Stacks
  <2>2. CASE Between
    BY <2>1, <2>2, EmptySeq DEF Between
  <2>3. ASSUME NEW r \in Seq(AnyCalls), NEW i \in 0 .. Len(r) - 1, Running(r, i)
        PROVE  m_indent >= Len(m_nodeStack)
    <3>1. Progress(r, i) /\ i \in Nat
      BY <2>3 DEF Running
    <3>2. CASE i = 0
      BY <2>1, <3>1, <3>2, EmptySeq DEF Progress
    <3>3. CASE i > 0
      <4>1. OpenElements(r, i) \in Int /\ OpenOthers(r, i) \in Int
        BY <3>1, OpenElementsNext, OpenOthersNext
      <4>2. /\ OpenOthers(r, i) >= 0 /\ Len(m_nodeStack) = 1 + OpenElements(r, i)
            /\ m_indent >= 1 + OpenElements(r, i) + OpenOthers(r, i)
        BY <3>1, <3>3 DEF Progress
      <4> QED
        BY <2>1, <4>1, <4>2
    <3> QED
      BY <3>1, <3>2, <3>3
  <2> QED
    BY <2>2, <2>3 DEF BackendsInv
<1> QED
  BY <1>1, BackendsHold, PTL
=============================================================================
