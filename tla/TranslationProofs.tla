-------------------------- MODULE TranslationProofs --------------------------
(***************************************************************************)
(* The invariant of the parser, and with it what BackendsProofs shows of   *)
(* the backends, for all files that do not end in "=": the calls of a      *)
(* result match, for each statement's calls do (GrammarProofs), and those  *)
(* of a block that is open in the scopes are open in the queue.            *)
(***************************************************************************)
EXTENDS GrammarProofs

-----------------------------------------------------------------------------
(* The queue of a file.                                                    *)

\* The queue q, behind its begin, ends outside of types and with no fewer than depth elements
\* open.
QueueIs(q, source, depth) ==
  \E w \in Seq(ParserCalls) : \E t \in States :
     /\ q = <<Call("begin", source, "")>> \o w
     /\ Runs(w, Zero, t) /\ t.open = 0 /\ t.elements >= depth

\* A queue with its begin alone has nothing open.
LEMMA QueueBegins ==
  ASSUME NEW source
  PROVE  QueueIs(<<Call("begin", source, "")>>, source, 0)
<1> DEFINE b == <<Call("begin", source, "")>>
<1>1. <<>> \in Seq(ParserCalls) /\ b = b \o <<>>
  OBVIOUS
<1> HIDE DEF b
<1>2. Zero \in States /\ Zero.open = 0 /\ Zero.elements >= 0
  BY DEF States, Zero
<1>3. Runs(<<>>, Zero, Zero)
  BY <1>2, RunsNone
<1> QED
  BY <1>1, <1>2, <1>3 DEF QueueIs, b

\* The calls of a statement lead on from there.
LEMMA QueueGrows ==
  ASSUME NEW q, NEW source \in Strings, NEW depth \in Nat, QueueIs(q, source, depth), Texts,
         NEW ev, NEW e \in Int, Leads(ev, 0, 0, e, 0), depth + e >= 0,
         NEW d \in Int, d <= depth + e
  PROVE  QueueIs(q \o ev, source, d)
<1> DEFINE b == <<Call("begin", source, "")>>
<1>1. PICK w \in Seq(ParserCalls), t \in States :
         q = b \o w /\ Runs(w, Zero, t) /\ t.open = 0 /\ t.elements >= depth
  BY DEF QueueIs
<1>2. ev \in Seq(ParserCalls)
  BY DEF Leads
<1>3. b \in Seq(AllCalls) /\ w \in Seq(AllCalls) /\ ev \in Seq(AllCalls)
  <2>1. "begin" \in Strings /\ "" \in Strings
    BY DEF Texts, Operations, OtherWords
  <2> DEFINE c == Call("begin", source, "")
  <2>2. c \in AllCalls
    BY <2>1 DEF Call, AllCalls
  <2> HIDE DEF c
  <2>3. <<c>> \in Seq(AllCalls)
    BY <2>2
  <2>4. w \in Seq(AllCalls) /\ ev \in Seq(AllCalls)
    BY <1>2 DEF ParserCalls
  <2> QED
    BY <2>3, <2>4 DEF c
<1> HIDE DEF b
<1>4. q \o ev = b \o (w \o ev) /\ w \o ev \in Seq(ParserCalls)
  BY <1>1, <1>2, <1>3, ConcatAssociative, ConcatProperties
<1>5. PICK u \in States : /\ Runs(ev, t, u) /\ u.open = 0 /\ u.ready >= 0
                          /\ u.elements >= t.elements + e /\ u.others >= t.others + 0
  <2>1. t.ready \in Nat /\ t.elements \in Nat /\ t.others \in Nat
    BY StateParts
  <2>2. t.ready >= 0 /\ t.elements + e >= 0 /\ t.others + 0 >= 0
    BY <1>1, <2>1
  <2> QED
    BY <1>1, <2>2 DEF Leads
<1>6. Runs(w \o ev, Zero, u)
  BY <1>1, <1>2, <1>5, RunsBoth
<1>7. u.elements >= d
  <2>1. t.elements \in Nat /\ u.elements \in Nat
    BY StateParts
  <2> QED
    BY <1>1, <1>5, <2>1
<1> QED
  BY <1>4, <1>5, <1>6, <1>7 DEF QueueIs, b

\* begin and end change nothing that counts.
LEMMA FrameRuns ==
  ASSUME NEW c, c[1] \in {"begin", "end"}, NEW s \in States
  PROVE  Runs(<<c>>, s, s)
<1>1. s.open \in Nat /\ s.ready \in Nat /\ s.elements \in Nat /\ s.others \in Nat
  BY StateParts
<1>2. printer!Takes(c) = 0
  BY DEF printer!Takes
<1>3. Allowed(c, s)
  BY <1>1, <1>2 DEF Allowed, ElementClosing, OtherClosing
<1>4. StateAfter(c, s) = [open |-> s.open, ready |-> s.ready, elements |-> s.elements,
                          others |-> s.others]
  BY <1>1, <1>2 DEF StateAfter, OpenedBy, Deeper, OthersBy, ElementOpening,
                    ElementClosing, OtherOpening, OtherClosing
<1>5. StateAfter(c, s) = s
  BY <1>4 DEF States
<1> QED
  BY <1>3, <1>5, RunsCall

\* With its end the queue of a file is a result whose calls match.
LEMMA QueueMatches ==
  ASSUME Texts, NEW q, NEW source \in Strings, NEW depth, QueueIs(q, source, depth)
  PROVE  /\ q \o <<Call("end", source, "")>> \in Seq(AllCalls)
         /\ Matched(q \o <<Call("end", source, "")>>)
<1> DEFINE b == Call("begin", source, "")
           e == Call("end", source, "")
<1>1. PICK w \in Seq(ParserCalls), t \in States :
         q = <<b>> \o w /\ Runs(w, Zero, t) /\ t.open = 0
  BY DEF QueueIs
<1>2. b \in AllCalls /\ b[1] = "begin" /\ e \in AllCalls /\ e[1] = "end"
  <2>1. "begin" \in Strings /\ "end" \in Strings /\ "" \in Strings
    BY DEF Texts, Operations, OtherWords
  <2>2. b \in AllCalls /\ e \in AllCalls
    BY <2>1 DEF Call, AllCalls
  <2>3. b[1] = "begin" /\ e[1] = "end"
    BY DEF Call
  <2> QED
    BY <2>2, <2>3
<1>3. b[3] # "typedb" /\ e[3] # "typedb"
  <2>1. b[3] = "" /\ e[3] = ""
    BY Zenon DEF Call
  <2>2. "" # "typedb"
    OBVIOUS
  <2> QED
    BY <2>1, <2>2, Zenon
<1> HIDE DEF b, e
<1> DEFINE r == q \o <<e>>
           n == Len(w)
<1>4. /\ <<b>> \in Seq(AllCalls) /\ w \in Seq(AllCalls) /\ <<e>> \in Seq(AllCalls)
      /\ q \in Seq(AllCalls) /\ r \in Seq(AllCalls)
  <2>1. <<b>> \in Seq(AllCalls) /\ <<e>> \in Seq(AllCalls)
    BY <1>2
  <2>2. w \in Seq(AllCalls)
    BY DEF ParserCalls
  <2>3. q \in Seq(AllCalls)
    BY <1>1, <2>1, <2>2, ConcatProperties
  <2> QED
    BY <2>1, <2>2, <2>3, ConcatProperties
<1>5. n \in Nat /\ Len(q) = n + 1 /\ Len(r) = n + 2 /\ DOMAIN r = 1 .. n + 2
  <2>1. n \in Nat /\ Len(<<b>>) = 1 /\ Len(<<e>>) = 1
    BY LenProperties
  <2>2. Len(q) = 1 + n
    BY <1>1, <1>4, <2>1, ConcatProperties
  <2>3. Len(r) = Len(q) + 1
    BY <1>4, <2>1, ConcatProperties
  <2> QED
    BY <1>4, <2>1, <2>2, <2>3, LenProperties
<1>6. r[1] = b /\ r[n + 2] = e /\ \A i \in 2 .. n + 1 : r[i] \in ParserCalls
  <2>1. \A i \in 1 .. n + 1 : r[i] = q[i]
    BY <1>4, <1>5, ConcatProperties
  <2>2. q[1] = b
    BY <1>1, <1>4, ConcatProperties
  <2>3. \A i \in 2 .. n + 1 : q[i] = w[i - 1]
    <3>1. Len(<<b>>) = 1
      OBVIOUS
    <3> QED
      BY <1>1, <1>4, <1>5, <3>1, ConcatProperties
  <2>4. \A i \in 1 .. n : w[i] \in ParserCalls
    BY <1>5, ElementOfSeq
  <2>5. \A i \in 2 .. n + 1 : i - 1 \in 1 .. n /\ i \in 1 .. n + 1
    BY <1>5
  <2>6. r[n + 2] = e
    <3>1. \A i \in Len(q) + 1 .. Len(q) + Len(<<e>>) : r[i] = <<e>>[i - Len(q)]
      BY <1>4, ConcatProperties
    <3>2. Len(<<e>>) = 1 /\ <<e>>[1] = e
      OBVIOUS
    <3>3. n + 2 \in Len(q) + 1 .. Len(q) + Len(<<e>>) /\ (n + 2) - Len(q) = 1
      BY <1>5, <3>2
    <3> QED
      BY <3>1, <3>2, <3>3
  <2>7. 1 \in 1 .. n + 1
    BY <1>5
  <2> QED
    BY <2>1, <2>2, <2>3, <2>4, <2>5, <2>6, <2>7
<1>7. Runs(r, Zero, t)
  <2>1. Zero \in States
    BY DEF Zero, States
  <2>2. Runs(<<b>>, Zero, Zero) /\ Runs(<<e>>, t, t)
    BY <1>2, <2>1, FrameRuns
  <2>3. Runs(q, Zero, t)
    BY <1>1, <1>4, <2>2, RunsBoth
  <2> QED
    BY <1>4, <2>2, <2>3, RunsBoth
<1> HIDE DEF r, n
<1>8. \A c \in ParserCalls : c[1] # "begin" /\ c[1] # "end" /\ c[3] # "typedb"
  BY DEF ParserCalls
<1>9. Framed(r)
  <2>1. ASSUME NEW i \in 1 .. n + 2
        PROVE  (r[i][1] = "begin" <=> i = 1) /\ (r[i][1] = "end" <=> i = n + 2)
    <3>1. CASE i = 1
      <4>1. 1 # n + 2
        BY <1>5
      <4> QED
        BY <1>2, <1>6, <3>1, <4>1
    <3>2. CASE i = n + 2
      <4>1. 1 # n + 2
        BY <1>5
      <4> QED
        BY <1>2, <1>6, <3>2, <4>1
    <3>3. CASE i # 1 /\ i # n + 2
      <4>1. i \in 2 .. n + 1
        BY <1>5, <3>3
      <4> QED
        BY <1>6, <1>8, <3>3, <4>1
    <3> QED
      BY <3>1, <3>2, <3>3
  <2> QED
    BY <1>5, <2>1 DEF Framed
<1>10. NoSecondRoot(r)
  <2>1. ASSUME NEW i \in 1 .. n + 2
        PROVE  r[i][3] # "typedb"
    <3>1. CASE i = 1
      BY <1>3, <1>6, <3>1
    <3>2. CASE i = n + 2
      BY <1>3, <1>6, <3>2
    <3>3. CASE i # 1 /\ i # n + 2
      <4>1. i \in 2 .. n + 1
        BY <1>5, <3>3
      <4> QED
        BY <1>6, <1>8, <4>1
    <3> QED
      BY <3>1, <3>2, <3>3
  <2> QED
    BY <1>5, <2>1 DEF NoSecondRoot
<1>11. Len(r) \in Nat /\ DOMAIN r = 1 .. Len(r)
  BY <1>5
<1>12. Matched(r)
  BY <1>1, <1>7, <1>9, <1>10, <1>11, RunsMatch
<1> QED
  BY <1>4, <1>12 DEF r, e

-----------------------------------------------------------------------------
(* The parser.                                                             *)

ScopesAre(scopes) ==
  /\ scopes \in Seq(ScopeRecords) /\ scopes # <<>>
  /\ \A i \in 1 .. Len(scopes) : scopes[i].type = "global" <=> i = 1
ResultsAre(results) ==
  /\ results \in Seq(Seq(AllCalls))
  /\ \A i \in 1 .. Len(results) : Matched(results[i])
ParsedRecords == [returned : BOOLEAN, unread : BOOLEAN]

ParserInv ==
  /\ input \in Seq(Strings) /\ NotCut(input) /\ cursorPos_ \in 1 .. Len(input) + 1
  /\ parsing \in BOOLEAN /\ hasError_ \in BOOLEAN
  /\ m_unnamedCnt \in Nat /\ statements \in Nat
  /\ ScopesAre(scopes_)
  /\ parsed \in Seq(ParsedRecords)
  /\ parsing => QueueIs(m_queue, Source, Len(scopes_) - 1)
  /\ ~parsing => m_queue = <<>>
  /\ ResultsAre(m_resultQueue)

\* What Advances says of a step
GoesOn == parsing /\ parsing' /\ statements' # statements => cursorPos_' > cursorPos_

\* The scopes and the innermost of them.
LEMMA ScopesType ==
  ASSUME NEW scopes, ScopesAre(scopes)
  PROVE  /\ scopes \in Seq(ScopeRecords) /\ Len(scopes) \in Nat /\ Len(scopes) >= 1
         /\ DOMAIN scopes = 1 .. Len(scopes)
         /\ Last(scopes) \in ScopeRecords /\ Last(scopes) = scopes[Len(scopes)]
<1>1. scopes \in Seq(ScopeRecords) /\ scopes # <<>>
  BY DEF ScopesAre
<1>2. Len(scopes) \in Nat /\ Len(scopes) # 0 /\ DOMAIN scopes = 1 .. Len(scopes)
  BY <1>1, LenProperties, EmptySeq
<1>3. Len(scopes) \in 1 .. Len(scopes)
  BY <1>2
<1>4. Last(scopes) = scopes[Len(scopes)]
  BY DEF Last
<1> QED
  BY <1>1, <1>2, <1>3, <1>4, ElementOfSeq

\* The name of the file is a string.
LEMMA SourceIs ==
  ASSUME Texts, parsed \in Seq(ParsedRecords)
  PROVE  Source \in Strings /\ Len(parsed) \in Nat
BY LenProperties DEF Source, Texts

\* Results stay what they are with one more that matches,
LEMMA ResultsMore ==
  ASSUME NEW results, ResultsAre(results), NEW r \in Seq(AllCalls), Matched(r)
  PROVE  ResultsAre(Append(results, r))
<1>1. results \in Seq(Seq(AllCalls))
  BY DEF ResultsAre
<1>2. /\ Append(results, r) \in Seq(Seq(AllCalls)) /\ Len(results) \in Nat
      /\ Len(Append(results, r)) = Len(results) + 1
      /\ \A i \in 1 .. Len(results) : Append(results, r)[i] = results[i]
      /\ Append(results, r)[Len(results) + 1] = r
  BY <1>1, AppendProperties, LenProperties
<1>3. \A i \in 1 .. Len(results) + 1 : i \in 1 .. Len(results) \/ i = Len(results) + 1
  BY <1>2
<1> QED
  BY <1>2, <1>3 DEF ResultsAre

\* and with the first of them taken.
LEMMA ResultsFewer ==
  ASSUME NEW results, ResultsAre(results), results # <<>>
  PROVE  /\ ResultsAre(Tail(results)) /\ Head(results) \in Seq(AllCalls) /\ Matched(Head(results))
<1>1. results \in Seq(Seq(AllCalls))
  BY DEF ResultsAre
<1>2. /\ Tail(results) \in Seq(Seq(AllCalls)) /\ Len(results) \in Nat
      /\ Len(Tail(results)) = Len(results) - 1 /\ Head(results) = results[1]
      /\ \A i \in 1 .. Len(Tail(results)) : Tail(results)[i] = results[i + 1]
  BY <1>1, HeadTailProperties, LenProperties
<1>3. Len(results) >= 1
  BY <1>1, <1>2, EmptySeq
<1>4. \A i \in 1 .. Len(results) - 1 : i + 1 \in 1 .. Len(results)
  BY <1>2
<1>5. 1 \in 1 .. Len(results)
  BY <1>2, <1>3
<1>6. results[1] \in Seq(AllCalls) /\ Matched(results[1])
  BY <1>1, <1>5, ElementOfSeq DEF ResultsAre
<1> QED
  BY <1>2, <1>4, <1>6 DEF ResultsAre

\* Each file begins with the invariant.
LEMMA BeginKeeps ==
  ASSUME Texts, NoneCut, ParserInv, Begin
  PROVE  ParserInv' /\ GoesOn
<1>0. ~parsing /\ Len(parsed) < Len(Files) /\ cursorPos_' = 1
  BY Zenon DEF Begin
<1>1. Len(parsed) + 1 \in 1 .. Len(Files) /\ Len(Files) \in Nat
  <2>1. Len(parsed) \in Nat
    BY SourceIs DEF ParserInv
  <2>2. Len(Files) \in Nat
    BY LenProperties DEF Texts
  <2> QED
    BY <1>0, <2>1, <2>2
<1>2. Files[Len(parsed) + 1] \in SUBSET Seq(Strings)
  BY <1>1, ElementOfSeq DEF Texts
<1>3. input' \in Seq(Strings) /\ NotCut(input')
  <2>1. input' \in Files[Len(parsed) + 1]
    BY DEF Begin
  <2>2. Len(parsed) + 1 \in DOMAIN Files
    BY <1>1 DEF Texts
  <2>3. NotCut(input')
    BY <2>1, <2>2 DEF NoneCut
  <2> QED
    BY <1>2, <2>1, <2>3
<1>4. cursorPos_' \in 1 .. Len(input') + 1
  <2>1. Len(input') \in Nat
    BY <1>3, LenProperties
  <2> QED
    BY <1>0, <2>1
<1> DEFINE scopes == <<Scope("global", "", "public")>>
<1>5. ScopesAre(scopes) /\ Len(scopes) - 1 = 0
  <2> DEFINE s == Scope("global", "", "public")
  <2>1. "" \in Strings
    BY DEF Texts, OtherWords
  <2>2. s \in ScopeRecords /\ s.type = "global"
    BY <2>1 DEF Scope, ScopeRecords, ScopeTypes, AccessSpecifiers
  <2> HIDE DEF s
  <2>3. <<s>> \in Seq(ScopeRecords) /\ Len(<<s>>) = 1 /\ <<s>>[1] = s /\ <<s>> # <<>>
    BY <2>2
  <2>4. ScopesAre(<<s>>)
    BY <2>2, <2>3 DEF ScopesAre
  <2>5. Len(<<s>>) - 1 = 0
    BY <2>3
  <2>6. scopes = <<s>>
    BY DEF s
  <2> HIDE DEF scopes
  <2> QED
    BY <2>4, <2>5, <2>6, Zenon
<1>6. QueueIs(m_queue', Source, Len(scopes) - 1)
  <2>1. m_queue' = <<Call("begin", Source, "")>>
    BY DEF Begin
  <2>2. QueueIs(<<Call("begin", Source, "")>>, Source, 0)
    BY QueueBegins
  <2> HIDE DEF scopes
  <2> QED
    BY <1>5, <2>1, <2>2, Zenon
<1>7. scopes_' = scopes
  BY DEF Begin
<1> HIDE DEF scopes
<1>8. parsed' = parsed /\ m_resultQueue' = m_resultQueue /\ Source' = Source
  BY DEF Begin, Source
<1>9. /\ parsing' \in BOOLEAN /\ hasError_' \in BOOLEAN /\ m_unnamedCnt' \in Nat /\ statements' \in Nat
      /\ parsing'
  BY DEF Begin
<1>10. ScopesAre(scopes_') /\ QueueIs(m_queue', Source', Len(scopes_') - 1)
  BY <1>5, <1>6, <1>7, <1>8
<1>11. parsed' \in Seq(ParsedRecords) /\ ResultsAre(m_resultQueue')
  BY <1>8 DEF ParserInv
<1>12. ParserInv'
  BY <1>3, <1>4, <1>9, <1>10, <1>11 DEF ParserInv
<1>13. GoesOn
  BY <1>0 DEF GoesOn
<1> QED
  BY <1>12, <1>13

-----------------------------------------------------------------------------
(* What the actions keep.                                                  *)

\* When a statement ends the file, its queue becomes a result that matches.
LEMMA EndKeeps ==
  ASSUME Texts, ParserInv, parsing, NEW p \in From(1), NEW err \in BOOLEAN, NEW ev, NEW e \in Int,
         Leads(ev, 0, 0, e, 0), Len(scopes_) + e >= 1, End(p, ev, err)
  PROVE  ParserInv' /\ GoesOn
<1>a. m_resultQueue' = Append(m_resultQueue, m_queue \o ev \o <<Call("end", Source, "")>>)
  BY Zenon DEF End
<1>0. /\ parsing' = FALSE /\ cursorPos_' = p /\ hasError_' = (hasError_ \/ err)
      /\ m_queue' = <<>> /\ statements' = statements + 1
      /\ parsed' = Append(parsed, [returned |-> ~(hasError_ \/ err), unread |-> p <= Len(input)])
      /\ input' = input /\ scopes_' = scopes_ /\ m_unnamedCnt' = m_unnamedCnt
  BY Zenon DEF End
<1>1. Len(scopes_) \in Nat /\ Len(scopes_) >= 1
  BY ScopesType DEF ParserInv
<1>2. Source \in Strings
  BY SourceIs DEF ParserInv
<1>3. QueueIs(m_queue, Source, Len(scopes_) - 1)
  BY DEF ParserInv
<1>4. QueueIs(m_queue \o ev, Source, 0)
  BY <1>1, <1>2, <1>3, QueueGrows
<1> DEFINE r == m_queue \o ev \o <<Call("end", Source, "")>>
<1>5. r \in Seq(AllCalls) /\ Matched(r)
  <2> DEFINE q == m_queue \o ev
  <2>1. QueueIs(q, Source, 0)
    BY <1>4
  <2> HIDE DEF q
  <2>2. /\ q \o <<Call("end", Source, "")>> \in Seq(AllCalls)
        /\ Matched(q \o <<Call("end", Source, "")>>)
    BY <1>2, <2>1, QueueMatches
  <2> QED
    BY <2>2, Zenon DEF q
<1>6. m_resultQueue' = Append(m_resultQueue, r)
  BY <1>a, Zenon
<1> HIDE DEF r
<1>7. ResultsAre(m_resultQueue')
  <2>1. ResultsAre(m_resultQueue)
    BY DEF ParserInv
  <2>2. ResultsAre(Append(m_resultQueue, r))
    BY <1>5, <2>1, ResultsMore
  <2> QED
    BY <1>6, <2>2
<1>8. parsed' \in Seq(ParsedRecords)
  <2> DEFINE done == [returned |-> ~(hasError_ \/ err), unread |-> p <= Len(input)]
  <2>1. done \in ParsedRecords
    BY DEF ParsedRecords
  <2>2. parsed' = Append(parsed, done) /\ parsed \in Seq(ParsedRecords)
    BY <1>0 DEF ParserInv
  <2> HIDE DEF done
  <2> QED
    BY <2>1, <2>2, AppendProperties
<1>9. hasError_' \in BOOLEAN /\ statements' \in Nat
  BY <1>0 DEF ParserInv
<1>10. cursorPos_' \in 1 .. Len(input') + 1 /\ input' \in Seq(Strings) /\ NotCut(input')
  BY <1>0 DEF ParserInv, From, NotCut
<1>11. ~parsing' /\ parsing' \in BOOLEAN /\ m_queue' = <<>> /\ ScopesAre(scopes_') /\ m_unnamedCnt' \in Nat
  BY <1>0 DEF ParserInv
<1>12. ParserInv'
  BY <1>7, <1>8, <1>9, <1>10, <1>11 DEF ParserInv
<1> QED
  BY <1>11, <1>12 DEF GoesOn

\* A statement that leaves r behind, opens e elements and has as many scopes more or fewer.
LEMMA LeaveKeeps ==
  ASSUME Texts, ParserInv, parsing, NEW r \in Outcomes \cup NodeRecords, r.p \in From(cursorPos_),
         r.ok => r.p > cursorPos_,
         NEW e \in Int, Leads(r.ev, 0, 0, e, 0), Len(scopes_) + e >= 1,
         NEW scopes, r.ok => ScopesAre(scopes) /\ Len(scopes) <= Len(scopes_) + e,
         NEW unnamed \in Nat, Leave(r, scopes, unnamed)
  PROVE  ParserInv' /\ GoesOn
<1>0. r.ok \in BOOLEAN /\ r.err \in BOOLEAN
  BY DEF Outcomes, NodeRecords
<1>1. cursorPos_ \in From(1) /\ input \in Seq(Strings)
  BY DEF ParserInv, From
<1>2. r.p \in From(1)
  BY <1>1, Onward
<1>3. CASE ~r.ok /\ End(r.p, r.ev, r.err)
  BY <1>0, <1>2, <1>3, EndKeeps
<1>4. CASE /\ r.ok
           /\ cursorPos_' = r.p /\ hasError_' = (hasError_ \/ r.err)
           /\ m_queue' = m_queue \o r.ev /\ statements' = statements + 1
           /\ scopes_' = scopes /\ m_unnamedCnt' = unnamed
           /\ UNCHANGED <<input, parsing, m_resultQueue, parsed>>
  <2>1. Len(scopes_) \in Nat /\ Len(scopes_) >= 1 /\ Len(scopes) \in Nat /\ Len(scopes) >= 1
    BY <1>4, ScopesType DEF ParserInv
  <2>2. Source \in Strings /\ Source' = Source
    BY <1>4, SourceIs DEF ParserInv, Source
  <2>3. QueueIs(m_queue, Source, Len(scopes_) - 1)
    BY DEF ParserInv
  <2>4. /\ Len(scopes_) - 1 \in Nat /\ (Len(scopes_) - 1) + e >= 0
        /\ Len(scopes) - 1 \in Int /\ Len(scopes) - 1 <= (Len(scopes_) - 1) + e
    BY <1>4, <2>1
  <2>5. QueueIs(m_queue \o r.ev, Source, Len(scopes) - 1)
    BY <2>2, <2>3, <2>4, QueueGrows
  <2>6. QueueIs(m_queue', Source', Len(scopes_') - 1)
    BY <1>4, <2>2, <2>5
  <2>7. hasError_' \in BOOLEAN /\ statements' \in Nat
    BY <1>0, <1>4 DEF ParserInv
  <2>8. cursorPos_' \in 1 .. Len(input') + 1 /\ input' \in Seq(Strings) /\ NotCut(input')
    BY <1>2, <1>4 DEF ParserInv, From, NotCut
  <2>9. ParserInv'
    BY <1>4, <2>6, <2>7, <2>8 DEF ParserInv
  <2> QED
    BY <1>4, <2>9 DEF GoesOn
<1>5. r.p # Nowhere
  BY <1>1, <1>2, InputLength DEF From, Nowhere
<1> QED
  BY <1>3, <1>4, <1>5 DEF Leave

\* What a statement starts from.
LEMMA Ready ==
  ASSUME Texts, ParserInv
  PROVE  /\ input \in Seq(Strings) /\ NotCut(input)
         /\ cursorPos_ \in From(1) /\ cursorPos_ \in Nat
         /\ Back \in ScopeRecords /\ Back = scopes_[Len(scopes_)]
         /\ ScopesAre(scopes_) /\ Len(scopes_) \in Nat /\ Len(scopes_) >= 1
<1>1. input \in Seq(Strings) /\ NotCut(input) /\ cursorPos_ \in From(1)
  BY DEF ParserInv, From
<1>2. cursorPos_ \in Nat
  BY <1>1, Here
<1> QED
  BY <1>1, <1>2, ScopesType DEF ParserInv, Back

\* A statement that leaves the scopes as they are
LEMMA SameKeeps ==
  ASSUME Texts, ParserInv, parsing, cursorPos_ + 1 \in From(1), NEW r \in Leaves(cursorPos_ + 1, 0, 0, 0),
         NEW scopes, ScopesAre(scopes), Len(scopes) = Len(scopes_),
         NEW unnamed \in Nat, Leave(r, scopes, unnamed)
  PROVE  ParserInv' /\ GoesOn
<1>1. input \in Seq(Strings) /\ cursorPos_ \in From(1) /\ cursorPos_ \in Nat
  BY Ready
<1>2. r \in Outcomes \cup NodeRecords /\ r.p \in From(cursorPos_ + 1)
  BY <1>1, LeavesParts
<1>3. r.p \in From(cursorPos_) /\ r.p > cursorPos_
  BY <1>1, <1>2, InputLength DEF From
<1>4. Leads(r.ev, 0, 0, 0, 0)
  BY DEF Leaves
<1>5. Len(scopes_) \in Nat /\ Len(scopes_) + 0 >= 1 /\ Len(scopes) <= Len(scopes_) + 0
  BY Ready
<1> QED
  BY <1>2, <1>3, <1>4, <1>5, LeaveKeeps

\* Behind the token of a statement
LEMMA Further ==
  ASSUME Texts, ParserInv, Next1 # EndOfFile
  PROVE  cursorPos_ + 1 \in From(1) /\ cursorPos_ <= Len(input) /\ Next1 \in Strings
<1>1. input \in Seq(Strings) /\ cursorPos_ \in From(1)
  BY Ready
<1>2. cursorPos_ \in 1 .. Len(input) /\ cursorPos_ + 1 \in From(1) /\ Token(cursorPos_) \in Strings
  BY <1>1, TokenInside DEF Next1
<1> QED
  BY <1>1, <1>2, InputLength DEF Next1

\* The tokens that start a statement are not the end of the file.
LEMMA Keywords ==
  \A token \in {";", "\";", "typedef", "using", "friend", "template", "enum", "namespace", "class",
                "struct", "union", "}"} \cup AccessSpecifiers : token # EndOfFile
BY DEF EndOfFile, AccessSpecifiers

\* A made-up name is a string.
LEMMA UnnamedIs ==
  ASSUME Texts, ParserInv, NEW type \in {"enum", "class", "struct", "union"}
  PROVE  Unnamed(type) \in Strings
<1>1. "unnamed-" \in Strings /\ type \in Strings
  BY DEF Texts, OtherWords
<1>2. ToString(m_unnamedCnt) \in Strings
  BY DEF Texts, ParserInv
<1>3. \A a \in Strings, b \in Strings : a \o b \in Strings
  BY DEF Texts
<1> QED
  BY <1>1, <1>2, <1>3 DEF Unnamed

\* The statements, one by one. At the end of the file nothing is called.
LEMMA EndOfInputKeeps ==
  ASSUME Texts, ParserInv, EndOfInput
  PROVE  ParserInv' /\ GoesOn
<1>1. parsing /\ End(cursorPos_, <<>>, FALSE)
  BY DEF EndOfInput, Statement, Reading
<1>2. cursorPos_ \in From(1) /\ Len(scopes_) + 0 >= 1
  BY Ready
<1>3. Leads(<<>>, 0, 0, 0, 0)
  BY NothingLeads
<1> DEFINE none == <<>>
<1>4. Leads(none, 0, 0, 0, 0) /\ End(cursorPos_, none, FALSE)
  BY <1>1, <1>3
<1>5. 0 \in Int /\ FALSE \in BOOLEAN
  OBVIOUS
<1> HIDE DEF none
<1> QED
  BY <1>1, <1>2, <1>4, <1>5, EndKeeps

\* These leave the scopes as they are and nothing open.
LEMMA SimpleKeep ==
  ASSUME Texts, ParserInv, EmptyStatement \/ Typedef \/ Using \/ Friend \/ Template
  PROVE  ParserInv' /\ GoesOn
<1>1. parsing /\ Next1 # EndOfFile
  BY Keywords DEF EmptyStatement, Typedef, Using, Friend, Template, Statement, Reading
<1>2. /\ input \in Seq(Strings) /\ NotCut(input) /\ cursorPos_ + 1 \in From(1)
      /\ Back \in ScopeRecords
  BY <1>1, Ready, Further
<1>3. PICK r \in Leaves(cursorPos_ + 1, 0, 0, 0) : Leave(r, scopes_, m_unnamedCnt)
  <2>1. CASE EmptyStatement
    <3>1. Done(cursorPos_ + 1, <<>>) \in Leaves(cursorPos_ + 1, 0, 0, 0)
      BY <1>2, Here, NothingLeads, DoneLeaves
    <3> QED
      BY <2>1, <3>1 DEF EmptyStatement
  <2>2. CASE Typedef
    <3>1. PICK gone \in GoneNames :
            Leave(ParseProperty(cursorPos_ + 1, Back, TRUE, FALSE, gone), scopes_, m_unnamedCnt)
      BY <2>2 DEF Typedef
    <3>2. gone \in Strings
      BY DEF Texts
    <3>3. ParseProperty(cursorPos_ + 1, Back, TRUE, FALSE, gone) \in Leaves(cursorPos_ + 1, 0, 0, 0)
      BY <1>2, <3>2, ParsePropertyIs
    <3> QED
      BY <3>1, <3>3
  <2>3. CASE Using
    <3>1. ParseUsing(cursorPos_ + 1, Back) \in Leaves(cursorPos_ + 1, 0, 0, 0)
      BY <1>2, ParseUsingIs
    <3> QED
      BY <2>3, <3>1 DEF Using
  <2>4. CASE Friend
    <3>1. ParseFriend(cursorPos_ + 1) \in Leaves(cursorPos_ + 1, 0, 0, 0)
      BY <1>2, ParseFriendIs
    <3> QED
      BY <2>4, <3>1 DEF Friend
  <2>5. CASE Template
    <3>1. ParseTemplate(cursorPos_ + 1) \in Leaves(cursorPos_ + 1, 0, 0, 0)
      BY <1>2, ParseTemplateIs
    <3> QED
      BY <2>5, <3>1 DEF Template
  <2> QED
    BY <2>1, <2>2, <2>3, <2>4, <2>5
<1>4. ScopesAre(scopes_) /\ m_unnamedCnt \in Nat
  BY DEF ParserInv
<1> QED
  BY <1>1, <1>2, <1>3, <1>4, SameKeeps

\* So does an enumeration, which may count a name.
LEMMA EnumKeeps ==
  ASSUME Texts, ParserInv, Enum
  PROVE  ParserInv' /\ GoesOn
<1>1. parsing /\ Next1 # EndOfFile
  BY Keywords DEF Enum, Statement, Reading
<1>2. /\ input \in Seq(Strings) /\ NotCut(input)
      /\ cursorPos_ \in From(1) /\ cursorPos_ + 1 \in From(1) /\ Back \in ScopeRecords
  BY <1>1, Ready, Further
<1>5. ScopesAre(scopes_) /\ m_unnamedCnt \in Nat
  BY DEF ParserInv
<1> DEFINE more == m_unnamedCnt + IF ~IsIdentifier(Match(cursorPos_ + 1, "class")) THEN 1 ELSE 0
           name(gone) == Reads(Unnamed("enum"), gone)
<1>3. PICK gone \in GoneNames : Leave(ParseEnum(cursorPos_, Back, name(gone)), scopes_, more)
  BY DEF Enum
<1>4. ParseEnum(cursorPos_, Back, name(gone)) \in Leaves(cursorPos_ + 1, 0, 0, 0)
  <2>1. Unnamed("enum") \in Strings
    BY UnnamedIs
  <2>2. name(gone) \in Strings
    BY <2>1 DEF Reads, Texts
  <2> HIDE DEF name
  <2> QED
    BY <1>2, <2>2, ParseEnumIs
<1>7. more \in Nat
  BY <1>5
<1> HIDE DEF more, name
<1> QED
  BY <1>1, <1>2, <1>3, <1>4, <1>5, <1>7, SameKeeps

\* One more scope on the stack,
LEMMA ScopePushed ==
  ASSUME NEW scopes, ScopesAre(scopes), NEW s \in ScopeRecords, s.type # "global"
  PROVE  ScopesAre(Append(scopes, s)) /\ Len(Append(scopes, s)) = Len(scopes) + 1
<1>1. scopes \in Seq(ScopeRecords) /\ Len(scopes) \in Nat /\ Len(scopes) >= 1
  BY ScopesType
<1>2. /\ Append(scopes, s) \in Seq(ScopeRecords)
      /\ Len(Append(scopes, s)) = Len(scopes) + 1
      /\ \A i \in 1 .. Len(scopes) : Append(scopes, s)[i] = scopes[i]
      /\ Append(scopes, s)[Len(scopes) + 1] = s
  BY <1>1, AppendProperties
<1>3. \A i \in 1 .. Len(scopes) + 1 : i \in 1 .. Len(scopes) \/ i = Len(scopes) + 1
  BY <1>1
<1>4. Append(scopes, s) # <<>>
  BY <1>1, <1>2
<1>5. \A i \in 1 .. Len(scopes) : scopes[i].type = "global" <=> i = 1
  BY DEF ScopesAre
<1> QED
  BY <1>1, <1>2, <1>3, <1>4, <1>5 DEF ScopesAre

\* and one fewer.
LEMMA ScopePopped ==
  ASSUME NEW scopes, ScopesAre(scopes), Len(scopes) > 1
  PROVE  ScopesAre(Front(scopes)) /\ Len(Front(scopes)) = Len(scopes) - 1
<1>1. scopes \in Seq(ScopeRecords) /\ Len(scopes) \in Nat
  BY ScopesType
<1>2. scopes # <<>>
  BY DEF ScopesAre
<1>a. Len(scopes) - 1 \in Int /\ Front(scopes) = SubSeq(scopes, 1, Len(scopes) - 1)
  BY <1>1 DEF Front
<1>b. \A i \in 1 .. Len(scopes) - 1 : i \in 1 .. Len(scopes)
  BY <1>1
<1>c. \A i \in 1 .. Len(scopes) - 1 : scopes[i] \in ScopeRecords
  BY <1>1, <1>b, ElementOfSeq
<1>d. /\ SubSeq(scopes, 1, Len(scopes) - 1) \in Seq(ScopeRecords)
      /\ Len(SubSeq(scopes, 1, Len(scopes) - 1))
           = IF 1 <= Len(scopes) - 1 THEN (Len(scopes) - 1) - 1 + 1 ELSE 0
      /\ \A i \in 1 .. (Len(scopes) - 1) - 1 + 1 :
           SubSeq(scopes, 1, Len(scopes) - 1)[i] = scopes[1 + i - 1]
  BY <1>a, <1>c, SubSeqProperties
<1>3. /\ Front(scopes) \in Seq(ScopeRecords)
      /\ Len(Front(scopes)) = Len(scopes) - 1
      /\ \A i \in 1 .. Len(scopes) - 1 : Front(scopes)[i] = scopes[i]
  BY <1>1, <1>a, <1>d
<1>4. Front(scopes) # <<>>
  BY <1>1, <1>3, EmptySeq
<1>5. \A i \in 1 .. Len(scopes) - 1 : i \in 1 .. Len(scopes)
  BY <1>1
<1> QED
  BY <1>3, <1>4, <1>5 DEF ScopesAre

\* What moves the cursor leaves it behind the next token.
LEMMA PastToken ==
  ASSUME input \in Seq(Strings), NEW p \in From(1), p + 1 \in From(1), NEW q \in From(p), q > p
  PROVE  q \in From(p + 1)
BY InputLength DEF From

\* A statement that opens a block
LEMMA PushKeeps ==
  ASSUME Texts, ParserInv, parsing, cursorPos_ + 1 \in From(1), NEW r \in Leaves(cursorPos_ + 1, 0, 1, 0),
         NEW s \in ScopeRecords, s.type # "global",
         NEW unnamed \in Nat, Leave(r, Append(scopes_, s), unnamed)
  PROVE  ParserInv' /\ GoesOn
<1> DEFINE e == IF r.ok THEN 1 ELSE 0
           scopes == Append(scopes_, s)
<1>1. input \in Seq(Strings) /\ cursorPos_ \in From(1) /\ cursorPos_ \in Nat
      /\ ScopesAre(scopes_) /\ Len(scopes_) \in Nat /\ Len(scopes_) >= 1
  BY Ready
<1>2. r \in Outcomes \cup NodeRecords /\ r.p \in From(cursorPos_ + 1)
  BY <1>1, LeavesParts
<1>3. r.p \in From(cursorPos_) /\ r.p > cursorPos_
  BY <1>1, <1>2, InputLength DEF From
<1>4. Leads(r.ev, 0, 0, e, 0)
  BY DEF Leaves
<1>5. e \in Int /\ Len(scopes_) + e >= 1 /\ (r.ok => e = 1)
  BY <1>1
<1>6. ScopesAre(scopes) /\ Len(scopes) = Len(scopes_) + 1
  BY <1>1, ScopePushed
<1>7. Leave(r, scopes, unnamed)
  OBVIOUS
<1> HIDE DEF scopes, e
<1>8. r.ok => ScopesAre(scopes) /\ Len(scopes) <= Len(scopes_) + e
  BY <1>1, <1>5, <1>6
<1> QED
  BY <1>2, <1>3, <1>4, <1>5, <1>7, <1>8, LeaveKeeps

\* A statement that closes one
LEMMA PopKeeps ==
  ASSUME Texts, ParserInv, parsing, cursorPos_ + 1 \in From(1), NEW r \in Outcomes \cup NodeRecords,
         r.p \in From(cursorPos_ + 1), Leads(r.ev, 0, 0, -1, 0), Len(scopes_) > 1,
         Leave(r, Front(scopes_), m_unnamedCnt)
  PROVE  ParserInv' /\ GoesOn
<1> DEFINE scopes == Front(scopes_)
           e == -1
<1>1. input \in Seq(Strings) /\ cursorPos_ \in From(1) /\ cursorPos_ \in Nat
      /\ ScopesAre(scopes_) /\ Len(scopes_) \in Nat /\ Len(scopes_) >= 1
  BY Ready
<1>3. r.p \in From(cursorPos_) /\ r.p > cursorPos_
  BY <1>1, InputLength DEF From
<1>4. e \in Int /\ Leads(r.ev, 0, 0, e, 0) /\ Len(scopes_) + e >= 1
  BY <1>1
<1>5. ScopesAre(scopes) /\ Len(scopes) = Len(scopes_) + e
  BY <1>1, ScopePopped
<1>6. Leave(r, scopes, m_unnamedCnt)
  OBVIOUS
<1> HIDE DEF scopes, e
<1>7. r.ok => ScopesAre(scopes) /\ Len(scopes) <= Len(scopes_) + e
  BY <1>1, <1>4, <1>5
<1>8. m_unnamedCnt \in Nat
  BY DEF ParserInv
<1> QED
  BY <1>3, <1>4, <1>6, <1>7, <1>8, LeaveKeeps

\* A namespace opens an element and a scope, or fails.
LEMMA NamespaceKeeps ==
  ASSUME Texts, ParserInv, Namespace
  PROVE  ParserInv' /\ GoesOn
<1> DEFINE p == cursorPos_ + 1
           name == Token(p)
           ev == <<Call("beginNamespace", name, "")>>
           r == IF IsIdentifier(p) THEN RequireSymbol(p + 1, "{", ev) ELSE FailError(p, <<>>)
           s == Scope("namespace", name, "public")
<1>1. parsing /\ Next1 # EndOfFile
  BY Keywords DEF Namespace, Statement, Reading
<1>2. input \in Seq(Strings) /\ cursorPos_ \in Nat /\ p \in From(1)
  BY <1>1, Ready, Further
<1>3. p + 1 = cursorPos_ + 2
  BY <1>2
<1>4. Leave(r, Append(scopes_, s), m_unnamedCnt)
  BY <1>3, Zenon DEF Namespace
<1>5. m_unnamedCnt \in Nat
  BY DEF ParserInv
<1>6. CASE IsIdentifier(p)
  <2>1. p + 1 \in From(1) /\ p + 1 \in From(p) /\ name \in Strings
    BY <1>2, <1>6, NameInside
  <2> HIDE DEF name
  <2>2. Leads(ev, 0, 0, 1, 0)
    <3>1. IsKind("")
      BY SomeKinds
    <3> QED
      BY <2>1, <3>1, OpeningLeads
  <2>3. s \in ScopeRecords /\ s.type # "global"
    BY <2>1 DEF Scope, ScopeRecords, ScopeTypes, AccessSpecifiers
  <2> HIDE DEF ev, s, p
  <2>4. "{" \in Symbols
    BY DEF Symbols
  <2>5. RequireSymbol(p + 1, "{", ev) \in Leaves(p + 1, 0, 1, 0)
    <3> DEFINE q == p + 1
               b == "{"
    <3>1. q \in From(1) /\ b \in Symbols
      BY <2>1, <2>4
    <3>2. 0 \in Nat /\ 1 \in Int /\ 0 \in Int
      OBVIOUS
    <3> HIDE DEF q, b
    <3>3. RequireSymbol(q, b, ev) \in Leaves(q, 0, 1, 0)
      BY <1>2, <2>2, <3>1, <3>2, RequireSymbolIs
    <3> QED
      BY <3>3 DEF q, b
  <2>6. RequireSymbol(p + 1, "{", ev) \in Leaves(p, 0, 1, 0)
    BY <1>2, <2>1, <2>5, LeavesOnward
  <2>7. r \in Leaves(p, 0, 1, 0)
    BY <1>6, <2>6
  <2> HIDE DEF r
  <2> QED
    BY <1>1, <1>2, <1>4, <1>5, <2>3, <2>7, PushKeeps DEF p
<1>7. CASE ~IsIdentifier(p)
  <2>1. p \in From(p)
    BY <1>2, Here
  <2>2. FailError(p, <<>>) \in Leaves(p, 0, 0, 0) /\ ~FailError(p, <<>>).ok
    BY <1>2, <2>1, NothingLeads, FailLeaves
  <2>3. r = FailError(p, <<>>)
    BY <1>7
  <2> HIDE DEF r, s
  <2>4. ScopesAre(scopes_) /\ Leave(r, scopes_, m_unnamedCnt)
    <3>1. Leave(r, scopes_, m_unnamedCnt)
      BY <1>4, <2>2, <2>3 DEF Leave
    <3> QED
      BY <3>1 DEF ParserInv
  <2> HIDE DEF p
  <2> QED
    BY <1>1, <1>2, <1>5, <2>2, <2>3, <2>4, SameKeeps DEF p
<1> QED
  BY <1>6, <1>7

\* The access specifier of a scope does not matter to the stack.
LEMMA ScopeChanged ==
  ASSUME NEW scopes, ScopesAre(scopes), NEW access \in AccessSpecifiers
  PROVE  /\ ScopesAre([scopes EXCEPT ![Len(scopes)].access = access])
         /\ Len([scopes EXCEPT ![Len(scopes)].access = access]) = Len(scopes)
<1> DEFINE n == Len(scopes)
           s == [scopes[n] EXCEPT !.access = access]
           t == [scopes EXCEPT ![n] = s]
<1>1. /\ scopes \in Seq(ScopeRecords) /\ n \in Nat /\ n >= 1 /\ DOMAIN scopes = 1 .. n
  BY ScopesType
<1>2. scopes[n] \in ScopeRecords
  BY <1>1, ElementOfSeq
<1>3. s \in ScopeRecords /\ s.type = scopes[n].type
  BY <1>2 DEF ScopeRecords
<1>4. [scopes EXCEPT ![Len(scopes)].access = access] = t
  OBVIOUS
<1> HIDE DEF s
<1>5. t \in Seq(ScopeRecords) /\ Len(t) = n /\ \A i \in 1 .. n : t[i] = IF i = n THEN s ELSE scopes[i]
  BY <1>1, <1>3
<1>6. t # <<>>
  BY <1>1, <1>5
<1> HIDE DEF t, n
<1>7. \A i \in 1 .. n : t[i].type = scopes[i].type
  BY <1>3, <1>5
<1>8. \A i \in 1 .. n : t[i].type = "global" <=> i = 1
  BY <1>7 DEF ScopesAre, n
<1>9. ScopesAre(t)
  BY <1>5, <1>6, <1>8 DEF ScopesAre
<1> QED
  BY <1>4, <1>5, <1>9 DEF n

\* An access specifier changes the innermost scope.
LEMMA AccessControlKeeps ==
  ASSUME Texts, ParserInv, AccessControl
  PROVE  ParserInv' /\ GoesOn
<1> DEFINE r == RequireSymbol(cursorPos_ + 1, ":", <<>>)
           scopes == [scopes_ EXCEPT ![Len(scopes_)].access = Next1]
<1>1. parsing /\ Next1 \in AccessSpecifiers /\ Leave(r, scopes, m_unnamedCnt)
  BY DEF AccessControl, Statement, Reading
<1>2. Next1 # EndOfFile
  BY <1>1, Keywords
<1>3. input \in Seq(Strings) /\ cursorPos_ + 1 \in From(1) /\ ScopesAre(scopes_)
  BY <1>2, Ready, Further
<1>4. r \in Leaves(cursorPos_ + 1, 0, 0, 0)
  <2>1. ":" \in Symbols
    BY DEF Symbols
  <2> QED
    BY <1>3, <2>1, NothingLeads, RequireSymbolIs
<1>5. ScopesAre(scopes) /\ Len(scopes) = Len(scopes_)
  BY <1>1, <1>3, ScopeChanged
<1>6. m_unnamedCnt \in Nat
  BY DEF ParserInv
<1> HIDE DEF r, scopes
<1> QED
  BY <1>1, <1>3, <1>4, <1>5, <1>6, SameKeeps

\* A function that cannot be read is skipped, at least one token of it.
LEMMA FunctionOrSkipKeeps ==
  ASSUME Texts, ParserInv, FunctionOrSkip
  PROVE  ParserInv' /\ GoesOn
<1>0. PICK gone \in GoneNames :
        Leave(IfFailedSkip(ParseFunction(cursorPos_, Back, gone)), scopes_, m_unnamedCnt)
  BY Zenon DEF FunctionOrSkip
<1> DEFINE r == ParseFunction(cursorPos_, Back, gone)
           s == IfFailedSkip(r)
<1>1. parsing /\ Next1 # EndOfFile
  BY DEF FunctionOrSkip, Reading
<1>a. Leave(s, scopes_, m_unnamedCnt)
  BY <1>0
<1>b. gone \in Strings
  BY DEF Texts
<1>2. /\ input \in Seq(Strings) /\ NotCut(input) /\ cursorPos_ \in From(1) /\ cursorPos_ \in Nat
      /\ cursorPos_ + 1 \in From(1) /\ cursorPos_ <= Len(input)
      /\ ScopesAre(scopes_) /\ m_unnamedCnt \in Nat /\ Back \in ScopeRecords
  BY <1>1, Ready, Further DEF ParserInv
<1>3. r \in Leaves(cursorPos_, 0, 0, 0) /\ (r.ok => r.p > cursorPos_)
  BY <1>2, <1>b, ParseFunctionIs
<1> HIDE DEF r
<1>4. /\ r \in Outcomes \cup NodeRecords /\ r.ok \in BOOLEAN /\ r.p \in From(cursorPos_)
      /\ r.p \in From(1) /\ r.p \in Nat
  BY <1>2, <1>3, LeavesParts
<1>5. Leads(r.ev, 0, 0, 0, 0)
  BY <1>3 DEF Leaves
<1>6. s \in Outcomes \cup NodeRecords /\ s.ev = r.ev /\ s.p \in From(cursorPos_) /\ s.p > cursorPos_
  <2>1. CASE r.ok
    BY <1>3, <1>4, <2>1 DEF IfFailedSkip
  <2>2. CASE ~r.ok
    <3> DEFINE q == SkipDeclaration(r.p)
    <3>1. q \in From(r.p) /\ (r.p <= Len(input) => q > r.p)
      BY <1>2, <1>4, SkipPlace
    <3>2. s = [r EXCEPT !.ok = TRUE, !.p = q]
      <4>1. r.p # Nowhere
        BY <1>2, <1>4, InputLength DEF From, Nowhere
      <4> QED
        BY <2>2, <4>1 DEF IfFailedSkip
    <3> HIDE DEF q, s
    <3>3. q \in Nat /\ q \in From(cursorPos_) /\ q > cursorPos_
      BY <1>2, <1>4, <3>1, InputLength DEF From
    <3>4. s \in Outcomes \cup NodeRecords /\ s.ev = r.ev /\ s.p = q
      <4>1. CASE r \in Outcomes
        BY <3>2, <3>3, <4>1 DEF Outcomes
      <4>2. CASE r \in NodeRecords
        BY <3>2, <3>3, <4>2 DEF NodeRecords
      <4> QED
        BY <1>4, <4>1, <4>2
    <3> QED
      BY <3>3, <3>4
  <2> QED
    BY <1>4, <2>1, <2>2
<1> HIDE DEF s
<1>7. s.p \in From(cursorPos_ + 1)
  BY <1>2, <1>6, PastToken
<1>8. s \in Leaves(cursorPos_ + 1, 0, 0, 0)
  BY <1>5, <1>6, <1>7 DEF Leaves
<1> QED
  BY <1>1, <1>a, <1>2, <1>8, SameKeeps

\* The classes named or not, up to the ":" or "{" behind the name
LEMMA ClassNamed ==
  ASSUME Texts, ParserInv, Next1 \in {"class", "struct", "union"}
  PROVE  LET unnamed == ~IsIdentifier(cursorPos_ + 1)
             name == IF unnamed THEN Unnamed(Next1) ELSE Token(cursorPos_ + 1)
             n    == IF unnamed THEN cursorPos_ + 1 ELSE cursorPos_ + 2
         IN  name \in Strings /\ n \in From(cursorPos_ + 1) /\ n \in From(1)
<1>1. Next1 # EndOfFile
  BY Keywords
<1>2. input \in Seq(Strings) /\ cursorPos_ \in Nat /\ cursorPos_ + 1 \in From(1)
  BY <1>1, Ready, Further
<1>3. CASE ~IsIdentifier(cursorPos_ + 1)
  <2>1. Unnamed(Next1) \in Strings
    BY UnnamedIs
  <2>2. cursorPos_ + 1 \in From(cursorPos_ + 1)
    BY <1>2, Here
  <2> QED
    BY <1>2, <1>3, <2>1, <2>2
<1>4. CASE IsIdentifier(cursorPos_ + 1)
  <2> DEFINE p == cursorPos_ + 1
  <2>1. p + 1 \in From(1) /\ p + 1 \in From(p) /\ Token(p) \in Strings
    BY <1>2, <1>4, NameInside
  <2>2. p + 1 = cursorPos_ + 2
    BY <1>2
  <2> QED
    BY <1>4, <2>1, <2>2
<1> QED
  BY <1>3, <1>4

\* The base classes of a class take their types.
LEMMA BasesAre ==
  ASSUME Texts, input \in Seq(Strings), NotCut(input), NEW n \in From(1)
  PROVE  (IF Token(n) = ":" THEN ParseItems("base", n + 1) ELSE Done(n, <<>>)) \in Leaves(n, 0, 0, 0)
<1>1. CASE Token(n) = ":"
  <2>1. n + 1 \in From(1) /\ n + 1 \in From(n)
    BY <1>1, SymbolInside DEF Symbols
  <2>2. "base" \in Items
    BY DEF Items
  <2>3. ParseItems("base", n + 1) \in Leaves(n + 1, 0, 0, 0)
    BY <2>1, <2>2, ParseItemsIs
  <2>4. ParseItems("base", n + 1) \in Leaves(n, 0, 0, 0)
    BY <2>1, <2>3, LeavesOnward
  <2> QED
    BY <1>1, <2>4
<1>2. CASE Token(n) # ":"
  <2>1. Done(n, <<>>) \in Leaves(n, 0, 0, 0)
    BY Here, NothingLeads, DoneLeaves
  <2> QED
    BY <1>2, <2>1
<1> QED
  BY <1>1, <1>2

\* The calls a class begins with
LEMMA ClassBegins ==
  ASSUME Texts, NEW scope \in ScopeRecords, NEW name \in Strings,
         NEW key \in {"class", "struct", "union"}
  PROVE  Leads(CurrentAccess(scope) \o <<Call("beginClass", name, key)>>, 0, 0, 1, 0)
<1> DEFINE v == CurrentAccess(scope)
           w == <<Call("beginClass", name, key)>>
<1>1. Leads(v, 0, 0, 0, 0)
  BY CurrentAccessIs
<1>2. Leads(w, 0, 0, 1, 0)
  <2>1. IsKind(key)
    BY SomeKinds
  <2> QED
    BY <2>1, OpeningLeads
<1> HIDE DEF v, w
<1>3. Leads(v \o w, 0, 0, 0 + 1, 0 + 0)
  BY <1>1, <1>2, LeadsBoth
<1>4. Leads(v \o w, 0, 0, 1, 0)
  BY <1>3
<1> QED
  BY <1>4 DEF v, w

\* What follows a routine that has left everything as it was
LEMMA IfOkSame ==
  ASSUME NEW p, NEW e \in Int, NEW r \in Leaves(p, 0, 0, 0), NEW rest, r.ok => rest \in Leaves(p, 0, e, 0)
  PROVE  IfOk(r, rest) \in Leaves(p, 0, e, 0)
<1>1. r \in Outcomes \cup NodeRecords /\ Leads(r.ev, 0, 0, 0, 0) /\ r.p \in From(p)
  BY DEF Leaves
<1>2. ~r.ok => r \in Leaves(p, 0, e, 0)
  BY <1>1 DEF Leaves
<1>3. 0 \in Nat /\ 0 \in Int
  OBVIOUS
<1> QED
  BY <1>1, <1>2, <1>3, IfOkLeaves

\* A class opens an element and a scope, and a forward declaration closes its element again.
LEMMA ClassKeeps ==
  ASSUME Texts, ParserInv, Class
  PROVE  ParserInv' /\ GoesOn
<1> DEFINE c == cursorPos_ + 1
           unnamed == ~IsIdentifier(cursorPos_ + 1)
           name  == IF unnamed THEN Unnamed(Next1) ELSE Token(cursorPos_ + 1)
           n     == IF unnamed THEN cursorPos_ + 1 ELSE cursorPos_ + 2
           bases == IF Token(n) = ":" THEN ParseItems("base", n + 1) ELSE Done(n, <<>>)
           forward == Token(bases.p) = ";"
           closed == Done(SkipDeclaration(cursorPos_), <<Call("endClass", name, "forward")>>)
           opened == RequireSymbol(bases.p, "{", <<>>)
           body  == IF forward THEN closed ELSE opened
           access == IF Next1 = "class" THEN "private" ELSE "public"
           ev == CurrentAccess(Back) \o <<Call("beginClass", name, Next1)>>
           rest == IfOk(bases, body)
           s == Scope(Next1, name, access)
           count == m_unnamedCnt + IF unnamed THEN 1 ELSE 0
<1>1. parsing /\ Next1 \in {"class", "struct", "union"}
  BY DEF Class, Statement, Reading
<1>2. Leave(Then(ev, rest), IF forward THEN scopes_ ELSE Append(scopes_, s), count)
  BY Zenon DEF Class
<1>3. Next1 # EndOfFile
  BY <1>1, Keywords
<1>4. /\ input \in Seq(Strings) /\ NotCut(input)
      /\ cursorPos_ \in From(1) /\ cursorPos_ \in Nat /\ c \in From(1)
      /\ cursorPos_ <= Len(input) /\ Back \in ScopeRecords /\ ScopesAre(scopes_)
  BY <1>3, Ready, Further
<1>5. name \in Strings /\ n \in From(c) /\ n \in From(1)
  BY <1>1, ClassNamed
<1>6. count \in Nat
  BY DEF ParserInv
<1> HIDE DEF name, n, count, unnamed
<1>7. bases \in Leaves(c, 0, 0, 0)
  <2>1. bases \in Leaves(n, 0, 0, 0)
    BY <1>4, <1>5, BasesAre
  <2> HIDE DEF bases
  <2> QED
    BY <1>4, <1>5, <2>1, LeavesOnward
<1> HIDE DEF bases
<1>8. bases.p \in From(c) /\ bases.p \in From(1)
  BY <1>4, <1>7, LeavesParts
<1>9. Leads(ev, 0, 0, 1, 0)
  BY <1>1, <1>4, <1>5, ClassBegins
<1> HIDE DEF ev
<1>10. closed \in Leaves(c, 0, -1, 0)
  <2> DEFINE q == SkipDeclaration(cursorPos_)
             w == <<Call("endClass", name, "forward")>>
  <2>1. q \in From(cursorPos_) /\ q > cursorPos_
    BY <1>4, SkipPlace
  <2> HIDE DEF q
  <2>2. q \in From(c)
    BY <1>4, <2>1, PastToken
  <2>3. Leads(w, 0, 0, -1, 0)
    <3>1. IsKind("forward") /\ "endClass" \in ElementClosing
      BY SomeKinds DEF ElementClosing
    <3> QED
      BY <1>5, <3>1, ClosingLeads
  <2> HIDE DEF w, c
  <2>4. Done(q, w) \in Leaves(c, 0, -1, 0)
    BY <1>4, <2>2, <2>3, DoneLeaves
  <2> QED
    BY <2>4 DEF q, w
<1>11. opened \in Leaves(c, 0, 0, 0)
  <2> DEFINE b == "{"
             w == <<>>
  <2>1. b \in Symbols
    BY DEF Symbols
  <2>2. Leads(w, 0, 0, 0, 0)
    BY NothingLeads
  <2> DEFINE q == bases.p
  <2>a. q \in From(1) /\ 0 \in Nat /\ 0 \in Int
    BY <1>8
  <2> HIDE DEF b, w, c, q
  <2>b. RequireSymbol(q, b, w) \in Leaves(q, 0, 0, 0)
    BY <1>4, <2>1, <2>2, <2>a, RequireSymbolIs
  <2>3. RequireSymbol(bases.p, b, w) \in Leaves(bases.p, 0, 0, 0)
    BY <2>b DEF q
  <2>4. RequireSymbol(bases.p, b, w) \in Leaves(c, 0, 0, 0)
    BY <1>4, <1>8, <2>3, LeavesOnward
  <2> QED
    BY <2>4 DEF b, w
<1> HIDE DEF closed, opened
<1>12. CASE forward
  <2>1. body = closed
    BY <1>12
  <2> HIDE DEF body, c, forward
  <2>2. rest \in Leaves(c, 0, -1, 0)
    BY <1>7, <1>10, <2>1, IfOkSame
  <2> HIDE DEF rest
  <2>3. Then(ev, rest) \in Leaves(c, 0, 0, 0)
    BY <1>9, <2>2, ThenCloses
  <2> DEFINE r == Then(ev, rest)
  <2>4. Leave(r, scopes_, count) /\ r \in Leaves(c, 0, 0, 0)
    BY <1>2, <1>12, <2>3
  <2> HIDE DEF r
  <2> QED
    BY <1>1, <1>4, <1>6, <2>4, SameKeeps DEF c
<1>13. CASE ~forward
  <2>1. body = opened
    BY <1>13
  <2>2. s \in ScopeRecords /\ s.type # "global"
    BY <1>1, <1>5 DEF Scope, ScopeRecords, ScopeTypes, AccessSpecifiers
  <2> HIDE DEF body, c, forward, s
  <2>3. rest \in Leaves(c, 0, 0, 0)
    BY <1>7, <1>11, <2>1, IfOkSame
  <2> HIDE DEF rest
  <2>4. Then(ev, rest) \in Leaves(c, 0, 1 + 0, 0 + 0)
    <3>1. 0 \in Nat /\ 1 \in Nat /\ 0 \in Int
      OBVIOUS
    <3> QED
      BY <1>9, <2>3, <3>1, ThenLeaves
  <2> DEFINE r == Then(ev, rest)
  <2>5. Leave(r, Append(scopes_, s), count) /\ r \in Leaves(c, 0, 1, 0)
    BY <1>2, <1>13, <2>4
  <2> HIDE DEF r
  <2> QED
    BY <1>1, <1>4, <1>6, <2>2, <2>5, PushKeeps DEF c
<1> HIDE DEF forward
<1> QED
  BY <1>12, <1>13

\* The end of a namespace closes its element and its scope,
LEMMA CloseNamespaceKeeps ==
  ASSUME Texts, ParserInv, CloseNamespace
  PROVE  ParserInv' /\ GoesOn
<1> DEFINE c == cursorPos_ + 1
           w == <<Call("endNamespace", Back.name, "")>>
<1>1. parsing /\ Len(scopes_) > 1 /\ Next1 = "}"
  BY DEF CloseNamespace, AtClose, Reading
<1>2. Leave(Done(c, w), Front(scopes_), m_unnamedCnt)
  BY Zenon DEF CloseNamespace
<1>3. Next1 # EndOfFile
  BY <1>1, Keywords
<1>4. input \in Seq(Strings) /\ c \in From(1) /\ Back \in ScopeRecords
  BY <1>3, Ready, Further
<1>5. Leads(w, 0, 0, -1, 0)
  <2>1. IsKind("") /\ "endNamespace" \in ElementClosing /\ Back.name \in Strings
    BY <1>4, SomeKinds DEF ElementClosing, ScopeRecords
  <2> QED
    BY <2>1, ClosingLeads
<1> HIDE DEF w
<1> DEFINE r == Done(c, w)
<1>6. /\ r \in Outcomes /\ r.p \in From(c) /\ Leads(r.ev, 0, 0, -1, 0)
  <2>1. c \in From(c) /\ c \in Nat
    BY <1>4, Here
  <2>2. w \in Seq(ParserCalls)
    BY <1>5 DEF Leads
  <2>3. r.p = c /\ r.ev = w
    BY DEF Done
  <2> HIDE DEF c
  <2>4. r \in Outcomes
    BY <2>1, <2>2 DEF Done, Outcomes
  <2> HIDE DEF r
  <2> QED
    BY <1>5, <2>1, <2>3, <2>4
<1>7. Leave(r, Front(scopes_), m_unnamedCnt)
  BY <1>2
<1> HIDE DEF r
<1> QED
  BY <1>1, <1>4, <1>6, <1>7, PopKeeps DEF c

\* and so does the end of a class, also if a property of its type follows.
LEMMA CloseClassKeeps ==
  ASSUME Texts, ParserInv, CloseClass
  PROVE  ParserInv' /\ GoesOn
<1> DEFINE p == cursorPos_ + 1
           w == <<Call("endClass", Back.name, "defined")>>
           outer == scopes_[Len(scopes_) - 1]
           type == Visit("literal", Back.name, <<>>)
           property == ParseProperty(p, outer, FALSE, TRUE, Back.name)
           end == RequireSymbol(p, ";", <<>>)
           rest == IF IsIdentifier(p) THEN Then(type, property) ELSE end
<1>1. parsing /\ Len(scopes_) > 1 /\ Next1 = "}"
  BY DEF CloseClass, AtClose, Reading
<1>2. Leave(Then(w, rest), Front(scopes_), m_unnamedCnt)
  BY Zenon DEF CloseClass
<1>3. Next1 # EndOfFile
  BY <1>1, Keywords
<1>4. /\ input \in Seq(Strings) /\ p \in From(1) /\ Back \in ScopeRecords
      /\ scopes_ \in Seq(ScopeRecords) /\ Len(scopes_) \in Nat
  BY <1>3, Ready, Further DEF ScopesAre
<1>5. outer \in ScopeRecords
  <2>0. Len(scopes_) \in Nat /\ Len(scopes_) > 1
    BY <1>1, Ready
  <2>1. Len(scopes_) - 1 \in 1 .. Len(scopes_)
    BY <2>0
  <2> QED
    BY <1>4, <2>1, ElementOfSeq
<1>6. Back.name \in Strings
  BY <1>4 DEF ScopeRecords
<1> HIDE DEF p, outer
<1>7. rest \in Leaves(p, 0, 0, 0)
  <2>1. Then(type, property) \in Leaves(p, 0, 0, 0)
    <3>1. property \in Leaves(p, 1, 0, 0)
      <4>1. property \in Leaves(p, IF FALSE THEN 0 ELSE 1, 0, 0)
        BY <1>4, <1>5, <1>6, ParsePropertyIs
      <4> HIDE DEF property
      <4> QED
        BY <4>1
    <3>2. Leads(type, 0, 1, 0, 0)
      <4>1. IsType(type)
        <5>1. "literal" \in TypeKinds
          BY DEF TypeKinds
        <5> QED
          BY <1>6, <5>1, TypesNone, VisitIsType
      <4> HIDE DEF type
      <4>2. Leads(type, 0, 0 + 1, 0, 0)
        BY <4>1, TypeLeads
      <4> QED
        BY <4>2
    <3> HIDE DEF property, type
    <3>3. 0 \in Nat /\ 1 \in Nat /\ 0 \in Int
      OBVIOUS
    <3> QED
      BY <3>1, <3>2, <3>3, ThenSame
  <2>2. end \in Leaves(p, 0, 0, 0)
    <3> DEFINE b == ";"
               none == <<>>
    <3>1. b \in Symbols
      BY DEF Symbols
    <3>2. Leads(none, 0, 0, 0, 0) /\ 0 \in Nat /\ 0 \in Int
      BY NothingLeads
    <3> HIDE DEF b, none
    <3>3. RequireSymbol(p, b, none) \in Leaves(p, 0, 0, 0)
      BY <1>4, <3>1, <3>2, RequireSymbolIs
    <3> QED
      BY <3>3 DEF b, none
  <2> HIDE DEF property, type, end
  <2> QED
    BY <2>1, <2>2
<1> HIDE DEF rest
<1>8. Leads(w, 0, 0, -1, 0)
  <2>1. IsKind("defined") /\ "endClass" \in ElementClosing
    BY SomeKinds DEF ElementClosing
  <2> QED
    BY <1>6, <2>1, ClosingLeads
<1> HIDE DEF w
<1> DEFINE r == Then(w, rest)
<1>9. r \in Outcomes /\ r.p \in From(p) /\ Leads(r.ev, 0, 0, -1, 0)
  <2>1. w \in Seq(ParserCalls) /\ rest \in Outcomes \cup NodeRecords /\ rest.p \in From(p)
    BY <1>7, <1>8 DEF Leads, Leaves
  <2>2. r \in Outcomes /\ r.p = rest.p /\ r.ev = w \o rest.ev
    BY <2>1, ThenIs
  <2>3. Leads(rest.ev, 0, 0, 0, 0)
    BY <1>7 DEF Leaves
  <2>4. Leads(w \o rest.ev, 0, 0, -1 + 0, 0 + 0)
    BY <1>8, <2>3, LeadsBoth
  <2>5. Leads(w \o rest.ev, 0, 0, -1, 0)
    BY <2>4
  <2> HIDE DEF r
  <2> QED
    BY <2>1, <2>2, <2>5
<1>10. Leave(r, Front(scopes_), m_unnamedCnt)
  BY <1>2
<1> HIDE DEF r
<1> QED
  BY <1>1, <1>4, <1>9, <1>10, PopKeeps DEF p

-----------------------------------------------------------------------------
(* The theorems about the parser.                                          *)

\* The invariant holds at first.
LEMMA ParserBegins ==
  ASSUME Texts, Init
  PROVE  ParserInv
<1>1. /\ input = <<>> /\ parsing = FALSE /\ cursorPos_ = 1
      /\ hasError_ = FALSE /\ m_unnamedCnt = 0
      /\ m_queue = <<>> /\ m_resultQueue = <<>> /\ parsed = <<>> /\ statements = 0
  BY Zenon DEF Init
<1>2. ScopesAre(scopes_)
  <2> DEFINE s == Scope("global", "", "public")
  <2>1. "" \in Strings
    BY DEF Texts, OtherWords
  <2>2. s \in ScopeRecords /\ s.type = "global"
    BY <2>1 DEF Scope, ScopeRecords, ScopeTypes, AccessSpecifiers
  <2>3. scopes_ = <<s>>
    BY Zenon DEF Init
  <2> HIDE DEF s
  <2>4. <<s>> \in Seq(ScopeRecords) /\ Len(<<s>>) = 1 /\ <<s>>[1] = s /\ <<s>> # <<>>
    BY <2>2
  <2>5. ScopesAre(<<s>>)
    BY <2>2, <2>4 DEF ScopesAre
  <2> QED
    BY <2>3, <2>5
<1>3. input \in Seq(Strings) /\ NotCut(input) /\ cursorPos_ \in 1 .. Len(input) + 1
  BY <1>1 DEF NotCut
<1>4. parsed \in Seq(ParsedRecords)
  BY <1>1
<1>5. ResultsAre(m_resultQueue)
  BY <1>1 DEF ResultsAre
<1> QED
  BY <1>1, <1>2, <1>3, <1>4, <1>5 DEF ParserInv

\* A statement keeps the invariant, and if it is not the last it goes on.
LEMMA StatementKeeps ==
  ASSUME Texts, ParserInv, ParseStatement
  PROVE  ParserInv' /\ GoesOn
<1>1. CASE EndOfInput
  BY <1>1, EndOfInputKeeps
<1>2. CASE EmptyStatement \/ Typedef \/ Using \/ Friend \/ Template
  BY <1>2, SimpleKeep
<1>3. CASE Enum
  BY <1>3, EnumKeeps
<1>4. CASE Namespace
  BY <1>4, NamespaceKeeps
<1>5. CASE AccessControl
  BY <1>5, AccessControlKeeps
<1>6. CASE Class
  BY <1>6, ClassKeeps
<1>7. CASE FunctionOrSkip
  BY <1>7, FunctionOrSkipKeeps
<1>8. CASE CloseNamespace
  BY <1>8, CloseNamespaceKeeps
<1>9. CASE CloseClass
  BY <1>9, CloseClassKeeps
<1> QED
  BY <1>1, <1>2, <1>3, <1>4, <1>5, <1>6, <1>7, <1>8, <1>9 DEF ParseStatement

\* Every step keeps it, and takes the cursor forward.
LEMMA ParserStep ==
  ASSUME Texts, NoneCut, ParserInv, [Next]_vars
  PROVE  ParserInv' /\ [GoesOn]_vars
<1>1. CASE Begin
  BY <1>1, BeginKeeps
<1>2. CASE ParseStatement
  BY <1>2, StatementKeeps
<1>3. CASE UNCHANGED vars
  <2>1. Source' = Source
    BY <1>3 DEF vars, parserVars, Source
  <2>2. QueueIs(m_queue', Source', Len(scopes_') - 1) <=> QueueIs(m_queue, Source, Len(scopes_) - 1)
    BY <1>3, <2>1 DEF vars, parserVars
  <2>3. /\ input' = input /\ cursorPos_' = cursorPos_ /\ parsing' = parsing /\ hasError_' = hasError_
        /\ m_unnamedCnt' = m_unnamedCnt /\ statements' = statements /\ scopes_' = scopes_
        /\ parsed' = parsed /\ m_queue' = m_queue /\ m_resultQueue' = m_resultQueue
    BY <1>3 DEF vars, parserVars
  <2>4. ParserInv'
    BY <2>2, <2>3 DEF ParserInv, NotCut
  <2> QED
    BY <1>3, <2>4
<1> QED
  BY <1>1, <1>2, <1>3 DEF Next

\* So it holds always.
LEMMA ParserHolds ==
  ASSUME Texts, NoneCut
  PROVE  Spec => []ParserInv
<1>1. Init => ParserInv
  BY ParserBegins
<1>2. ParserInv /\ [Next]_vars => ParserInv'
  BY ParserStep
<1> QED
  BY <1>1, <1>2, PTL DEF Spec

\* What is in the queue are calls.
LEMMA QueueCalls ==
  ASSUME Texts, NEW q, NEW source \in Strings, NEW depth, QueueIs(q, source, depth)
  PROVE  q \in Seq(AllCalls)
<1> DEFINE c == Call("begin", source, "")
<1>1. PICK w \in Seq(ParserCalls) : q = <<c>> \o w
  BY DEF QueueIs
<1>2. c \in AllCalls
  <2>1. "begin" \in Strings /\ "" \in Strings
    BY DEF Texts, Operations, OtherWords
  <2> QED
    BY <2>1 DEF Call, AllCalls
<1> HIDE DEF c
<1>3. <<c>> \in Seq(AllCalls) /\ w \in Seq(AllCalls)
  BY <1>2 DEF ParserCalls
<1> QED
  BY <1>1, <1>3, ConcatProperties

\* The parser's state is of its type: the stack of scopes has the file's own at its bottom and
\* nowhere else, and every call recorded is one.  If no file ends in "=", the cursor stays in
\* the file: then no routine goes back to a Token that nobody has filled (parser.cc:425, 855).
THEOREM ParserTypes ==
  ASSUME Texts, NoneCut
  PROVE  Spec => [](TypeOK /\ cursorPos_ # Nowhere)
<1>1. ParserInv => TypeOK /\ cursorPos_ # Nowhere
  <2> SUFFICES ASSUME ParserInv PROVE TypeOK /\ cursorPos_ # Nowhere
    OBVIOUS
  <2>1. /\ parsing \in BOOLEAN /\ hasError_ \in BOOLEAN
        /\ cursorPos_ \in 1 .. Len(input) + 1
        /\ m_unnamedCnt \in Nat /\ statements \in Nat
    BY DEF ParserInv
  <2>2. /\ scopes_ # <<>>
        /\ \A i \in DOMAIN scopes_ : scopes_[i].type \in ScopeTypes
                                  /\ scopes_[i].access \in AccessSpecifiers
                                  /\ (scopes_[i].type = "global" <=> i = 1)
    <3>1. /\ scopes_ \in Seq(ScopeRecords) /\ scopes_ # <<>> /\ DOMAIN scopes_ = 1 .. Len(scopes_)
          /\ \A i \in 1 .. Len(scopes_) : scopes_[i].type = "global" <=> i = 1
      BY ScopesType DEF ParserInv, ScopesAre
    <3>2. \A i \in 1 .. Len(scopes_) : scopes_[i] \in ScopeRecords
      BY <3>1, ElementOfSeq
    <3> QED
      BY <3>1, <3>2 DEF ScopeRecords
  <2>3. m_queue \in Seq(AllCalls)
    <3>1. CASE parsing
      BY <3>1, SourceIs, QueueCalls DEF ParserInv
    <3>2. CASE ~parsing
      BY <3>2 DEF ParserInv
    <3> QED
      BY <3>1, <3>2
  <2>4. \A i \in DOMAIN m_queue : DOMAIN m_queue[i] = 1 .. 3
    <3>1. \A i \in DOMAIN m_queue : m_queue[i] \in AllCalls
      BY <2>3
    <3>2. \A c \in AllCalls : DOMAIN c = 1 .. 3
      BY DEF AllCalls
    <3> QED
      BY <3>1, <3>2
  <2>5. cursorPos_ # Nowhere
    <3>1. Len(input) \in Nat
      BY LenProperties DEF ParserInv
    <3> QED
      BY <2>1, <3>1 DEF Nowhere
  <2> QED
    BY <2>1, <2>2, <2>4, <2>5 DEF TypeOK
<1> QED
  BY <1>1, ParserHolds, PTL

\* Every statement but the last takes the cursor forward, in whatever files of which none ends
\* in "=": the loops of Parse and ParseClass come to an end.  A file that ends in "=" may send
\* the cursor anywhere, also back.
THEOREM StatementsAdvance ==
  ASSUME Texts, NoneCut
  PROVE  Spec => Advances
<1>1. ParserInv /\ [Next]_vars => [GoesOn]_vars
  BY ParserStep
<1>2. Spec => [][GoesOn]_vars
  BY <1>1, ParserHolds, PTL DEF Spec
<1> QED
  BY <1>2 DEF Advances, GoesOn

-----------------------------------------------------------------------------
(* The parser with the backends.                                           *)

\* The backends change nothing of the parser, and taking a result leaves the others.
LEMMA TranslationHolds ==
  ASSUME Texts, NoneCut
  PROVE  TranslationSpec => []ParserInv
<1>1. TranslationInit => ParserInv
  BY ParserBegins DEF TranslationInit
<1>2. ParserInv /\ [TranslationNext]_allVars => ParserInv'
  <2> SUFFICES ASSUME ParserInv, [TranslationNext]_allVars PROVE ParserInv'
    OBVIOUS
  <2>1. CASE [Next]_vars
    BY <2>1, ParserStep
  <2>2. CASE TakeResult
    <3>1. /\ m_resultQueue # <<>> /\ m_resultQueue' = Tail(m_resultQueue) /\ UNCHANGED parserVars
      BY <2>2 DEF TakeResult
    <3>2. ResultsAre(m_resultQueue')
      BY <3>1, ResultsFewer DEF ParserInv
    <3>3. /\ input' = input /\ cursorPos_' = cursorPos_ /\ parsing' = parsing /\ hasError_' = hasError_
          /\ m_unnamedCnt' = m_unnamedCnt /\ statements' = statements /\ scopes_' = scopes_
          /\ parsed' = parsed /\ m_queue' = m_queue
      BY <3>1 DEF parserVars
    <3>4. Source' = Source
      BY <3>3 DEF Source
    <3>5. QueueIs(m_queue', Source', Len(scopes_') - 1) <=> QueueIs(m_queue, Source, Len(scopes_) - 1)
      BY <3>3, <3>4
    <3> QED
      BY <3>2, <3>3, <3>5 DEF ParserInv, NotCut
  <2> QED
    BY <2>1, <2>2 DEF TranslationNext, Parse, Run, allVars
<1> QED
  BY <1>1, <1>2, PTL DEF TranslationSpec

\* The calls of every result match, whatever the tokens of the files, of which none ends in "=".
THEOREM CallsMatch ==
  ASSUME Texts, NoneCut
  PROVE  TranslationSpec => []ResultsMatch
<1>1. ParserInv => ResultsMatch
  <2> SUFFICES ASSUME ParserInv, NEW i \in DOMAIN m_resultQueue
               PROVE  /\ m_resultQueue[i] \in Seq(Strings \X Strings \X Strings)
                      /\ Matched(m_resultQueue[i])
    BY DEF ResultsMatch
  <2>1. m_resultQueue \in Seq(Seq(AllCalls)) /\ \A j \in 1 .. Len(m_resultQueue) : Matched(m_resultQueue[j])
    BY DEF ParserInv, ResultsAre
  <2>2. i \in 1 .. Len(m_resultQueue)
    BY <2>1, LenProperties
  <2> QED
    BY <2>1, <2>2, ElementOfSeq DEF AllCalls
<1> QED
  BY <1>1, TranslationHolds, PTL

\* The translation implements the backends that are sent one matching result after the other.
THEOREM BackendsServed ==
  ASSUME Texts, NoneCut
  PROVE  TranslationSpec => BackendsSpec
<1>1. TranslationInit => BackendsInit
  BY DEF TranslationInit
<1>2. ParserInv /\ [TranslationNext]_allVars => [BackendsNext]_backendVars
  <2> SUFFICES ASSUME ParserInv, [TranslationNext]_allVars PROVE [BackendsNext]_backendVars
    OBVIOUS
  <2>1. CASE Parse
    BY <2>1 DEF Parse
  <2>2. CASE TakeResult
    <3>1. Head(m_resultQueue) \in Seq(AllCalls) /\ Matched(Head(m_resultQueue))
      BY <2>2, ResultsFewer DEF TakeResult, ParserInv
    <3>2. /\ result = <<>> /\ result' = Head(m_resultQueue)
          /\ UNCHANGED <<dbVars, debug, printerVars>>
      BY <2>2 DEF TakeResult
    <3>3. Receive
      BY <3>1, <3>2 DEF Receive, AllCalls
    <3> QED
      BY <3>3 DEF BackendsNext
  <2>3. CASE Run
    BY <2>3 DEF Run, BackendsNext
  <2>4. CASE UNCHANGED allVars
    BY <2>4 DEF allVars
  <2> QED
    BY <2>1, <2>2, <2>3, <2>4 DEF TranslationNext
<1> QED
  BY <1>1, <1>2, TranslationHolds, PTL DEF TranslationSpec, BackendsSpec

\* No assert of the backends fails, whatever the tokens of the files.
THEOREM NoAssertFails ==
  ASSUME Texts, NoneCut, Debug
  PROVE  TranslationSpec => []AssertsHold
BY BackendsServed, AssertsNeverFail, PTL

\* Each file's elements are closed before the next file's, whatever the tokens of the files.
THEOREM FilesAlwaysStartClean ==
  ASSUME Texts, NoneCut, Debug
  PROVE  TranslationSpec => []FilesStartClean
BY BackendsServed, ResultsStartClean, PTL

\* Between two files no type is still being written, whatever the tokens of the first.
THEOREM TypesAlwaysClosed ==
  ASSUME Texts, NoneCut, Debug
  PROVE  TranslationSpec =>
           [](result = <<>> => m_typeStack = <<>> /\ (debug => printedTypeStack = <<>>))
BY BackendsServed, TypesClosed, PTL

\* What the debug backend prints of a call is what the database stores, whatever the tokens.
THEOREM PrintedAsStored ==
  ASSUME Texts, NoneCut, Debug
  PROVE  TranslationSpec => []PrintsWhatIsStored
BY BackendsServed, PrintedIsStored, PTL

\* The debug backend indents at least as far as the document is deep, whatever the tokens.
THEOREM IndentedAsDeep ==
  ASSUME Texts, NoneCut, Debug
  PROVE  TranslationSpec => []IndentCoversDocument
BY BackendsServed, DepthIndented, PTL
=============================================================================
