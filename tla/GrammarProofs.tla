---------------------------- MODULE GrammarProofs ----------------------------
(***************************************************************************)
(* The calls of every routine of Grammar match, whatever the tokens: what  *)
(* they close they have opened, and what they take they have written. A    *)
(* routine that fails half-way may leave open what it has opened, never    *)
(* close what it has not. And the cursor stays in the file, behind where   *)
(* it was, unless it read nothing.                                         *)
(***************************************************************************)
EXTENDS Translation, BackendsProofs, RecursionProofs

-----------------------------------------------------------------------------
(* Matching, call by call.                                                 *)

\* What counts in the calls of a result, as far as they have been made: the types that are
\* open, the types written and not taken, behind the last friend_, and the elements and the
\* other brackets that are open.
States == [open : Nat, ready : Nat, elements : Nat, others : Nat]
Zero   == [open |-> 0, ready |-> 0, elements |-> 0, others |-> 0]

OpenedBy(c)  == (IF c[1] = "beginType" THEN 1 ELSE 0) - (IF c[1] = "endType" THEN 1 ELSE 0)
OthersBy(c)  == (IF c[1] \in OtherOpening THEN 1 ELSE 0) - (IF c[1] \in OtherClosing THEN 1 ELSE 0)
Allowed(c, s) ==
  /\ c[1] \in {"typeName", "endType"} => s.open > 0
  /\ c[1] \in ElementClosing => s.elements > 0
  /\ c[1] \in OtherClosing => s.others > 0
  /\ printer!Takes(c) <= s.ready
StateAfter(c, s) ==
  [open     |-> s.open + OpenedBy(c),
   ready    |-> IF c[1] = "friend_" THEN 0
                ELSE s.ready - printer!Takes(c)
                       + (IF c[1] = "endType" /\ s.open = 1 THEN 1 ELSE 0),
   elements |-> s.elements + Deeper(c),
   others   |-> s.others + OthersBy(c)]

\* f is what counts behind each of the calls w, from s to t.
Passes(f, w, s, t) ==
  /\ f[0] = s /\ f[Len(w)] = t
  /\ \A i \in 0 .. Len(w) : f[i] \in States
  /\ \A i \in 1 .. Len(w) : Allowed(w[i], f[i - 1]) /\ f[i] = StateAfter(w[i], f[i - 1])
\* The calls w lead from s to t.
Runs(w, s, t) == \E f : Passes(f, w, s, t)

\* An allowed call leads from counts to counts.
LEMMA StateAfterType ==
  ASSUME NEW c, NEW s \in States, Allowed(c, s)
  PROVE  StateAfter(c, s) \in States
<1>1. s.open \in Nat /\ s.ready \in Nat /\ s.elements \in Nat /\ s.others \in Nat
  BY DEF States
<1>2. s.open + OpenedBy(c) \in Nat
  BY <1>1 DEF Allowed, OpenedBy
<1>3. s.elements + Deeper(c) \in Nat
  BY <1>1 DEF Allowed, Deeper
<1>4. s.others + OthersBy(c) \in Nat
  BY <1>1 DEF Allowed, OthersBy
<1>5. /\ s.ready - printer!Takes(c) \in Nat
      /\ s.ready - printer!Takes(c) + (IF c[1] = "endType" /\ s.open = 1 THEN 1 ELSE 0) \in Nat
  <2>1. printer!Takes(c) \in 0 .. 2 /\ printer!Takes(c) <= s.ready
    BY TakesType DEF Allowed
  <2> QED
    BY <1>1, <2>1
<1> QED
  BY <1>2, <1>3, <1>4, <1>5 DEF States, StateAfter

\* No calls lead nowhere,
LEMMA RunsNone ==
  ASSUME NEW s \in States
  PROVE  Runs(<<>>, s, s)
<1> DEFINE f == [i \in 0 .. 0 |-> s]
<1>1. Len(<<>>) = 0
  OBVIOUS
<1>2. f[0] = s /\ (\A i \in 0 .. 0 : f[i] \in States) /\ (\A i \in 1 .. 0 : FALSE)
  OBVIOUS
<1> HIDE DEF f
<1>3. Passes(f, <<>>, s, s)
  BY <1>1, <1>2 DEF Passes
<1> QED
  BY <1>3 DEF Runs

\* an allowed call to what counts behind it,
LEMMA RunsCall ==
  ASSUME NEW c, NEW s \in States, Allowed(c, s)
  PROVE  Runs(<<c>>, s, StateAfter(c, s)) /\ StateAfter(c, s) \in States
<1> DEFINE t == StateAfter(c, s)
           f == [i \in 0 .. 1 |-> IF i = 0 THEN s ELSE t]
<1>1. Len(<<c>>) = 1 /\ <<c>>[1] = c
  OBVIOUS
<1>2. t \in States
  BY StateAfterType
<1> HIDE DEF t
<1>3. f[0] = s /\ f[1] = t /\ \A i \in 0 .. 1 : f[i] \in States
  BY <1>2
<1> HIDE DEF f
<1>4. \A i \in 1 .. 1 : Allowed(<<c>>[i], f[i - 1]) /\ f[i] = StateAfter(<<c>>[i], f[i - 1])
  <2> SUFFICES ASSUME NEW i \in 1 .. 1
               PROVE  Allowed(<<c>>[i], f[i - 1]) /\ f[i] = StateAfter(<<c>>[i], f[i - 1])
    OBVIOUS
  <2>1. i = 1 /\ i - 1 = 0
    OBVIOUS
  <2> QED
    BY <1>1, <1>3, <2>1 DEF t
<1>5. Passes(f, <<c>>, s, t)
  BY <1>1, <1>3, <1>4 DEF Passes
<1> QED
  BY <1>2, <1>5 DEF Runs, t

\* and calls followed by calls as far as both.
LEMMA RunsBoth ==
  ASSUME NEW S, NEW v \in Seq(S), NEW w \in Seq(S), NEW s, NEW t, NEW u,
         Runs(v, s, t), Runs(w, t, u)
  PROVE  Runs(v \o w, s, u)
<1>1. PICK f : Passes(f, v, s, t)
  BY DEF Runs
<1>2. PICK g : Passes(g, w, t, u)
  BY DEF Runs
<1>3. /\ Len(v) \in Nat /\ Len(w) \in Nat /\ Len(v \o w) = Len(v) + Len(w)
      /\ \A i \in 1 .. Len(v) : (v \o w)[i] = v[i]
      /\ \A i \in Len(v) + 1 .. Len(v) + Len(w) : (v \o w)[i] = w[i - Len(v)]
  BY LenProperties, ConcatProperties
<1> DEFINE m == Len(v)
           n == Len(w)
           x == v \o w
           h == [i \in 0 .. m + n |-> IF i <= m THEN f[i] ELSE g[i - m]]
<1>4. \A i \in 0 .. m : h[i] = f[i]
  BY <1>3
<1>5. \A i \in m .. m + n : h[i] = g[i - m]
  <2> SUFFICES ASSUME NEW i \in m .. m + n PROVE h[i] = g[i - m]
    OBVIOUS
  <2>1. h[i] = IF i <= m THEN f[i] ELSE g[i - m]
    BY <1>3
  <2>2. i = m => i - m = 0 /\ f[m] = t /\ g[0] = t
    BY <1>1, <1>2, <1>3 DEF Passes
  <2>3. i # m => ~(i <= m)
    BY <1>3
  <2> HIDE DEF h
  <2>4. CASE i = m
    BY <1>3, <2>1, <2>2, <2>4
  <2>5. CASE i # m
    BY <2>1, <2>3, <2>5
  <2> QED
    BY <2>4, <2>5
<1> HIDE DEF h
<1>6. h[0] = s /\ h[m + n] = u
  <2>1. 0 \in 0 .. m /\ m + n \in m .. m + n /\ (m + n) - m = n
    BY <1>3
  <2>2. h[0] = f[0] /\ h[m + n] = g[n]
    BY <1>4, <1>5, <2>1
  <2> QED
    BY <1>1, <1>2, <2>2 DEF Passes
<1>7. ASSUME NEW i \in 0 .. m + n
      PROVE  h[i] \in States
  <2>1. CASE i \in 0 .. m
    BY <1>1, <1>4, <2>1 DEF Passes
  <2>2. CASE i \notin 0 .. m
    <3>1. i \in m .. m + n /\ i - m \in 0 .. n
      BY <1>3, <2>2
    <3> QED
      BY <1>2, <1>5, <3>1 DEF Passes
  <2> QED
    BY <2>1, <2>2
<1>8. ASSUME NEW i \in 1 .. m + n
      PROVE  Allowed(x[i], h[i - 1]) /\ h[i] = StateAfter(x[i], h[i - 1])
  <2>1. CASE i \in 1 .. m
    <3>1. i \in 0 .. m /\ i - 1 \in 0 .. m
      BY <1>3, <2>1
    <3>2. h[i] = f[i] /\ h[i - 1] = f[i - 1] /\ x[i] = v[i]
      BY <1>3, <1>4, <2>1, <3>1
    <3>3. Allowed(v[i], f[i - 1]) /\ f[i] = StateAfter(v[i], f[i - 1])
      BY <1>1, <2>1 DEF Passes
    <3> QED
      BY <3>2, <3>3
  <2>2. CASE i \notin 1 .. m
    <3>1. /\ i \in m .. m + n /\ i - 1 \in m .. m + n /\ i - m \in 1 .. n
          /\ (i - 1) - m = (i - m) - 1 /\ i \in m + 1 .. m + n
      BY <1>3, <2>2
    <3>2. h[i] = g[i - m] /\ h[i - 1] = g[(i - m) - 1] /\ x[i] = w[i - m]
      BY <1>3, <1>5, <3>1
    <3>3. Allowed(w[i - m], g[(i - m) - 1]) /\ g[i - m] = StateAfter(w[i - m], g[(i - m) - 1])
      BY <1>2, <3>1 DEF Passes
    <3> QED
      BY <3>2, <3>3
  <2> QED
    BY <2>1, <2>2
<1>9. Passes(h, x, s, u)
  <2>1. Len(x) = m + n
    BY <1>3
  <2> HIDE DEF x, m, n
  <2> QED
    BY <1>6, <1>7, <1>8, <2>1 DEF Passes
<1> QED
  BY <1>9 DEF Runs

\* What counts behind i calls of r is what Matched counts.
Counts(s, r, i) ==
  /\ s.open = TypesOpen(r, i) /\ s.elements = OpenElements(r, i) /\ s.others = OpenOthers(r, i)
  /\ \A k \in Cuts(r, i) : Supply(r, k, i) >= s.ready

\* What counts goes on to be what Matched counts, from one call to the next,
LEMMA CountsNext ==
  ASSUME NEW r, NEW i \in Nat, NEW s \in States, Counts(s, r, i), Allowed(r[i + 1], s)
  PROVE  Counts(StateAfter(r[i + 1], s), r, i + 1)
<1> DEFINE c == r[i + 1]
           t == StateAfter(c, s)
<1>1. s.open \in Nat /\ s.ready \in Nat /\ s.elements \in Nat /\ s.others \in Nat
  BY DEF States
<1>2. t.open = TypesOpen(r, i + 1)
  BY <1>1, TypesOpenNext DEF Counts, StateAfter, OpenedBy
<1>3. t.elements = OpenElements(r, i + 1)
  BY <1>1, OpenElementsNext DEF Counts, StateAfter
<1>4. t.others = OpenOthers(r, i + 1)
  BY <1>1, OpenOthersNext DEF Counts, StateAfter, OthersBy
<1>5. /\ printer!Takes(c) \in 0 .. 2 /\ printer!Takes(c) <= s.ready
      /\ t.ready \in Nat
  BY TakesType, StateAfterType DEF Allowed, States
<1>6. ASSUME NEW k \in Cuts(r, i + 1)
      PROVE  Supply(r, k, i + 1) >= t.ready
  <2>1. k \in Nat
    BY <1>6 DEF Cuts
  <2>2. CASE k = i + 1
    <3>1. c[1] = "friend_"
      BY <1>6, <2>2 DEF Cuts
    <3>2. t.ready = 0
      BY <3>1 DEF StateAfter
    <3>3. Supply(r, i + 1, i + 1) = 0
      BY SupplyNext
    <3> QED
      BY <2>2, <3>2, <3>3
  <2>3. CASE k # i + 1
    <3>1. k \in Cuts(r, i) /\ k <= i
      BY <1>6, <2>1, <2>3 DEF Cuts
    <3>2. Supply(r, k, i) >= s.ready
      BY <3>1 DEF Counts
    <3>3. /\ Supply(r, k, i) \in Int
          /\ Supply(r, k, i + 1) = Supply(r, k, i)
               + (IF c[1] = "endType" /\ TypesOpen(r, i + 1) = 0 THEN 1 ELSE 0)
               - printer!Takes(c)
      BY <2>1, <3>1, SupplyNext
    <3>4. CASE c[1] = "friend_"
      <4>1. t.ready = 0
        BY <3>4 DEF StateAfter
      <4> HIDE DEF c, t
      <4> QED
        BY <1>1, <1>5, <3>2, <3>3, <4>1
    <3>5. CASE c[1] # "friend_"
      <4>1. t.ready = s.ready - printer!Takes(c)
                        + (IF c[1] = "endType" /\ s.open = 1 THEN 1 ELSE 0)
        BY <3>5 DEF StateAfter
      <4>2. c[1] = "endType" => (s.open = 1 <=> TypesOpen(r, i + 1) = 0)
        BY <1>1, <1>2 DEF StateAfter, OpenedBy
      <4> HIDE DEF c, t
      <4> QED
        BY <1>1, <1>5, <3>2, <3>3, <4>1, <4>2
    <3> QED
      BY <3>4, <3>5
  <2> QED
    BY <2>2, <2>3
<1> HIDE DEF t
<1>7. Counts(t, r, i + 1)
  BY <1>2, <1>3, <1>4, <1>6 DEF Counts
<1> QED
  BY <1>7 DEF t

\* and so behind each call of a result.
LEMMA CountsAlways ==
  ASSUME NEW r, Len(r) \in Nat, NEW f, NEW t, Passes(f, r, Zero, t)
  PROVE  \A i \in 0 .. Len(r) : Counts(f[i], r, i)
<1> DEFINE Bad == {i \in 0 .. Len(r) : ~Counts(f[i], r, i)}
<1>1. SUFFICES ASSUME Bad # {} PROVE FALSE
  OBVIOUS
<1>2. PICK i \in Bad : \A j \in Bad : i <= j
  <2>1. Bad \subseteq Nat
    OBVIOUS
  <2> HIDE DEF Bad
  <2> QED
    BY <1>1, <2>1, LeastNatural
<1>3. i \in 0 .. Len(r) /\ ~Counts(f[i], r, i)
  OBVIOUS
<1>4. CASE i = 0
  <2>1. f[0] = Zero
    BY DEF Passes
  <2>2. TypesOpen(r, 0) = 0 /\ OpenElements(r, 0) = 0 /\ OpenOthers(r, 0) = 0
    BY TypesOpenNext, OpenElementsNext, OpenOthersNext
  <2>3. \A k \in Cuts(r, 0) : k = 0
    BY DEF Cuts
  <2>4. Supply(r, 0, 0) = 0
    BY SupplyNext
  <2>5. Counts(Zero, r, 0)
    BY <2>2, <2>3, <2>4 DEF Counts, Zero
  <2> QED
    BY <1>3, <1>4, <2>1, <2>5
<1>5. CASE i # 0
  <2>1. i - 1 \in 0 .. Len(r) /\ i - 1 \in Nat /\ i \in 1 .. Len(r) /\ ~(i <= i - 1) /\ (i - 1) + 1 = i
    BY <1>3, <1>5
  <2>2. Counts(f[i - 1], r, i - 1)
    BY <1>2, <2>1
  <2>3. Allowed(r[i], f[i - 1]) /\ f[i] = StateAfter(r[i], f[i - 1]) /\ f[i - 1] \in States
    BY <2>1 DEF Passes
  <2>4. Counts(StateAfter(r[(i - 1) + 1], f[i - 1]), r, (i - 1) + 1)
    BY <2>1, <2>2, <2>3, CountsNext
  <2> QED
    BY <1>3, <2>1, <2>3, <2>4
<1> QED
  BY <1>4, <1>5

\* Calls that lead from nothing to no open type match.
LEMMA RunsMatch ==
  ASSUME NEW r, Len(r) \in Nat, DOMAIN r = 1 .. Len(r), Framed(r), NoSecondRoot(r),
         NEW t, Runs(r, Zero, t), t.open = 0
  PROVE  Matched(r)
<1>1. PICK f : Passes(f, r, Zero, t)
  BY DEF Runs
<1>2. \A i \in 0 .. Len(r) : Counts(f[i], r, i)
  BY <1>1, CountsAlways
<1>3. ASSUME NEW i \in DOMAIN r
      PROVE  /\ r[i][1] \in {"typeName", "endType"} => TypesOpen(r, i - 1) > 0
             /\ r[i][1] \in ElementClosing => OpenBefore(r, i, ElementOpening, ElementClosing)
             /\ r[i][1] \in OtherClosing => OpenBefore(r, i, OtherOpening, OtherClosing)
             /\ \A k \in Cuts(r, i - 1) :
                  printer!Takes(r[i]) <= Written(r, k, i - 1) - TakenBy(r, k, i - 1)
  <2>1. i \in 1 .. Len(r) /\ i - 1 \in 0 .. Len(r) /\ i - 1 \in Nat
    OBVIOUS
  <2>2. Allowed(r[i], f[i - 1]) /\ f[i - 1] \in States
    BY <1>1, <2>1 DEF Passes
  <2>3. Counts(f[i - 1], r, i - 1)
    BY <1>2, <2>1
  <2>4. r[i][1] \in {"typeName", "endType"} => TypesOpen(r, i - 1) > 0
    BY <2>2, <2>3 DEF Allowed, Counts
  <2>5. r[i][1] \in ElementClosing => OpenBefore(r, i, ElementOpening, ElementClosing)
    <3>1. NumberOf(r, ElementOpening, 0, i - 1) \in Nat /\ NumberOf(r, ElementClosing, 0, i - 1) \in Nat
      BY <2>1, NumberOfNext
    <3>2. r[i][1] \in ElementClosing => OpenElements(r, i - 1) > 0
      BY <2>2, <2>3 DEF Allowed, Counts
    <3> QED
      BY <3>1, <3>2 DEF OpenBefore, OpenElements
  <2>6. r[i][1] \in OtherClosing => OpenBefore(r, i, OtherOpening, OtherClosing)
    <3>1. NumberOf(r, OtherOpening, 0, i - 1) \in Nat /\ NumberOf(r, OtherClosing, 0, i - 1) \in Nat
      BY <2>1, NumberOfNext
    <3>2. r[i][1] \in OtherClosing => OpenOthers(r, i - 1) > 0
      BY <2>2, <2>3 DEF Allowed, Counts
    <3> QED
      BY <3>1, <3>2 DEF OpenBefore, OpenOthers
  <2>7. ASSUME NEW k \in Cuts(r, i - 1)
        PROVE  printer!Takes(r[i]) <= Written(r, k, i - 1) - TakenBy(r, k, i - 1)
    <3>1. k \in Nat /\ k <= i - 1
      BY <2>1 DEF Cuts
    <3>2. Supply(r, k, i - 1) \in Int
      BY <2>1, <3>1, SupplyNext
    <3>3. printer!Takes(r[i]) \in 0 .. 2 /\ f[i - 1].ready \in Nat
      BY <2>2, TakesType DEF States
    <3>4. printer!Takes(r[i]) <= f[i - 1].ready /\ f[i - 1].ready <= Supply(r, k, i - 1)
      BY <2>2, <2>3 DEF Allowed, Counts
    <3>5. printer!Takes(r[i]) <= Supply(r, k, i - 1)
      BY <3>2, <3>3, <3>4
    <3> QED
      BY <3>5 DEF Supply
  <2> QED
    BY <2>4, <2>5, <2>6, <2>7
<1>4. TypesOpen(r, Len(r)) = 0
  <2>1. Len(r) \in 0 .. Len(r)
    OBVIOUS
  <2> QED
    BY <1>1, <1>2, <2>1 DEF Counts, Passes
<1>5. Nested(r)
  BY <1>3, <1>4 DEF Nested
<1>6. Supplied(r)
  BY <1>3 DEF Supplied
<1> QED
  BY <1>5, <1>6 DEF Matched

-----------------------------------------------------------------------------
(* The calls of the parser.                                                *)

Operations ==
  {"begin", "end", "beginType", "typeName", "endType", "functionArgument", "access", "baseType",
   "templateArgument", "enumValue", "arraySubscript", "beginTypedef", "endTypedef",
   "beginProperty", "endProperty", "using_", "friend_", "beginTemplate", "endTemplate",
   "beginEnum", "endEnum", "beginFunction", "endFunction", "beginNamespace", "endNamespace",
   "beginClass", "endClass"}
TypeKinds ==
  {"literal", "constructor", "destructor", "variadic", "template", "function",
   "functionPointer", "pointer", "reference", "lreference"}
OtherWords ==
  {"", " ", "~", ")", "=", "public", "protected", "private", "default", "forward", "defined",
   "class", "struct", "union", "enum", "typename", "unnamed-"}

\* The tokens of the files are strings, and strings are what the parser makes of them.
Texts ==
  /\ Operations \cup TypeKinds \cup OtherWords \subseteq Strings
  /\ \A a \in Strings, b \in Strings : a \o b \in Strings
  /\ \A n \in Nat : ToString(n) \in Strings
  /\ Files \in Seq(SUBSET Seq(Strings))
  /\ GoneNames \subseteq Strings

\* A text that does not end in "=".  Behind a "=" at the end of a file the parser goes back to
\* a Token that no GetToken has filled, and what it does then is anybody's guess.
NotCut(text) == text # <<>> => text[Len(text)] # "="
NoneCut == \A i \in DOMAIN Files : \A text \in Files[i] : NotCut(text)

AllCalls    == Strings \X Strings \X Strings
ParserCalls == {c \in AllCalls : c[1] \notin {"begin", "end"} /\ c[3] # "typedb"}

\* What a call of the parser is made of.
LEMMA IsCall ==
  ASSUME Texts, NEW op \in Operations, op # "begin", op # "end", NEW name \in Strings,
         NEW kind, kind \in TypeKinds \/ kind \in OtherWords
  PROVE  /\ Call(op, name, kind) \in ParserCalls
         /\ Call(op, name, kind)[1] = op /\ Call(op, name, kind)[3] = kind
<1>1. op \in Strings /\ kind \in Strings /\ kind # "typedb" /\ op \notin {"begin", "end"}
  BY DEF Texts, Operations, TypeKinds, OtherWords
<1> QED
  BY <1>1 DEF Call, ParserCalls, AllCalls

-----------------------------------------------------------------------------
(* What a routine leaves of the open brackets and the types written.       *)

\* The calls w, where n types lie ready, leave m and open e elements and x other brackets
\* more than they close.
Leads(w, n, m, e, x) ==
  /\ w \in Seq(ParserCalls)
  /\ \A s \in States :
        s.open = 0 /\ s.ready >= n /\ s.elements + e >= 0 /\ s.others + x >= 0 =>
          \E t \in States :
             /\ Runs(w, s, t) /\ t.open = 0 /\ t.ready >= m
             /\ t.elements >= s.elements + e /\ t.others >= s.others + x

\* The calls w close the type that is open.
Closes(w) ==
  /\ w \in Seq(ParserCalls)
  /\ \A s \in States : s.open > 0 =>
        \E t \in States :
           /\ Runs(w, s, t) /\ t.open = s.open - 1
           /\ t.ready >= s.ready + (IF s.open = 1 THEN 1 ELSE 0)
           /\ t.elements = s.elements /\ t.others = s.others
IsType(w) ==
  \E c \in ParserCalls : \E rest :
     c[1] = "beginType" /\ Closes(rest) /\ w = <<c>> \o rest
\* The calls w write types, any number of them.
AreTypes(w) ==
  /\ w \in Seq(ParserCalls)
  /\ \A s \in States :
        \E t \in States :
           /\ Runs(w, s, t) /\ t.open = s.open /\ t.ready >= s.ready
           /\ t.elements = s.elements /\ t.others = s.others

\* A single call is a sequence of calls.
LEMMA OneCall ==
  ASSUME NEW c \in ParserCalls
  PROVE  <<c>> \in Seq(ParserCalls)
OBVIOUS

\* What counts are natural numbers.
LEMMA StateParts ==
  ASSUME NEW s \in States
  PROVE  s.open \in Nat /\ s.ready \in Nat /\ s.elements \in Nat /\ s.others \in Nat
BY DEF States

\* No calls change nothing.
LEMMA LeadsNone ==
  ASSUME NEW n \in Nat
  PROVE  Leads(<<>>, n, n, 0, 0)
<1>1. <<>> \in Seq(ParserCalls)
  BY EmptySeq
<1>2. ASSUME NEW s \in States, s.open = 0, s.ready >= n
      PROVE  \E t \in States : /\ Runs(<<>>, s, t) /\ t.open = 0 /\ t.ready >= n
                               /\ t.elements >= s.elements + 0 /\ t.others >= s.others + 0
  <2>1. Runs(<<>>, s, s)
    BY RunsNone
  <2> QED
    BY <1>2, <2>1, StateParts
<1> QED
  BY <1>1, <1>2 DEF Leads

\* What suffices suffices with more, and less of what is left is left as well.
LEMMA LeadsWeaker ==
  ASSUME NEW w, NEW n \in Int, NEW m \in Int, NEW e \in Int, NEW x \in Int, Leads(w, n, m, e, x),
         NEW i \in Int, NEW j \in Int, NEW d \in Int, NEW y \in Int,
         n <= i, j <= m, d <= e, y <= x
  PROVE  Leads(w, i, j, d, y)
<1>1. ASSUME NEW s \in States, s.open = 0, s.ready >= i, s.elements + d >= 0, s.others + y >= 0
      PROVE  \E t \in States : /\ Runs(w, s, t) /\ t.open = 0 /\ t.ready >= j
                               /\ t.elements >= s.elements + d /\ t.others >= s.others + y
  <2>1. s.ready >= n /\ s.elements + e >= 0 /\ s.others + x >= 0
    BY <1>1, StateParts
  <2>2. PICK t \in States : /\ Runs(w, s, t) /\ t.open = 0 /\ t.ready >= m
                            /\ t.elements >= s.elements + e /\ t.others >= s.others + x
    BY <1>1, <2>1 DEF Leads
  <2>3. t.ready >= j /\ t.elements >= s.elements + d /\ t.others >= s.others + y
    <3>1. /\ s.elements \in Nat /\ s.others \in Nat
          /\ t.ready \in Nat /\ t.elements \in Nat /\ t.others \in Nat
      BY StateParts
    <3> QED
      BY <2>2, <3>1
  <2> QED
    BY <2>2, <2>3
<1> QED
  BY <1>1 DEF Leads

\* Calls followed by calls that need no more than these leave.
LEMMA LeadsBoth ==
  ASSUME NEW v, NEW w, NEW n \in Int, NEW m \in Int, NEW k \in Int,
         NEW e \in Int, NEW x \in Int, Leads(v, n, m, e, x),
         NEW d \in Int, NEW y \in Int, Leads(w, m, k, d, y),
         e >= 0 \/ d <= 0, x >= 0 \/ y <= 0
  PROVE  Leads(v \o w, n, k, e + d, x + y)
<1>1. v \in Seq(ParserCalls) /\ w \in Seq(ParserCalls) /\ v \o w \in Seq(ParserCalls)
  BY ConcatProperties DEF Leads
<1>2. ASSUME NEW s \in States, s.open = 0, s.ready >= n,
             s.elements + (e + d) >= 0, s.others + (x + y) >= 0
      PROVE  \E t \in States : /\ Runs(v \o w, s, t) /\ t.open = 0 /\ t.ready >= k
                               /\ t.elements >= s.elements + (e + d)
                               /\ t.others >= s.others + (x + y)
  <2>1. s.elements \in Nat /\ s.others \in Nat
    BY StateParts
  <2>2. s.elements + e >= 0 /\ s.others + x >= 0
    BY <1>2, <2>1
  <2>3. PICK t \in States : /\ Runs(v, s, t) /\ t.open = 0 /\ t.ready >= m
                            /\ t.elements >= s.elements + e /\ t.others >= s.others + x
    BY <1>2, <2>2 DEF Leads
  <2>4. t.elements \in Nat /\ t.others \in Nat
    BY StateParts
  <2>5. t.elements + d >= 0 /\ t.others + y >= 0
    BY <1>2, <2>1, <2>3, <2>4
  <2>6. PICK u \in States : /\ Runs(w, t, u) /\ u.open = 0 /\ u.ready >= k
                            /\ u.elements >= t.elements + d /\ u.others >= t.others + y
    BY <2>3, <2>5 DEF Leads
  <2>7. Runs(v \o w, s, u)
    BY <1>1, <2>3, <2>6, RunsBoth
  <2>8. u.elements >= s.elements + (e + d) /\ u.others >= s.others + (x + y)
    <3>1. u.elements \in Nat /\ u.others \in Nat
      BY StateParts
    <3> QED
      BY <2>1, <2>3, <2>4, <2>6, <3>1
  <2> QED
    BY <2>6, <2>7, <2>8
<1> QED
  BY <1>1, <1>2 DEF Leads

\* One call leaves the types it does not take, except friend_.
LEMMA LeadsCall ==
  ASSUME NEW c \in ParserCalls, c[1] \notin TypeCalls, NEW k \in Nat, c[1] = "friend_" => k = 0
  PROVE  Leads(<<c>>, printer!Takes(c) + k, k, Deeper(c), OthersBy(c))
<1>1. printer!Takes(c) \in Nat /\ Deeper(c) \in Int /\ OthersBy(c) \in Int
  BY TakesType DEF Deeper, OthersBy
<1>2. ASSUME NEW s \in States, s.open = 0, s.ready >= printer!Takes(c) + k,
             s.elements + Deeper(c) >= 0, s.others + OthersBy(c) >= 0
      PROVE  \E t \in States : /\ Runs(<<c>>, s, t) /\ t.open = 0 /\ t.ready >= k
                               /\ t.elements >= s.elements + Deeper(c)
                               /\ t.others >= s.others + OthersBy(c)
  <2> DEFINE t == StateAfter(c, s)
  <2>1. s.ready \in Nat /\ s.elements \in Nat /\ s.others \in Nat
    BY StateParts
  <2>2. Allowed(c, s)
    <3>1. c[1] \in ElementClosing => s.elements > 0
      BY <1>2, <2>1 DEF Deeper, ElementOpening, ElementClosing
    <3>2. c[1] \in OtherClosing => s.others > 0
      BY <1>2, <2>1 DEF OthersBy, OtherOpening, OtherClosing
    <3> QED
      BY <1>1, <1>2, <2>1, <3>1, <3>2 DEF Allowed, TypeCalls
  <2>3. Runs(<<c>>, s, t) /\ t \in States
    BY <2>2, RunsCall
  <2>4. t.open = 0 /\ t.elements = s.elements + Deeper(c) /\ t.others = s.others + OthersBy(c)
    BY <1>2 DEF StateAfter, OpenedBy, TypeCalls
  <2>5. t.ready >= k
    <3>1. t.ready = IF c[1] = "friend_" THEN 0 ELSE s.ready - printer!Takes(c) + 0
      BY DEF StateAfter, TypeCalls
    <3> QED
      BY <1>1, <1>2, <2>1, <3>1
  <2>6. t.elements \in Nat /\ t.others \in Nat
    BY <2>3, StateParts
  <2> HIDE DEF t
  <2>7. t.elements >= s.elements + Deeper(c) /\ t.others >= s.others + OthersBy(c)
    BY <2>4, <2>6
  <2> QED
    BY <2>3, <2>4, <2>5, <2>7
<1> QED
  BY <1>2, OneCall DEF Leads

\* No types are types,
LEMMA TypesNone == AreTypes(<<>>)
<1>1. <<>> \in Seq(ParserCalls)
  BY EmptySeq
<1>2. ASSUME NEW s \in States
      PROVE  Runs(<<>>, s, s) /\ s.ready >= s.ready
  BY RunsNone, StateParts
<1> QED
  BY <1>1, <1>2 DEF AreTypes

\* types behind types are types,
LEMMA TypesBoth ==
  ASSUME NEW v, AreTypes(v), NEW w, AreTypes(w)
  PROVE  AreTypes(v \o w)
<1>1. v \in Seq(ParserCalls) /\ w \in Seq(ParserCalls) /\ v \o w \in Seq(ParserCalls)
  BY ConcatProperties DEF AreTypes
<1>2. ASSUME NEW s \in States
      PROVE  \E t \in States : /\ Runs(v \o w, s, t) /\ t.open = s.open /\ t.ready >= s.ready
                               /\ t.elements = s.elements /\ t.others = s.others
  <2>1. PICK t \in States : /\ Runs(v, s, t) /\ t.open = s.open /\ t.ready >= s.ready
                            /\ t.elements = s.elements /\ t.others = s.others
    BY DEF AreTypes
  <2>2. PICK u \in States : /\ Runs(w, t, u) /\ u.open = t.open /\ u.ready >= t.ready
                            /\ u.elements = t.elements /\ u.others = t.others
    BY DEF AreTypes
  <2>3. Runs(v \o w, s, u)
    BY <1>1, <2>1, <2>2, RunsBoth
  <2>4. s.ready \in Nat /\ t.ready \in Nat /\ u.ready \in Nat
    BY StateParts
  <2> QED
    BY <2>1, <2>2, <2>3, <2>4
<1> QED
  BY <1>1, <1>2 DEF AreTypes

\* A type is written whatever is open; outside of others it lies ready then.
LEMMA TypeRuns ==
  ASSUME NEW w, IsType(w)
  PROVE  /\ w \in Seq(ParserCalls)
         /\ \A s \in States :
               \E t \in States :
                  /\ Runs(w, s, t) /\ t.open = s.open
                  /\ t.ready >= s.ready + (IF s.open = 0 THEN 1 ELSE 0)
                  /\ t.elements = s.elements /\ t.others = s.others
<1>1. PICK c, rest : c \in ParserCalls /\ c[1] = "beginType" /\ Closes(rest) /\ w = <<c>> \o rest
  BY DEF IsType
<1>2. <<c>> \in Seq(ParserCalls) /\ rest \in Seq(ParserCalls) /\ w \in Seq(ParserCalls)
  <2>1. <<c>> \in Seq(ParserCalls)
    BY <1>1, OneCall
  <2> QED
    BY <1>1, <2>1, ConcatProperties DEF Closes
<1>3. ASSUME NEW s \in States
      PROVE  \E t \in States :
                /\ Runs(w, s, t) /\ t.open = s.open
                /\ t.ready >= s.ready + (IF s.open = 0 THEN 1 ELSE 0)
                /\ t.elements = s.elements /\ t.others = s.others
  <2> DEFINE u == StateAfter(c, s)
  <2>1. s.open \in Nat /\ s.ready \in Nat /\ s.elements \in Nat /\ s.others \in Nat
    BY StateParts
  <2>2. printer!Takes(c) = 0
    BY <1>1 DEF printer!Takes
  <2>3. Allowed(c, s)
    BY <1>1, <2>1, <2>2 DEF Allowed, ElementClosing, OtherClosing
  <2>4. Runs(<<c>>, s, u) /\ u \in States
    BY <2>3, RunsCall
  <2>5. u.open = s.open + 1 /\ u.ready = s.ready /\ u.elements = s.elements /\ u.others = s.others
    BY <1>1, <2>1, <2>2 DEF StateAfter, OpenedBy, Deeper, OthersBy, ElementOpening,
                            ElementClosing, OtherOpening, OtherClosing
  <2> HIDE DEF u
  <2>6. PICK t \in States :
           /\ Runs(rest, u, t) /\ t.open = u.open - 1
           /\ t.ready >= u.ready + (IF u.open = 1 THEN 1 ELSE 0)
           /\ t.elements = u.elements /\ t.others = u.others
    <3>1. u.open > 0
      BY <2>1, <2>5
    <3> QED
      BY <1>1, <2>4, <3>1 DEF Closes
  <2>7. Runs(w, s, t)
    BY <1>1, <1>2, <2>4, <2>6, RunsBoth
  <2>8. t.open = s.open /\ t.ready >= s.ready + (IF s.open = 0 THEN 1 ELSE 0)
    BY <2>1, <2>5, <2>6
  <2> QED
    BY <2>5, <2>6, <2>7, <2>8
<1> QED
  BY <1>2, <1>3

\* and so is a single one.
LEMMA TypeIsTypes ==
  ASSUME NEW w, IsType(w)
  PROVE  AreTypes(w)
<1>1. ASSUME NEW s \in States
      PROVE  \E t \in States : /\ Runs(w, s, t) /\ t.open = s.open /\ t.ready >= s.ready
                               /\ t.elements = s.elements /\ t.others = s.others
  <2>1. PICK t \in States :
           /\ Runs(w, s, t) /\ t.open = s.open
           /\ t.ready >= s.ready + (IF s.open = 0 THEN 1 ELSE 0)
           /\ t.elements = s.elements /\ t.others = s.others
    BY TypeRuns
  <2>2. t.ready >= s.ready
    <3>1. s.ready \in Nat /\ t.ready \in Nat
      BY StateParts
    <3> QED
      BY <2>1, <3>1
  <2> QED
    BY <2>1, <2>2
<1> QED
  BY <1>1, TypeRuns DEF AreTypes

\* Types are written whatever else counts,
LEMMA TypesLead ==
  ASSUME NEW w, AreTypes(w), NEW n \in Nat
  PROVE  Leads(w, n, n, 0, 0)
<1>1. ASSUME NEW s \in States, s.open = 0, s.ready >= n
      PROVE  \E t \in States : /\ Runs(w, s, t) /\ t.open = 0 /\ t.ready >= n
                               /\ t.elements >= s.elements + 0 /\ t.others >= s.others + 0
  <2>1. PICK t \in States : /\ Runs(w, s, t) /\ t.open = s.open /\ t.ready >= s.ready
                            /\ t.elements = s.elements /\ t.others = s.others
    BY DEF AreTypes
  <2>2. s.ready \in Nat /\ t.ready \in Nat /\ s.elements \in Nat /\ s.others \in Nat
    BY StateParts
  <2> QED
    BY <1>1, <2>1, <2>2
<1> QED
  BY <1>1 DEF AreTypes, Leads

\* and a type that is part of no other lies ready.
LEMMA TypeLeads ==
  ASSUME NEW w, IsType(w), NEW n \in Nat
  PROVE  Leads(w, n, n + 1, 0, 0)
<1>1. ASSUME NEW s \in States, s.open = 0, s.ready >= n
      PROVE  \E t \in States : /\ Runs(w, s, t) /\ t.open = 0 /\ t.ready >= n + 1
                               /\ t.elements >= s.elements + 0 /\ t.others >= s.others + 0
  <2>1. PICK t \in States :
           /\ Runs(w, s, t) /\ t.open = s.open
           /\ t.ready >= s.ready + (IF s.open = 0 THEN 1 ELSE 0)
           /\ t.elements = s.elements /\ t.others = s.others
    BY TypeRuns
  <2>2. s.ready \in Nat /\ t.ready \in Nat /\ s.elements \in Nat /\ s.others \in Nat
    BY StateParts
  <2> QED
    BY <1>1, <2>1, <2>2
<1> QED
  BY <1>1, TypeRuns DEF Leads

\* typeName changes nothing that counts, endType closes what is open.
LEMMA NameRuns ==
  ASSUME NEW c, c[1] = "typeName", NEW s \in States, s.open > 0
  PROVE  Runs(<<c>>, s, s)
<1>1. s.open \in Nat /\ s.ready \in Nat /\ s.elements \in Nat /\ s.others \in Nat
  BY StateParts
<1>2. printer!Takes(c) = 0
  BY DEF printer!Takes
<1>3. Allowed(c, s)
  BY <1>1, <1>2 DEF Allowed, ElementClosing, OtherClosing
<1>4. StateAfter(c, s) = [open |-> s.open, ready |-> s.ready, elements |-> s.elements,
                          others |-> s.others]
  BY <1>1, <1>2 DEF StateAfter, OpenedBy, Deeper, OthersBy, ElementOpening,
                    ElementClosing, OtherOpening, OtherClosing
<1>5. StateAfter(c, s) = s
  BY <1>4 DEF States
<1> QED
  BY <1>3, <1>5, RunsCall

\* endType closes the type that is open,
LEMMA EndCloses ==
  ASSUME NEW c \in ParserCalls, c[1] = "endType"
  PROVE  Closes(<<c>>)
<1>1. ASSUME NEW s \in States, s.open > 0
      PROVE  \E t \in States :
                /\ Runs(<<c>>, s, t) /\ t.open = s.open - 1
                /\ t.ready >= s.ready + (IF s.open = 1 THEN 1 ELSE 0)
                /\ t.elements = s.elements /\ t.others = s.others
  <2> DEFINE t == StateAfter(c, s)
  <2>1. s.open \in Nat /\ s.ready \in Nat /\ s.elements \in Nat /\ s.others \in Nat
    BY StateParts
  <2>2. printer!Takes(c) = 0
    BY DEF printer!Takes
  <2>3. Allowed(c, s)
    BY <1>1, <2>1, <2>2 DEF Allowed, ElementClosing, OtherClosing
  <2>4. Runs(<<c>>, s, t) /\ t \in States
    BY <2>3, RunsCall
  <2>5. /\ t.open = s.open - 1 /\ t.ready = s.ready + (IF s.open = 1 THEN 1 ELSE 0)
        /\ t.elements = s.elements /\ t.others = s.others
    BY <2>1, <2>2 DEF StateAfter, OpenedBy, Deeper, OthersBy, ElementOpening,
                      ElementClosing, OtherOpening, OtherClosing
  <2> HIDE DEF t
  <2>6. t.ready >= s.ready + (IF s.open = 1 THEN 1 ELSE 0)
    BY <2>1, <2>5
  <2> QED
    BY <2>4, <2>5, <2>6
<1> QED
  BY <1>1, OneCall DEF Closes

\* also behind its name
LEMMA ClosesBehindName ==
  ASSUME NEW c \in ParserCalls, c[1] = "typeName", NEW w, Closes(w)
  PROVE  Closes(<<c>> \o w)
<1>1. <<c>> \in Seq(ParserCalls) /\ w \in Seq(ParserCalls) /\ <<c>> \o w \in Seq(ParserCalls)
  <2>1. <<c>> \in Seq(ParserCalls)
    BY OneCall
  <2> QED
    BY <2>1, ConcatProperties DEF Closes
<1>2. ASSUME NEW s \in States, s.open > 0
      PROVE  \E t \in States :
                /\ Runs(<<c>> \o w, s, t) /\ t.open = s.open - 1
                /\ t.ready >= s.ready + (IF s.open = 1 THEN 1 ELSE 0)
                /\ t.elements = s.elements /\ t.others = s.others
  <2>1. PICK t \in States :
           /\ Runs(w, s, t) /\ t.open = s.open - 1
           /\ t.ready >= s.ready + (IF s.open = 1 THEN 1 ELSE 0)
           /\ t.elements = s.elements /\ t.others = s.others
    BY <1>2 DEF Closes
  <2>2. Runs(<<c>>, s, s)
    BY <1>2, NameRuns
  <2>3. Runs(<<c>> \o w, s, t)
    BY <1>1, <2>1, <2>2, RunsBoth
  <2> QED
    BY <2>1, <2>3
<1> QED
  BY <1>1, <1>2 DEF Closes

\* and behind the types below it.
LEMMA ClosesBehindTypes ==
  ASSUME NEW v, AreTypes(v), NEW w, Closes(w)
  PROVE  Closes(v \o w)
<1>1. v \in Seq(ParserCalls) /\ w \in Seq(ParserCalls) /\ v \o w \in Seq(ParserCalls)
  BY ConcatProperties DEF Closes, AreTypes
<1>2. ASSUME NEW s \in States, s.open > 0
      PROVE  \E t \in States :
                /\ Runs(v \o w, s, t) /\ t.open = s.open - 1
                /\ t.ready >= s.ready + (IF s.open = 1 THEN 1 ELSE 0)
                /\ t.elements = s.elements /\ t.others = s.others
  <2>1. PICK u \in States : /\ Runs(v, s, u) /\ u.open = s.open /\ u.ready >= s.ready
                            /\ u.elements = s.elements /\ u.others = s.others
    BY DEF AreTypes
  <2>2. PICK t \in States :
           /\ Runs(w, u, t) /\ t.open = u.open - 1
           /\ t.ready >= u.ready + (IF u.open = 1 THEN 1 ELSE 0)
           /\ t.elements = u.elements /\ t.others = u.others
    BY <1>2, <2>1 DEF Closes
  <2>3. Runs(v \o w, s, t)
    BY <1>1, <2>1, <2>2, RunsBoth
  <2>4. s.ready \in Nat /\ t.ready \in Nat /\ u.ready \in Nat
    BY StateParts
  <2>5. t.ready >= s.ready + (IF s.open = 1 THEN 1 ELSE 0)
    BY <2>1, <2>2, <2>4
  <2> QED
    BY <2>1, <2>2, <2>3, <2>5
<1> QED
  BY <1>1, <1>2 DEF Closes

\* The call for the name of a type.
LEMMA NameCall ==
  ASSUME Texts, NEW name \in Strings
  PROVE  /\ Call("typeName", name, "") \in ParserCalls
         /\ Call("typeName", name, "")[1] = "typeName"
<1>1. "typeName" \in Operations /\ "" \in OtherWords
  BY DEF Operations, OtherWords
<1>2. Call("typeName", name, "") \in ParserCalls
  BY <1>1, IsCall
<1> QED
  BY <1>2 DEF Call

\* A node that is visited writes a type, if the nodes below it do,
LEMMA VisitIsType ==
  ASSUME Texts, NEW kind \in TypeKinds, NEW name \in Strings, NEW below, AreTypes(below)
  PROVE  IsType(Visit(kind, name, below))
<1> DEFINE b == Call("beginType", "", kind)
           n == Call("typeName", name, "")
           e == Call("endType", "", "")
           names == IF kind \in {"pointer", "reference", "lreference"} THEN <<>> ELSE <<n>>
<1>1. "" \in Strings
  BY DEF Texts, OtherWords
<1>2. b \in ParserCalls /\ b[1] = "beginType"
  <2>1. "beginType" \in Operations
    BY DEF Operations
  <2>2. b \in ParserCalls
    BY <1>1, <2>1, IsCall
  <2>3. b[1] = "beginType"
    BY DEF Call
  <2> QED
    BY <2>2, <2>3
<1>3. n \in ParserCalls /\ n[1] = "typeName"
  BY NameCall
<1>4. e \in ParserCalls /\ e[1] = "endType"
  <2>1. "endType" \in Operations /\ "" \in OtherWords
    BY DEF Operations, OtherWords
  <2>2. e \in ParserCalls
    BY <1>1, <2>1, IsCall
  <2>3. e[1] = "endType"
    BY DEF Call
  <2> QED
    BY <2>2, <2>3
<1>5. Visit(kind, name, below) = <<b>> \o names \o below \o <<e>>
  BY DEF Visit
<1> HIDE DEF b, n, e
<1>6. Closes(below \o <<e>>)
  BY <1>4, EndCloses, ClosesBehindTypes
<1>7. Closes(names \o (below \o <<e>>))
  <2>1. CASE kind \in {"pointer", "reference", "lreference"}
    <3>1. names \o (below \o <<e>>) = below \o <<e>>
      BY <1>6, <2>1, ConcatEmptySeq DEF Closes
    <3> QED
      BY <1>6, <3>1
  <2>2. CASE kind \notin {"pointer", "reference", "lreference"}
    <3>1. names = <<n>>
      BY <2>2
    <3> HIDE DEF names
    <3> QED
      BY <1>3, <1>6, <3>1, ClosesBehindName
  <2> QED
    BY <2>1, <2>2
<1>8. <<b>> \o names \o below \o <<e>> = <<b>> \o (names \o (below \o <<e>>))
  <2>1. <<b>> \in Seq(ParserCalls) /\ <<n>> \in Seq(ParserCalls) /\ <<e>> \in Seq(ParserCalls)
    BY <1>2, <1>3, <1>4, OneCall
  <2>2. names \in Seq(ParserCalls)
    BY <2>1, EmptySeq
  <2>3. below \in Seq(ParserCalls)
    BY DEF AreTypes
  <2> HIDE DEF names
  <2>4. (<<b>> \o names) \o below = <<b>> \o (names \o below)
    BY <2>1, <2>2, <2>3, ConcatAssociative
  <2>5. names \o below \in Seq(ParserCalls)
    BY <2>2, <2>3, ConcatProperties
  <2>6. (<<b>> \o (names \o below)) \o <<e>> = <<b>> \o ((names \o below) \o <<e>>)
    BY <2>1, <2>5, ConcatAssociative
  <2>7. (names \o below) \o <<e>> = names \o (below \o <<e>>)
    BY <2>1, <2>2, <2>3, ConcatAssociative
  <2> QED
    BY <2>4, <2>6, <2>7
<1> HIDE DEF names
<1> QED
  BY <1>2, <1>5, <1>7, <1>8 DEF IsType

\* also with the name of an argument.
LEMMA VisitNamedIsType ==
  ASSUME Texts, NEW w, IsType(w), NEW name \in Strings
  PROVE  IsType(VisitNamed(w, name))
<1>1. CASE name = ""
  BY <1>1 DEF VisitNamed
<1>2. CASE name # ""
  <2> DEFINE n == Call("typeName", name, "")
  <2>1. n \in ParserCalls /\ n[1] = "typeName"
    BY NameCall
  <2> HIDE DEF n
  <2>2. PICK c, rest : c \in ParserCalls /\ c[1] = "beginType" /\ Closes(rest) /\ w = <<c>> \o rest
    BY DEF IsType
  <2>3. rest \in Seq(ParserCalls) /\ <<c>> \in Seq(ParserCalls) /\ <<n>> \in Seq(ParserCalls)
    BY <2>1, <2>2, OneCall DEF Closes
  <2>4. Head(w) = c /\ Tail(w) = rest
    <3>1. w \in Seq(ParserCalls) /\ Len(w) = 1 + Len(rest) /\ Len(rest) \in Nat
      BY <2>2, <2>3, ConcatProperties, LenProperties
    <3>2. w[1] = c /\ \A i \in 1 .. Len(rest) : w[i + 1] = rest[i]
      <4>1. \A i \in 1 .. 1 : w[i] = <<c>>[i]
        BY <2>2, <2>3, ConcatProperties
      <4>2. \A i \in 2 .. 1 + Len(rest) : w[i] = rest[i - 1]
        <5>1. Len(<<c>>) = 1
          OBVIOUS
        <5> QED
          BY <2>2, <2>3, <5>1, ConcatProperties
      <4>3. \A i \in 1 .. Len(rest) : i + 1 \in 2 .. 1 + Len(rest) /\ (i + 1) - 1 = i
        BY <3>1
      <4> QED
        BY <4>1, <4>2, <4>3
    <3>3. w # <<>>
      BY <3>1, EmptySeq
    <3>4. Head(w) = w[1] /\ Tail(w) \in Seq(ParserCalls) /\ Len(Tail(w)) = Len(w) - 1
          /\ \A i \in 1 .. Len(Tail(w)) : Tail(w)[i] = w[i + 1]
      BY <3>1, <3>3, HeadTailProperties
    <3>5. Len(Tail(w)) = Len(rest)
      BY <3>1, <3>4
    <3>6. \A i \in 1 .. Len(Tail(w)) : Tail(w)[i] = rest[i]
      BY <3>2, <3>4, <3>5
    <3>7. Tail(w) = rest
      BY <2>3, <3>4, <3>5, <3>6, SeqEqual
    <3> QED
      BY <3>2, <3>4, <3>7
  <2>5. VisitNamed(w, name) = <<c, n>> \o rest
    BY <1>2, <2>4 DEF VisitNamed, n
  <2>6. <<c, n>> = <<c>> \o <<n>>
    OBVIOUS
  <2>7. (<<c>> \o <<n>>) \o rest = <<c>> \o (<<n>> \o rest)
    BY <2>3, ConcatAssociative
  <2>8. Closes(<<n>> \o rest)
    BY <2>1, <2>2, ClosesBehindName
  <2> QED
    BY <2>2, <2>5, <2>6, <2>7, <2>8 DEF IsType
<1> QED
  BY <1>1, <1>2

-----------------------------------------------------------------------------
(* The cursor.                                                             *)

\* The places the cursor can be in from p on.
From(p) == p .. Len(input) + 1

\* A file is a sequence of strings.
LEMMA InputLength ==
  ASSUME input \in Seq(Strings)
  PROVE  Len(input) \in Nat /\ \A i \in 1 .. Len(input) : input[i] \in Strings
BY LenProperties, ElementOfSeq

\* A place is behind itself.
LEMMA Here ==
  ASSUME input \in Seq(Strings), NEW p \in From(1)
  PROVE  p \in From(p) /\ p \in Nat
BY InputLength DEF From

\* What is behind a place behind p is behind p.
LEMMA Onward ==
  ASSUME input \in Seq(Strings), NEW p \in From(1), NEW q \in From(p)
  PROVE  q \in From(1) /\ p <= q /\ \A i \in From(q) : i \in From(p)
BY InputLength DEF From

\* A token that is not the end of the file is one of the input.
LEMMA TokenInside ==
  ASSUME input \in Seq(Strings), NEW p \in From(1), Token(p) # EndOfFile
  PROVE  /\ p \in 1 .. Len(input) /\ Token(p) \in Strings
         /\ p + 1 \in From(1) /\ p + 1 \in From(p) /\ p + 1 > p
<1>1. p \in Nat /\ p >= 1 /\ Len(input) \in Nat
  BY InputLength DEF From
<1>2. p <= Len(input)
  BY <1>1 DEF Token
<1>3. p \in 1 .. Len(input) /\ Token(p) = input[p]
  BY <1>1, <1>2 DEF Token
<1> QED
  BY <1>1, <1>2, <1>3, InputLength DEF From

\* A symbol is a token of the file,
LEMMA SymbolInside ==
  ASSUME input \in Seq(Strings), NEW p \in From(1), Token(p) \in Symbols
  PROVE  /\ p \in 1 .. Len(input) /\ Token(p) \in Strings
         /\ p + 1 \in From(1) /\ p + 1 \in From(p) /\ p + 1 > p
<1>1. Token(p) # EndOfFile
  BY DEF Symbols, EndOfFile
<1> QED
  BY <1>1, TokenInside

\* and so are a name and a constant.
LEMMA NameInside ==
  ASSUME input \in Seq(Strings), NEW p \in From(1), IsIdentifier(p) \/ IsConst(p)
  PROVE  /\ p \in 1 .. Len(input) /\ Token(p) \in Strings
         /\ p + 1 \in From(1) /\ p + 1 \in From(p) /\ p + 1 > p
<1>1. Token(p) # EndOfFile
  BY DEF IsIdentifier, IsConst, Consts, EndOfFile
<1> QED
  BY <1>1, TokenInside

\* MatchSymbol and MatchIdentifier stay in the file, as long as they do not match its end.
LEMMA MatchPlace ==
  ASSUME input \in Seq(Strings), NEW p \in From(1), NEW S, EndOfFile \notin S
  PROVE  /\ MatchAny(p, S) \in From(p) /\ MatchAny(p, S) \in From(1)
         /\ MatchAny(p, S) > p => Token(p) \in S
<1>1. p \in Nat /\ p >= 1 /\ Len(input) \in Nat /\ p <= Len(input) + 1
  BY InputLength DEF From
<1>2. CASE Token(p) \in S
  BY <1>1, <1>2, TokenInside DEF MatchAny
<1>3. CASE Token(p) \notin S
  BY <1>1, <1>3 DEF MatchAny, From
<1> QED
  BY <1>2, <1>3

\* A loop that stops at one of some positions stays in the file,
LEMMA FirstPlace ==
  ASSUME input \in Seq(Strings), NEW p \in From(1), NEW stops \in SUBSET (p .. Len(input))
  PROVE  /\ FirstOf(stops) \in From(p)
         /\ FirstOf(stops) <= Len(input) => FirstOf(stops) \in stops
<1>1. p \in Nat /\ Len(input) \in Nat /\ p <= Len(input) + 1
  BY InputLength DEF From
<1>2. CASE stops = {}
  BY <1>1, <1>2 DEF FirstOf, From
<1>3. CASE stops # {}
  <2>1. stops \subseteq Nat
    BY <1>1
  <2>2. \E x \in stops : \A y \in stops : x <= y
    BY <1>3, <2>1, LeastNatural
  <2>3. Min(stops) \in stops /\ \A y \in stops : Min(stops) <= y
    BY <2>2 DEF Min
  <2>4. FirstOf(stops) = Min(stops)
    BY <1>3 DEF FirstOf
  <2>5. Min(stops) \in p .. Len(input)
    BY <2>3
  <2> QED
    BY <1>1, <2>3, <2>4, <2>5 DEF From
<1> QED
  BY <1>2, <1>3

\* and so does the step over the token it stopped at.
LEMMA AfterPlace ==
  ASSUME input \in Seq(Strings), NEW p \in From(1), NEW i \in From(p)
  PROVE  After(i) \in From(p) /\ (p <= Len(input) => After(i) > p)
<1>1. p \in Nat /\ i \in Nat /\ Len(input) \in Nat /\ p <= i /\ i <= Len(input) + 1
  BY InputLength DEF From
<1> QED
  BY <1>1 DEF After, From

\* The loops over specifiers stay in the file.
LEMMA MatchEachPlace ==
  ASSUME input \in Seq(Strings), NEW p \in From(1), NEW S
  PROVE  MatchEach(p, S) \in From(p) /\ MatchEach(p, S) \in From(1)
<1>1. MatchEach(p, S) \in From(p)
  BY FirstPlace DEF MatchEach
<1> QED
  BY <1>1, Onward

\* What is skipped is in the file, and SkipDeclaration skips something if there is anything.
LEMMA SkipPlace ==
  ASSUME input \in Seq(Strings), NEW p \in From(1)
  PROVE  /\ SkipPastSemicolon(p) \in From(p)
         /\ SkipDefault(p) \in From(p) /\ SkipDefault(p) \in From(1)
         /\ SkipDeclaration(p) \in From(p)
         /\ p <= Len(input) => SkipDeclaration(p) > p
<1>1. FirstOf({i \in p .. Len(input) : input[i] \in Spelled(";")}) \in From(p)
  BY FirstPlace
<1>2. SkipDefault(p) \in From(p)
  BY FirstPlace DEF SkipDefault
<1>3. FirstOf(DeclarationEnds(p)) \in From(p)
  BY FirstPlace DEF DeclarationEnds
<1> QED
  BY <1>1, <1>2, <1>3, AfterPlace, Onward DEF SkipPastSemicolon, SkipDeclaration

\* The words of an arithmetic type are in the file.
LEMMA ArithmeticPlace ==
  ASSUME input \in Seq(Strings), NEW p \in From(1)
  PROVE  ParseArithmetic(p) \in From(p)
<1> DEFINE s == MatchAny(p, {"signed", "unsigned"})
           z == IF Token(s) = "long" THEN Match(s + 1, "long") ELSE Match(s, "short")
<1>1. EndOfFile \notin {"signed", "unsigned"} /\ EndOfFile \notin {"long"} /\ EndOfFile \notin {"short"}
      /\ EndOfFile \notin BaseTypes /\ EndOfFile # "long"
  BY DEF EndOfFile, BaseTypes
<1>2. s \in From(p) /\ s \in From(1)
  BY <1>1, MatchPlace
<1> HIDE DEF s
<1>3. z \in From(s) /\ z \in From(1)
  <2>1. CASE Token(s) = "long"
    <3>1. s + 1 \in From(1) /\ s + 1 \in From(s)
      BY <1>1, <1>2, <2>1, TokenInside
    <3>2. Match(s + 1, "long") \in From(s + 1) /\ Match(s + 1, "long") \in From(1)
      BY <1>1, <3>1, MatchPlace DEF Match
    <3> QED
      BY <1>2, <2>1, <3>1, <3>2, Onward
  <2>2. CASE Token(s) # "long"
    BY <1>1, <1>2, <2>2, MatchPlace DEF Match
  <2> QED
    BY <2>1, <2>2
<1> HIDE DEF z
<1>4. z \in From(p)
  BY <1>2, <1>3, Onward
<1>5. MatchAny(z, BaseTypes) \in From(z)
  BY <1>1, <1>3, MatchPlace
<1>6. MatchAny(z, BaseTypes) \in From(p)
  BY <1>3, <1>4, <1>5, Onward
<1>7. ParseArithmetic(p) = IF z = p THEN p ELSE MatchAny(z, BaseTypes)
  BY DEF ParseArithmetic, s, z
<1> QED
  BY <1>4, <1>6, <1>7

-----------------------------------------------------------------------------
(* Type nodes.                                                             *)

NodeRecords == [ok : BOOLEAN, p : Nat, err : BOOLEAN, ev : Seq(ParserCalls),
                kind : TypeKinds \cup {"none"}, name : Strings]

\* What ParseTypeNode may leave behind from p on: a type, and the cursor has moved, but for
\* the "~" or the name of a constructor; or nothing.
NodeFrom(t, p) ==
  /\ t \in NodeRecords /\ t.p \in From(p)
  /\ t.ok => IsType(t.ev) /\ (t.p > p \/ t.kind \in {"constructor", "destructor"})
  /\ ~t.ok => t.ev = <<>>

\* Places are numbers in their order.
LEMMA PlaceType ==
  ASSUME input \in Seq(Strings), NEW p \in From(1), NEW q \in From(p)
  PROVE  p \in Nat /\ q \in Nat /\ p >= 1 /\ q >= p /\ q <= Len(input) + 1 /\ Len(input) \in Nat
BY InputLength DEF From

\* Node leaves a type behind,
LEMMA NodeIs ==
  ASSUME input \in Seq(Strings), NEW p \in From(1), NEW q \in From(p), NEW kind \in TypeKinds,
         NEW name \in Strings, NEW ev, IsType(ev),
         q > p \/ kind \in {"constructor", "destructor"}
  PROVE  NodeFrom(Node(q, kind, name, ev), p) /\ Node(q, kind, name, ev).ok
<1>1. ev \in Seq(ParserCalls)
  BY TypeRuns
<1>2. q \in Nat
  BY PlaceType
<1> QED
  BY <1>1, <1>2 DEF Node, NodeFrom, NodeRecords

\* NoNode nothing.
LEMMA NoNodeIs ==
  ASSUME Texts, input \in Seq(Strings), NEW p \in From(1), NEW q \in From(p), NEW err \in BOOLEAN
  PROVE  NodeFrom(NoNode(q, err), p) /\ ~NoNode(q, err).ok
<1>1. q \in Nat /\ <<>> \in Seq(ParserCalls) /\ "" \in Strings
  BY PlaceType, EmptySeq DEF Texts, OtherWords
<1> QED
  BY <1>1 DEF NoNode, NodeFrom, NodeRecords

\* What is left behind from a place on is so from a place before it.
LEMMA NodeOnward ==
  ASSUME input \in Seq(Strings), NEW p \in From(1), NEW q \in From(p), NEW t, NodeFrom(t, q)
  PROVE  NodeFrom(t, p)
<1>1. t.p \in From(p)
  BY Onward DEF NodeFrom
<1>2. t.p > q => t.p > p
  BY <1>1, PlaceType DEF NodeFrom, NodeRecords
<1> QED
  BY <1>1, <1>2 DEF NodeFrom

\* A name leaves a type behind, if there is one or it is the constructor's.
LEMMA LiteralIs ==
  ASSUME Texts, input \in Seq(Strings), NEW p \in From(1), NEW q \in From(p),
         NEW name \in Strings, NEW ctor, NEW variadic \in BOOLEAN,
         q > p \/ (name = ctor /\ ~variadic)
  PROVE  NodeFrom(Literal(q, name, ctor, variadic), p)
<1> DEFINE kind == IF variadic THEN "variadic" ELSE IF name = ctor THEN "constructor" ELSE "literal"
<1>1. kind \in TypeKinds /\ (q > p \/ kind \in {"constructor", "destructor"})
  BY DEF TypeKinds
<1>2. Literal(q, name, ctor, variadic) = Node(q, kind, name, Visit(kind, name, <<>>))
  BY DEF Literal
<1> HIDE DEF kind
<1>3. IsType(Visit(kind, name, <<>>))
  BY <1>1, TypesNone, VisitIsType
<1> QED
  BY <1>1, <1>2, <1>3, NodeIs

\* Tokens in a row, and with blanks between them, are a string.
LEMMA TextIs ==
  ASSUME Texts, input \in Seq(Strings), NEW p \in From(1), NEW q \in From(p), p < q
  PROVE  Text(p, q) \in Strings
<1> DEFINE s == SubSeq(input, p, q - 1)
<1>1. p \in Nat /\ q \in Nat /\ p >= 1 /\ q <= Len(input) + 1 /\ Len(input) \in Nat
  BY PlaceType
<1>2. p \in Int /\ q - 1 \in Int /\ \A i \in p .. q - 1 : input[i] \in Strings
  BY <1>1, InputLength
<1>3. s \in Seq(Strings) /\ Len(s) = IF p <= q - 1 THEN (q - 1) - p + 1 ELSE 0
  BY <1>2, SubSeqProperties
<1>4. Len(s) # 0
  BY <1>1, <1>3
<1> HIDE DEF s
<1>5. \A a \in Strings, b \in Strings : a \o b \in Strings
  BY DEF Texts
<1>6. FlattenSeq(s) \in Strings
  BY <1>3, <1>4, <1>5, FlattenIn
<1> QED
  BY <1>6 DEF Text, s

\* The same with blanks between them.
LEMMA JoinedIs ==
  ASSUME Texts, input \in Seq(Strings), NEW p \in From(1), NEW q \in From(p), p < q
  PROVE  Joined(p, q) \in Strings
<1> DEFINE n == 2 * (q - p) - 1
           s == [i \in 1 .. n |-> IF i % 2 = 1 THEN Token(p + i \div 2) ELSE " "]
<1>1. p \in Nat /\ q \in Nat /\ p >= 1 /\ q <= Len(input) + 1 /\ Len(input) \in Nat
  BY PlaceType
<1>2. n \in Nat /\ n # 0
  BY <1>1
<1>3. ASSUME NEW i \in 1 .. n
      PROVE  (IF i % 2 = 1 THEN Token(p + i \div 2) ELSE " ") \in Strings
  <2>1. p + i \div 2 \in 1 .. Len(input)
    BY <1>1
  <2>2. Token(p + i \div 2) \in Strings
    BY <1>1, <2>1, InputLength DEF Token
  <2>3. " " \in Strings
    BY DEF Texts, OtherWords
  <2> QED
    BY <2>2, <2>3
<1>4. s \in [1 .. n -> Strings]
  BY <1>3
<1> HIDE DEF s, n
<1>5. s \in Seq(Strings) /\ Len(s) = n
  BY <1>2, <1>4, SeqDef, LenProperties
<1>6. \A a \in Strings, b \in Strings : a \o b \in Strings
  BY DEF Texts
<1>7. FlattenSeq(s) \in Strings
  BY <1>2, <1>5, <1>6, FlattenIn
<1> QED
  BY <1>7 DEF Joined, s, n

\* A destructor leaves a type behind or nothing,
LEMMA DestructorIs ==
  ASSUME Texts, input \in Seq(Strings), NEW p \in From(1), NEW ctor, Token(p) = "~"
  PROVE  NodeFrom(Destructor(p, ctor), p)
<1>1. p \in From(p) /\ p + 1 \in From(1) /\ p + 1 \in From(p)
  <2>1. Token(p) \in Symbols
    BY DEF Symbols
  <2> QED
    BY <2>1, SymbolInside, PlaceType DEF From
<1>2. CASE ~IsIdentifier(p + 1)
  BY <1>1, <1>2, NoNodeIs DEF Destructor
<1>3. CASE IsIdentifier(p + 1)
  <2>1. p + 2 \in From(p) /\ Token(p + 1) \in Strings
    <3>1. /\ p + 1 + 1 \in From(p + 1) /\ Token(p + 1) \in Strings
      BY <1>1, <1>3, NameInside
    <3>2. p + 1 + 1 \in From(p)
      BY <1>1, <3>1, Onward
    <3>3. p + 1 + 1 = p + 2
      BY PlaceType, <1>1
    <3> QED
      BY <3>1, <3>2, <3>3
  <2>2. CASE Token(p + 1) # ctor \/ Token(p + 2) # "("
    BY <1>3, <2>1, <2>2, NoNodeIs DEF Destructor
  <2>3. CASE ~(Token(p + 1) # ctor \/ Token(p + 2) # "(")
    <3>1. "~" \o ctor \in Strings /\ "destructor" \in TypeKinds
      BY <2>1, <2>3 DEF Texts, OtherWords, TypeKinds
    <3>2. Destructor(p, ctor) =
            Node(p, "destructor", "~" \o ctor, Visit("destructor", "~" \o ctor, <<>>))
      BY <1>3, <2>3 DEF Destructor
    <3>3. IsType(Visit("destructor", "~" \o ctor, <<>>))
      BY <3>1, TypesNone, VisitIsType
    <3> QED
      BY <1>1, <3>1, <3>2, <3>3, NodeIs
  <2> QED
    BY <2>2, <2>3
<1> QED
  BY <1>2, <1>3

\* so does the qualified name a type starts with,
LEMMA DeclaratorFromIs ==
  ASSUME Texts, input \in Seq(Strings), NEW p \in From(1), NEW ctor, NEW specifier \in Strings
  PROVE  NodeFrom(DeclaratorFrom(p, ctor, specifier), p)
<1> DEFINE q == Match(p, "::")
           IsName(i) == (i - q) % 2 = 0
           e == FirstOf({i \in q .. Len(input) :
                           IF IsName(i) THEN IsConstructor(i, ctor) \/ ~(IsIdentifier(i) \/ IsConst(i))
                                        ELSE Token(i) # "::"})
           turn == e = p \/ ~IsName(e)
<1>1. q \in From(p) /\ q \in From(1)
  <2>1. EndOfFile \notin {"::"}
    BY DEF EndOfFile
  <2> QED
    BY <2>1, MatchPlace DEF Match
<1>2. e \in From(q)
  <2>1. {i \in q .. Len(input) :
           IF IsName(i) THEN IsConstructor(i, ctor) \/ ~(IsIdentifier(i) \/ IsConst(i))
                        ELSE Token(i) # "::"} \in SUBSET (q .. Len(input))
    OBVIOUS
  <2> HIDE DEF q
  <2> QED
    BY <1>1, <2>1, FirstPlace
<1>3. DeclaratorFrom(p, ctor, specifier) =
        IF turn /\ Token(e) = "..." THEN Literal(e + 1, specifier \o Text(p, e + 1), ctor, TRUE)
        ELSE IF turn /\ Token(e) = "~" THEN Destructor(e, ctor)
        ELSE IF ~IsName(e) THEN Literal(e, specifier \o Text(p, e), ctor, FALSE)
        ELSE IF IsConstructor(e, ctor) THEN Literal(e, ctor, ctor, FALSE)
        ELSE NoNode(e, FALSE)
  BY DEF DeclaratorFrom
<1> HIDE DEF e
<1>4. e \in From(p) /\ e \in From(1) /\ e \in Nat /\ q \in Nat /\ p \in Nat /\ e >= q /\ q >= p
  BY <1>1, <1>2, Onward, PlaceType
<1>5. \A a \in Strings : specifier \o a \in Strings
  BY DEF Texts
<1>6. CASE turn /\ Token(e) = "..."
  <2>1. e + 1 \in From(e)
    <3>1. Token(e) \in Symbols
      BY <1>6 DEF Symbols
    <3> QED
      BY <1>4, <3>1, SymbolInside
  <2>2. e + 1 \in From(p) /\ e + 1 > p
    BY <1>4, <2>1, Onward
  <2>3. Text(p, e + 1) \in Strings
    BY <2>2, TextIs
  <2>4. specifier \o Text(p, e + 1) \in Strings
    BY <1>5, <2>3
  <2> QED
    BY <1>3, <1>6, <2>2, <2>4, LiteralIs
<1>7. CASE turn /\ Token(e) = "~"
  <2>1. NodeFrom(Destructor(e, ctor), e)
    BY <1>4, <1>7, DestructorIs
  <2>2. NodeFrom(Destructor(e, ctor), p)
    BY <1>4, <2>1, NodeOnward
  <2> QED
    BY <1>3, <1>7, <2>2
<1>8. CASE ~IsName(e)
  <2>1. e > p
    BY <1>4, <1>8
  <2>2. specifier \o Text(p, e) \in Strings
    BY <1>4, <1>5, <2>1, TextIs
  <2>3. NodeFrom(Literal(e, specifier \o Text(p, e), ctor, FALSE), p)
    BY <1>4, <2>1, <2>2, LiteralIs
  <2> HIDE DEF IsName, turn
  <2> QED
    BY <1>3, <1>6, <1>7, <1>8, <2>3
<1>9. CASE IsConstructor(e, ctor)
  <2>1. ctor \in Strings
    BY <1>4, <1>9, NameInside DEF IsConstructor
  <2>2. NodeFrom(Literal(e, ctor, ctor, FALSE), p)
    BY <1>4, <2>1, LiteralIs
  <2> HIDE DEF IsName, turn
  <2> QED
    BY <1>3, <1>6, <1>7, <1>8, <1>9, <2>2
<1>10. NodeFrom(NoNode(e, FALSE), p)
  BY <1>4, NoNodeIs
<1> HIDE DEF IsName, turn
<1> QED
  BY <1>3, <1>6, <1>7, <1>8, <1>9, <1>10

\* with a specifier in front of it or none.
LEMMA DeclaratorIs ==
  ASSUME Texts, input \in Seq(Strings), NEW p \in From(1), NEW ctor, NEW checkSpecifier \in BOOLEAN
  PROVE  NodeFrom(ParseTypeNodeDeclarator(p, ctor, checkSpecifier), p)
<1>1. p \in From(p)
  BY InputLength DEF From
<1>2. CASE Token(p) = EndOfFile
  BY <1>1, <1>2, NoNodeIs DEF ParseTypeNodeDeclarator
<1>3. CASE Token(p) # EndOfFile /\ checkSpecifier
             /\ Token(p) \in {"class", "struct", "union", "enum", "typename"}
  <2>1. p + 1 \in From(1) /\ p + 1 \in From(p) /\ Token(p) \in Strings
    BY <1>3, TokenInside
  <2>2. NodeFrom(DeclaratorFrom(p + 1, ctor, Token(p)), p)
    BY <2>1, DeclaratorFromIs, NodeOnward
  <2> QED
    BY <1>3, <2>2 DEF ParseTypeNodeDeclarator
<1>4. CASE Token(p) # EndOfFile /\ ~(checkSpecifier
             /\ Token(p) \in {"class", "struct", "union", "enum", "typename"})
  <2>1. "" \in Strings
    BY DEF Texts, OtherWords
  <2>2. NodeFrom(DeclaratorFrom(p, ctor, ""), p)
    BY <2>1, DeclaratorFromIs
  <2> QED
    BY <1>4, <2>2 DEF ParseTypeNodeDeclarator
<1> QED
  BY <1>2, <1>3, <1>4

\* There is a number of tokens.
LEMMA CountIs ==
  ASSUME input \in Seq(Strings), NEW p \in From(1), NEW S
  PROVE  Count(p, S) \in Nat
<1>1. p \in Nat /\ Len(input) \in Nat
  BY InputLength DEF From
<1>2. IsFiniteSet(p .. Len(input))
  BY <1>1, FS_Interval
<1>3. IsFiniteSet({i \in p .. Len(input) : input[i] \in S})
  BY <1>2, FS_Subset
<1> QED
  BY <1>3, FS_CardinalityType DEF Count

\* One indirection makes a type of a type,
LEMMA IndirectedIs ==
  ASSUME Texts, input \in Seq(Strings), NEW p \in From(1), NEW r, NodeFrom(r, p), r.ok
  PROVE  NodeFrom(Indirected(r), p) /\ Indirected(r).ok
<1> DEFINE kind == CASE Token(r.p) = "&"  -> "reference"
                     [] Token(r.p) = "&&" -> "lreference"
                     [] Token(r.p) = "*"  -> "pointer"
                     [] OTHER             -> "none"
           q == Match(r.p + 1, "const")
<1>1. Indirected(r) = IF kind = "none" THEN r ELSE Node(q, kind, "", Visit(kind, "", r.ev))
  BY DEF Indirected
<1>2. kind # "none" => Token(r.p) \in {"&", "&&", "*"} /\ kind \in TypeKinds
  BY DEF TypeKinds
<1> HIDE DEF kind
<1>3. CASE kind = "none"
  BY <1>1, <1>3
<1>4. CASE kind # "none"
  <2>1. r.p \in From(p) /\ r.p \in From(1)
    BY Onward DEF NodeFrom
  <2>2. Token(r.p) \in Symbols
    BY <1>2, <1>4 DEF Symbols
  <2>3. r.p + 1 \in From(1) /\ r.p + 1 \in From(r.p)
    BY <2>1, <2>2, SymbolInside
  <2>4. q \in From(r.p + 1)
    <3>1. EndOfFile \notin {"const"}
      BY DEF EndOfFile
    <3> QED
      BY <2>3, <3>1, MatchPlace DEF Match
  <2>5. q \in From(p) /\ q > p
    <3>1. r.p + 1 \in From(p)
      BY <2>1, <2>3, Onward
    <3>2. q \in From(p) /\ q >= r.p + 1
      BY <2>3, <2>4, <3>1, Onward
    <3> QED
      BY <2>1, <2>3, <2>4, <3>2, PlaceType
  <2>6. "" \in Strings
    BY DEF Texts, OtherWords
  <2>7. IsType(Visit(kind, "", r.ev))
    <3>1. AreTypes(r.ev)
      BY TypeIsTypes DEF NodeFrom
    <3> QED
      BY <1>2, <1>4, <2>6, <3>1, VisitIsType
  <2> HIDE DEF q
  <2> QED
    BY <1>1, <1>2, <1>4, <2>5, <2>6, <2>7, NodeIs
<1> QED
  BY <1>3, <1>4

\* and so does each that follows.
LEMMA IndirectionsIs ==
  ASSUME Texts, input \in Seq(Strings), NEW p \in From(1), NEW r, NodeFrom(r, p), r.ok
  PROVE  NodeFrom(Indirections(r), p) /\ Indirections(r).ok
<1> DEFINE n == Count(r.p, {"&", "&&", "*"})
           V == {t \in NodeRecords : NodeFrom(t, p) /\ t.ok}
           g == [t \in V |-> Indirected(t)]
           f == CHOOSE f : f = [i \in 0 .. n |-> IF i = 0 THEN r ELSE Indirected(f[i - 1])]
<1>1. n \in Nat
  <2>1. r.p \in From(1)
    BY Onward DEF NodeFrom
  <2> QED
    BY <2>1, CountIs
<1>2. r \in V
  BY DEF NodeFrom
<1>3. \A t \in V : Indirected(t) \in V
  <2> SUFFICES ASSUME NEW t \in V PROVE Indirected(t) \in V
    OBVIOUS
  <2>1. NodeFrom(Indirected(t), p) /\ Indirected(t).ok
    BY IndirectedIs
  <2> QED
    BY <2>1 DEF NodeFrom
<1>4. Indirections(r) = f[n]
  BY DEF Indirections
<1> HIDE DEF n, V
<1>5. g \in [V -> V]
  BY <1>3
<1>6. PICK h : Rounds(h, r, g, n) /\ \A i \in 0 .. n : h[i] \in V
  <2> HIDE DEF g
  <2> QED
    BY <1>1, <1>2, <1>5, RoundsExist
<1>7. h = [i \in 0 .. n |-> IF i = 0 THEN r ELSE Indirected(h[i - 1])]
  <2>1. \A i \in 0 .. n :
          (IF i = 0 THEN r ELSE g[h[i - 1]]) = IF i = 0 THEN r ELSE Indirected(h[i - 1])
    <3>1. \A i \in 0 .. n : i # 0 => i - 1 \in 0 .. n
      BY <1>1
    <3> QED
      BY <1>6, <3>1
  <2>2. [i \in 0 .. n |-> IF i = 0 THEN r ELSE g[h[i - 1]]]
          = [i \in 0 .. n |-> IF i = 0 THEN r ELSE Indirected(h[i - 1])]
    <3> HIDE DEF g
    <3> QED
      BY <2>1
  <2> QED
    BY <1>6, <2>2 DEF Rounds
<1>8. f = [i \in 0 .. n |-> IF i = 0 THEN r ELSE Indirected(f[i - 1])]
  BY <1>7
<1> DEFINE e == [i \in 0 .. n |-> IF i = 0 THEN r ELSE Indirected(f[i - 1])]
<1>9. e[0] = r /\ \A i \in 1 .. n : e[i] = Indirected(f[i - 1])
  <2> HIDE DEF f
  <2> QED
    BY <1>1
<1>10. f = e
  BY <1>8
<1> HIDE DEF f, e
<1>11. f[0] \in V /\ \A i \in 1 .. n : f[i - 1] \in V => f[i] \in V
  BY <1>2, <1>3, <1>9, <1>10
<1>12. f[n] \in V
  <2>1. \A i \in 0 .. n : f[i] \in V
    BY <1>1, <1>11, RoundsStay
  <2> QED
    BY <1>1, <2>1
<1> QED
  BY <1>4, <1>12 DEF V

-----------------------------------------------------------------------------
(* Lists.                                                                  *)

\* What a list leaves behind has every property that its first item has and one more item keeps.
LEMMA ListStays ==
  ASSUME input \in Seq(Strings), NEW p \in From(1), NEW item, NEW ctor, NEW types, NEW V,
         ParseItem(item, p, ctor, types) \in V,
         \A r \in V : MoreOfList(r, item, ctor, types) \in V
  PROVE  ParseList(item, p, ctor, types) \in V
<1> DEFINE n == Count(p, {","})
           first == ParseItem(item, p, ctor, types)
           g == [r \in V |-> MoreOfList(r, item, ctor, types)]
           f == CHOOSE f : f = [i \in 0 .. n |-> IF i = 0 THEN first
                                                 ELSE MoreOfList(f[i - 1], item, ctor, types)]
<1>1. n \in Nat
  BY CountIs
<1>2. first \in V
  OBVIOUS
<1>3. ParseList(item, p, ctor, types) = f[n]
  BY DEF ParseList
<1> HIDE DEF n, first
<1>4. g \in [V -> V]
  OBVIOUS
<1>5. PICK h : Rounds(h, first, g, n) /\ \A i \in 0 .. n : h[i] \in V
  <2> HIDE DEF g
  <2> QED
    BY <1>1, <1>2, <1>4, RoundsExist
<1>6. h = [i \in 0 .. n |-> IF i = 0 THEN first ELSE MoreOfList(h[i - 1], item, ctor, types)]
  <2>1. \A i \in 0 .. n :
          (IF i = 0 THEN first ELSE g[h[i - 1]])
            = IF i = 0 THEN first ELSE MoreOfList(h[i - 1], item, ctor, types)
    <3>1. \A i \in 0 .. n : i # 0 => i - 1 \in 0 .. n
      BY <1>1
    <3> QED
      BY <1>5, <3>1
  <2>2. [i \in 0 .. n |-> IF i = 0 THEN first ELSE g[h[i - 1]]]
          = [i \in 0 .. n |-> IF i = 0 THEN first ELSE MoreOfList(h[i - 1], item, ctor, types)]
    <3> HIDE DEF g
    <3> QED
      BY <2>1
  <2> QED
    BY <1>5, <2>2 DEF Rounds
<1>7. f = [i \in 0 .. n |-> IF i = 0 THEN first ELSE MoreOfList(f[i - 1], item, ctor, types)]
  BY <1>6
<1> DEFINE e == [i \in 0 .. n |-> IF i = 0 THEN first ELSE MoreOfList(f[i - 1], item, ctor, types)]
<1>8. e[0] = first /\ \A i \in 1 .. n : e[i] = MoreOfList(f[i - 1], item, ctor, types)
  <2> HIDE DEF f
  <2> QED
    BY <1>1
<1>9. f = e
  BY <1>7
<1> HIDE DEF f, e
<1>10. f[0] \in V /\ \A i \in 1 .. n : f[i - 1] \in V => f[i] \in V
  BY <1>2, <1>8, <1>9
<1>11. f[n] \in V
  <2>1. \A i \in 0 .. n : f[i] \in V
    BY <1>1, <1>10, RoundsStay
  <2> QED
    BY <1>1, <2>1
<1> QED
  BY <1>3, <1>11

Outcomes == [ok : BOOLEAN, p : Nat, err : BOOLEAN, ev : Seq(ParserCalls)]

\* The types there are to be read, with the name c of a constructor or none.
Constructors(c) == {c, ""}
Arguments(c) == From(1) \X Constructors(c) \X BOOLEAN
Tables(c)    == {types \in [Arguments(c) -> NodeRecords] :
                   \A a \in Arguments(c) : NodeFrom(types[a], a[1])}

\* A type may be read with no constructor's name.
LEMMA NoConstructor == \A c : "" \in Constructors(c)
BY DEF Constructors

\* What a table of types holds.
LEMMA TypesAt ==
  ASSUME NEW c, NEW types \in Tables(c), NEW p \in From(1), NEW d \in Constructors(c), NEW b \in BOOLEAN
  PROVE  NodeFrom(types[<<p, d, b>>], p)
<1>1. <<p, d, b>> \in Arguments(c) /\ <<p, d, b>>[1] = p
  BY DEF Arguments
<1> QED
  BY <1>1 DEF Tables

\* The parts of what a routine leaves behind when it is done or fails,
LEMMA DoneIs ==
  ASSUME NEW q \in Nat, NEW ev \in Seq(ParserCalls)
  PROVE  /\ Done(q, ev) \in Outcomes /\ Done(q, ev).ok /\ Done(q, ev).p = q /\ Done(q, ev).ev = ev
         /\ Fail(q, ev) \in Outcomes /\ ~Fail(q, ev).ok /\ Fail(q, ev).p = q /\ Fail(q, ev).ev = ev
         /\ FailError(q, ev) \in Outcomes /\ ~FailError(q, ev).ok
         /\ FailError(q, ev).p = q /\ FailError(q, ev).ev = ev
BY DEF Done, Fail, FailError, Outcomes

\* and behind other calls.
LEMMA ThenIs ==
  ASSUME NEW ev \in Seq(ParserCalls), NEW r \in Outcomes \cup NodeRecords
  PROVE  /\ Then(ev, r) \in Outcomes /\ Then(ev, r).ok = r.ok /\ Then(ev, r).p = r.p
         /\ Then(ev, r).ev = ev \o r.ev
<1>1. ev \o r.ev \in Seq(ParserCalls)
  BY ConcatProperties DEF Outcomes, NodeRecords
<1> QED
  BY <1>1 DEF Then, Outcomes, NodeRecords

\* The name behind a type is a string in the file.
LEMMA NameBehind ==
  ASSUME Texts, input \in Seq(Strings), NEW t, t.p \in From(1)
  PROVE  NameOf(t) \in Strings /\ BehindName(t) \in From(t.p) /\ BehindName(t) \in From(1)
<1>1. t.p \in From(t.p)
  BY InputLength DEF From
<1>2. "" \in Strings
  BY DEF Texts, OtherWords
<1>3. CASE IsIdentifier(t.p)
  BY <1>3, NameInside DEF NameOf, BehindName
<1>4. CASE ~IsIdentifier(t.p)
  BY <1>1, <1>2, <1>4 DEF NameOf, BehindName
<1> QED
  BY <1>3, <1>4

\* The arguments of a type, which are types.
TypeList(p) ==
  {r \in Outcomes \cup NodeRecords : r.p \in From(p) /\ (r.ok => AreTypes(r.ev))}

\* A type alone is a list of them.
LEMMA NodeInList ==
  ASSUME NEW p, NEW t, NodeFrom(t, p)
  PROVE  t \in TypeList(p)
BY TypeIsTypes DEF NodeFrom, TypeList

\* An argument of a function type is a type.
LEMMA ParameterIs ==
  ASSUME Texts, input \in Seq(Strings), NEW p \in From(1), NEW t, NodeFrom(t, p)
  PROVE  Parameter(t) \in TypeList(p)
<1>1. t.p \in From(p) /\ t.p \in From(1) /\ t.p \in Nat
  BY Onward DEF NodeFrom, NodeRecords
<1>2. CASE ~t.ok
  BY <1>2, NodeInList DEF Parameter
<1>3. CASE t.ok /\ Token(t.p) = EndOfFile
  <2>1. FailError(t.p, <<>>) \in TypeList(p)
    <3>1. <<>> \in Seq(ParserCalls)
      BY EmptySeq
    <3>2. /\ FailError(t.p, <<>>) \in Outcomes /\ ~FailError(t.p, <<>>).ok
          /\ FailError(t.p, <<>>).p = t.p
      BY <1>1, <3>1, DoneIs
    <3> QED
      BY <1>1, <3>2 DEF TypeList
  <2> QED
    BY <1>3, <2>1 DEF Parameter
<1>4. CASE t.ok /\ Token(t.p) # EndOfFile
  <2>1. NameOf(t) \in Strings /\ BehindName(t) \in From(t.p) /\ BehindName(t) \in From(1)
    BY <1>1, NameBehind
  <2>2. BehindName(t) \in From(p) /\ BehindName(t) \in Nat
    BY <1>1, <2>1, Onward, PlaceType
  <2>3. IsType(VisitNamed(t.ev, NameOf(t)))
    BY <1>4, <2>1, VisitNamedIsType DEF NodeFrom
  <2>4. AreTypes(VisitNamed(t.ev, NameOf(t))) /\ VisitNamed(t.ev, NameOf(t)) \in Seq(ParserCalls)
    BY <2>3, TypeIsTypes, TypeRuns
  <2>5. Done(BehindName(t), VisitNamed(t.ev, NameOf(t))) \in TypeList(p)
    BY <2>2, <2>4, DoneIs DEF TypeList
  <2> QED
    BY <1>4, <2>5 DEF Parameter
<1> QED
  BY <1>2, <1>3, <1>4

\* So is each item of the lists of types,
LEMMA TypeItemIs ==
  ASSUME Texts, input \in Seq(Strings), NEW c, NEW types \in Tables(c),
         NEW item \in {"templateType", "parameter"}, NEW ctor \in Constructors(c), NEW p \in From(1)
  PROVE  ParseItem(item, p, ctor, types) \in TypeList(p)
<1>1. CASE item = "templateType"
  <2>1. NodeFrom(types[<<p, ctor, TRUE>>], p)
    BY TypesAt
  <2>2. types[<<p, ctor, TRUE>>] \in TypeList(p)
    BY <2>1, NodeInList
  <2> QED
    BY <1>1, <2>2 DEF ParseItem
<1>2. CASE item = "parameter"
  <2>1. NodeFrom(types[<<p, "", TRUE>>], p)
    BY NoConstructor, TypesAt
  <2>2. Parameter(types[<<p, "", TRUE>>]) \in TypeList(p)
    BY <2>1, ParameterIs
  <2> QED
    BY <1>2, <2>2 DEF ParseItem
<1> QED
  BY <1>1, <1>2

\* and a list of them is types.
LEMMA TypeListIs ==
  ASSUME Texts, input \in Seq(Strings), NEW c, NEW types \in Tables(c),
         NEW item \in {"templateType", "parameter"}, NEW ctor \in Constructors(c), NEW p \in From(1)
  PROVE  ParseList(item, p, ctor, types) \in TypeList(p)
<1>1. ParseItem(item, p, ctor, types) \in TypeList(p)
  BY TypeItemIs
<1>2. ASSUME NEW r \in TypeList(p)
      PROVE  MoreOfList(r, item, ctor, types) \in TypeList(p)
  <2>1. CASE ~(r.ok /\ Token(r.p) = ",")
    BY <2>1 DEF MoreOfList
  <2>2. CASE r.ok /\ Token(r.p) = ","
    <3> DEFINE next == ParseItem(item, r.p + 1, ctor, types)
    <3>1. r.p \in From(p) /\ r.p \in From(1) /\ AreTypes(r.ev) /\ r.ev \in Seq(ParserCalls)
      BY <2>2, Onward DEF TypeList, AreTypes
    <3>2. r.p + 1 \in From(1) /\ r.p + 1 \in From(p)
      <4>1. Token(r.p) \in Symbols
        BY <2>2 DEF Symbols
      <4> QED
        BY <3>1, <4>1, SymbolInside, Onward
    <3>3. next \in TypeList(r.p + 1)
      BY <3>2, TypeItemIs
    <3> HIDE DEF next
    <3>4. next.p \in From(p)
      BY <3>2, <3>3, Onward DEF TypeList
    <3>5. /\ Then(r.ev, next) \in Outcomes /\ Then(r.ev, next).ok = next.ok
          /\ Then(r.ev, next).p = next.p /\ Then(r.ev, next).ev = r.ev \o next.ev
      BY <3>1, <3>3, ThenIs DEF TypeList
    <3>6. next.ok => AreTypes(r.ev \o next.ev)
      BY <3>1, <3>3, TypesBoth DEF TypeList
    <3>7. Then(r.ev, next) \in TypeList(p)
      BY <3>4, <3>5, <3>6 DEF TypeList
    <3> QED
      BY <2>2, <3>7 DEF MoreOfList, next
  <2> QED
    BY <2>1, <2>2
<1> QED
  BY <1>1, <1>2, ListStays

\* A template with its arguments is a type,
LEMMA TemplateNodeIs ==
  ASSUME Texts, input \in Seq(Strings), NEW c, NEW types \in Tables(c), NEW p \in From(1),
         NEW args \in TypeList(p), NEW name \in Strings
  PROVE  NodeFrom(TemplateNode(args, name, types), p)
<1>1. args.p \in From(p) /\ args.p \in From(1) /\ args.err \in BOOLEAN
  BY Onward DEF TypeList, Outcomes, NodeRecords
<1>2. CASE ~args.ok
  BY <1>1, <1>2, NoNodeIs DEF TemplateNode
<1>3. CASE args.ok /\ Token(args.p) # ">"
  BY <1>1, <1>3, NoNodeIs DEF TemplateNode
<1>4. CASE args.ok /\ Token(args.p) = ">"
  <2>1. args.p + 1 \in From(1) /\ args.p + 1 \in From(p) /\ args.p + 1 > p
    <3>1. Token(args.p) \in Symbols
      BY <1>4 DEF Symbols
    <3>2. args.p + 1 \in From(1) /\ args.p + 1 \in From(args.p)
      BY <1>1, <3>1, SymbolInside
    <3> QED
      BY <1>1, <3>2, Onward, PlaceType
  <2>2. CASE Token(args.p + 1) = "::"
    <3> DEFINE sel == types[<<args.p + 2, "", TRUE>>]
    <3>1. args.p + 2 \in From(1) /\ args.p + 2 \in From(p)
      <4>1. Token(args.p + 1) \in Symbols
        BY <2>2 DEF Symbols
      <4>2. args.p + 1 + 1 \in From(1) /\ args.p + 1 + 1 \in From(args.p + 1)
        BY <2>1, <4>1, SymbolInside
      <4>3. args.p + 1 + 1 = args.p + 2
        BY <1>1, PlaceType
      <4> QED
        BY <2>1, <4>2, <4>3, Onward
    <3>2. NodeFrom(sel, args.p + 2)
      BY <3>1, NoConstructor, TypesAt
    <3>3. NodeFrom(sel, p)
      BY <3>1, <3>2, NodeOnward
    <3>4. TemplateNode(args, name, types) = Selector(sel)
      BY <1>4, <2>2 DEF TemplateNode
    <3> HIDE DEF sel
    <3>5. NodeFrom(Selector(sel), p)
      <4>1. CASE sel.ok
        BY <3>3, <4>1 DEF Selector
      <4>2. CASE ~sel.ok
        <5>1. sel.p \in From(p)
          BY <3>3 DEF NodeFrom
        <5> QED
          BY <4>2, <5>1, NoNodeIs DEF Selector
      <4> QED
        BY <4>1, <4>2
    <3> QED
      BY <3>4, <3>5
  <2>3. CASE Token(args.p + 1) # "::"
    <3>1. AreTypes(args.ev) /\ "template" \in TypeKinds
      BY <1>4 DEF TypeList, TypeKinds
    <3>2. IsType(Visit("template", name, args.ev))
      BY <3>1, VisitIsType
    <3>3. NodeFrom(Node(args.p + 1, "template", name, Visit("template", name, args.ev)), p)
      BY <2>1, <3>1, <3>2, NodeIs
    <3> QED
      BY <1>4, <2>3, <3>3 DEF TemplateNode
  <2> QED
    BY <2>2, <2>3
<1> QED
  BY <1>2, <1>3, <1>4

\* and so is a function type with its arguments,
LEMMA FunctionNodeIs ==
  ASSUME Texts, input \in Seq(Strings), NEW p \in From(1), NEW args \in TypeList(p),
         NEW kind \in {"function", "functionPointer"}, NEW name \in Strings,
         NEW r, NodeFrom(r, p), r.ok
  PROVE  NodeFrom(FunctionNode(args, kind, name, r), p)
<1>1. args.p \in From(p) /\ args.p \in From(1) /\ args.err \in BOOLEAN
  BY Onward DEF TypeList, Outcomes, NodeRecords
<1>2. CASE ~args.ok
  BY <1>1, <1>2, NoNodeIs DEF FunctionNode
<1>3. CASE args.ok /\ Token(args.p) # ")"
  BY <1>1, <1>3, NoNodeIs DEF FunctionNode
<1>4. CASE args.ok /\ Token(args.p) = ")"
  <2>1. args.p + 1 \in From(p) /\ args.p + 1 > p
    <3>1. Token(args.p) \in Symbols
      BY <1>4 DEF Symbols
    <3>2. args.p + 1 \in From(1) /\ args.p + 1 \in From(args.p)
      BY <1>1, <3>1, SymbolInside
    <3> QED
      BY <1>1, <3>2, Onward, PlaceType
  <2>2. AreTypes(r.ev \o args.ev) /\ kind \in TypeKinds
    <3>1. AreTypes(r.ev) /\ AreTypes(args.ev)
      BY <1>4, TypeIsTypes DEF TypeList, NodeFrom
    <3> QED
      BY <3>1, TypesBoth DEF TypeKinds
  <2>3. IsType(Visit(kind, name, r.ev \o args.ev))
    BY <2>2, VisitIsType
  <2>4. NodeFrom(Node(args.p + 1, kind, name, Visit(kind, name, r.ev \o args.ev)), p)
    BY <2>1, <2>2, <2>3, NodeIs
  <2> QED
    BY <1>4, <2>4 DEF FunctionNode
<1> QED
  BY <1>2, <1>3, <1>4

\* which are in the first parentheses or the second.
LEMMA ParseFunctionNodeIs ==
  ASSUME Texts, input \in Seq(Strings), NEW c, NEW types \in Tables(c), NEW p \in From(1),
         NEW q \in From(p), NEW r, NodeFrom(r, p), r.ok
  PROVE  NodeFrom(ParseFunctionNode(q, r, types), p)
<1> DEFINE star  == Match(q, "*")
           named == IsIdentifier(star)
           close == Match(star + 1, ")")
           open  == IF ~named THEN star
                    ELSE IF close > star + 1 THEN Match(close, "(") ELSE close
           args  == IF Token(open) = ")" THEN Done(open, <<>>)
                                         ELSE ParseList("parameter", open, "", types)
           kind  == IF star > q THEN "functionPointer" ELSE "function"
           name  == IF named THEN Token(star) ELSE ""
<1>0. EndOfFile \notin {"*"} /\ EndOfFile \notin {")"} /\ EndOfFile \notin {"("}
  BY DEF EndOfFile
<1>1. star \in From(p) /\ star \in From(1)
  <2>1. q \in From(1)
    BY Onward
  <2>2. star \in From(q) /\ star \in From(1)
    BY <1>0, <2>1, MatchPlace DEF Match
  <2> QED
    BY <2>1, <2>2, Onward
<1>2. ParseFunctionNode(q, r, types) = FunctionNode(args, kind, name, r)
  BY DEF ParseFunctionNode
<1>3. name \in Strings
  <2>1. "" \in Strings
    BY DEF Texts, OtherWords
  <2> HIDE DEF star
  <2> QED
    BY <1>1, <2>1, NameInside
<1>4. open \in From(p) /\ open \in From(1)
  <2> HIDE DEF star
  <2>1. CASE ~named
    BY <1>1, <2>1
  <2>2. CASE named
    <3>1. star + 1 \in From(1) /\ star + 1 \in From(star)
      BY <1>1, <2>2, NameInside
    <3>2. close \in From(star + 1) /\ close \in From(1)
      BY <1>0, <3>1, MatchPlace DEF Match
    <3>3. close \in From(p)
      BY <1>1, <3>1, <3>2, Onward
    <3> HIDE DEF close
    <3>4. Match(close, "(") \in From(close) /\ Match(close, "(") \in From(1)
      BY <1>0, <3>2, MatchPlace DEF Match
    <3>5. Match(close, "(") \in From(p)
      BY <3>2, <3>3, <3>4, Onward
    <3> QED
      BY <2>2, <3>2, <3>3, <3>4, <3>5
  <2> QED
    BY <2>1, <2>2
<1>5. kind \in {"function", "functionPointer"}
  OBVIOUS
<1> HIDE DEF kind, name, open
<1>6. args \in TypeList(p)
  <2>1. CASE Token(open) = ")"
    <3>1. <<>> \in Seq(ParserCalls) /\ open \in Nat
      BY <1>4, EmptySeq, PlaceType
    <3>2. Done(open, <<>>) \in TypeList(p)
      BY <1>4, <3>1, TypesNone, DoneIs DEF TypeList
    <3> QED
      BY <2>1, <3>2
  <2>2. CASE Token(open) # ")"
    <3>1. ParseList("parameter", open, "", types) \in TypeList(open)
      BY <1>4, NoConstructor, TypeListIs
    <3>2. \A i \in From(open) : i \in From(p)
      BY <1>4, Onward
    <3>3. ParseList("parameter", open, "", types) \in TypeList(p)
      BY <3>1, <3>2 DEF TypeList
    <3> QED
      BY <2>2, <3>3
  <2> QED
    BY <2>1, <2>2
<1> HIDE DEF args
<1> QED
  BY <1>2, <1>3, <1>5, <1>6, FunctionNodeIs

\* What follows a type makes another of it,
LEMMA WithIndirectionsIs ==
  ASSUME Texts, input \in Seq(Strings), NEW c, NEW types \in Tables(c), NEW p \in From(1),
         NEW r, NodeFrom(r, p)
  PROVE  NodeFrom(WithIndirections(r, types), p)
<1>1. CASE ~r.ok
  BY <1>1 DEF WithIndirections
<1>2. CASE r.ok
  <2> DEFINE t == Indirections(r)
  <2>1. NodeFrom(t, p) /\ t.ok
    BY <1>2, IndirectionsIs
  <2>2. WithIndirections(r, types) = WithArguments(t, types)
    BY <1>2 DEF WithIndirections
  <2> HIDE DEF t
  <2>3. CASE Token(t.p) # "("
    BY <2>1, <2>2, <2>3 DEF WithArguments
  <2>4. CASE Token(t.p) = "("
    <3>1. t.p + 1 \in From(p)
      <4>1. t.p \in From(p) /\ t.p \in From(1)
        BY <2>1, Onward DEF NodeFrom
      <4>2. Token(t.p) \in Symbols
        BY <2>4 DEF Symbols
      <4> QED
        BY <4>1, <4>2, SymbolInside, Onward
    <3>2. NodeFrom(ParseFunctionNode(t.p + 1, t, types), p)
      BY <2>1, <3>1, ParseFunctionNodeIs
    <3> QED
      BY <2>2, <2>4, <3>2 DEF WithArguments
  <2> QED
    BY <2>3, <2>4
<1> QED
  BY <1>1, <1>2

\* and what follows its name,
LEMMA DeclaredIs ==
  ASSUME Texts, input \in Seq(Strings), NEW c, NEW types \in Tables(c), NEW p \in From(1),
         NEW ctor \in Constructors(c), NEW d, NodeFrom(d, p), NEW q \in From(d.p)
  PROVE  NodeFrom(Declared(d, q, ctor, types), p)
<1>1. d.p \in From(p) /\ d.p \in From(1) /\ q \in From(p) /\ q \in From(1)
  BY Onward DEF NodeFrom
<1>2. CASE ~d.ok
  BY <1>2 DEF Declared
<1>3. CASE d.ok /\ Token(q) = "<"
  <2> DEFINE args == ParseList("templateType", q + 1, ctor, types)
  <2>1. q + 1 \in From(1) /\ q + 1 \in From(p)
    <3>1. Token(q) \in Symbols
      BY <1>3 DEF Symbols
    <3> QED
      BY <1>1, <3>1, SymbolInside, Onward
  <2>2. args \in TypeList(p)
    <3>1. args \in TypeList(q + 1)
      BY <2>1, TypeListIs
    <3>2. \A i \in From(q + 1) : i \in From(p)
      BY <2>1, Onward
    <3> HIDE DEF args
    <3> QED
      BY <3>1, <3>2 DEF TypeList
  <2>3. d.name \in Strings
    BY DEF NodeFrom, NodeRecords
  <2>4. Declared(d, q, ctor, types) = WithIndirections(TemplateNode(args, d.name, types), types)
    BY <1>3 DEF Declared
  <2> HIDE DEF args
  <2>5. NodeFrom(TemplateNode(args, d.name, types), p)
    BY <2>2, <2>3, TemplateNodeIs
  <2> QED
    BY <2>4, <2>5, WithIndirectionsIs
<1>4. CASE d.ok /\ Token(q) # "<"
  <2>0. q \in Nat /\ (d.p > p => q > p)
    <3>1. d.p \in Nat /\ q \in Nat /\ q >= d.p
      BY <1>1, PlaceType
    <3>2. p \in Nat
      BY Here
    <3> QED
      BY <3>1, <3>2
  <2> DEFINE t == [d EXCEPT !.p = q]
  <2>1. NodeFrom(t, p)
    <3>2. /\ t \in NodeRecords /\ t.p = q /\ t.ok = d.ok /\ t.ev = d.ev /\ t.kind = d.kind
      BY <2>0 DEF NodeFrom, NodeRecords
    <3> HIDE DEF t
    <3> QED
      BY <1>1, <1>4, <2>0, <3>2 DEF NodeFrom
  <2>2. \/ Declared(d, q, ctor, types) = t
        \/ Declared(d, q, ctor, types) = WithIndirections(t, types)
    BY <1>4 DEF Declared
  <2> HIDE DEF t
  <2> QED
    BY <2>1, <2>2, WithIndirectionsIs
<1> QED
  BY <1>2, <1>3, <1>4

\* so that ParseTypeNode leaves a type behind if it did one level down.
LEMMA ParseTypeNodeIs ==
  ASSUME Texts, input \in Seq(Strings), NEW c, NEW types \in Tables(c), NEW p \in From(1),
         NEW ctor \in Constructors(c), NEW checkSpecifier \in BOOLEAN
  PROVE  NodeFrom(ParseTypeNode(p, ctor, checkSpecifier, types), p)
<1> DEFINE q == MatchEach(p, {"const", "volatile", "mutable"})
           a == ParseArithmetic(q)
           d == IF a > q THEN Literal(a, Joined(q, a), ctor, FALSE)
                ELSE ParseTypeNodeDeclarator(q, ctor, checkSpecifier)
           const == Given(p, q, "const")
           m == IF const THEN d.p ELSE Match(d.p, "const")
<1>1. q \in From(p) /\ q \in From(1)
  BY MatchEachPlace
<1>2. ParseTypeNode(p, ctor, checkSpecifier, types) = Declared(d, m, ctor, types)
  BY DEF ParseTypeNode, Qualified
<1> HIDE DEF q
<1>3. a \in From(q)
  BY <1>1, ArithmeticPlace
<1> HIDE DEF a
<1>4. NodeFrom(d, q)
  <2>1. CASE a > q
    <3>1. Joined(q, a) \in Strings
      BY <1>1, <1>3, <2>1, PlaceType, JoinedIs
    <3>2. NodeFrom(Literal(a, Joined(q, a), ctor, FALSE), q)
      BY <1>1, <1>3, <2>1, <3>1, LiteralIs
    <3> QED
      BY <2>1, <3>2
  <2>2. CASE ~(a > q)
    BY <1>1, <2>2, DeclaratorIs
  <2> QED
    BY <2>1, <2>2
<1> HIDE DEF d, const
<1>5. NodeFrom(d, p)
  BY <1>1, <1>4, NodeOnward
<1>6. m \in From(d.p)
  <2>1. d.p \in From(1)
    BY <1>5, Onward DEF NodeFrom
  <2>2. EndOfFile \notin {"const"}
    BY DEF EndOfFile
  <2>3. Match(d.p, "const") \in From(d.p)
    BY <2>1, <2>2, MatchPlace DEF Match
  <2>4. d.p \in From(d.p)
    BY <2>1, Here
  <2> QED
    BY <2>3, <2>4
<1> HIDE DEF m
<1> QED
  BY <1>2, <1>5, <1>6, DeclaredIs

\* What is read on every level is a type or nothing.
LEMMA TypesIs ==
  ASSUME Texts, input \in Seq(Strings), NEW c
  PROVE  Types(c) \in Tables(c)
<1> DEFINE n == Count(1, {"<", "("}) + 1
           A == Arguments(c)
           none == [a \in A |-> NoNode(a[1], FALSE)]
           Read(types) == [a \in A |-> ParseTypeNode(a[1], a[2], a[3], types)]
           V == Tables(c)
           g == [types \in V |-> Read(types)]
           f == CHOOSE f : f = [i \in 0 .. n |->
                  [a \in (1 .. Len(input) + 1) \X {c, ""} \X BOOLEAN |->
                     IF i = 0 THEN NoNode(a[1], FALSE) ELSE ParseTypeNode(a[1], a[2], a[3], f[i - 1])]]
<1>1. n \in Nat
  <2>1. 1 \in From(1)
    BY InputLength DEF From
  <2> QED
    BY <2>1, CountIs
<1>2. none \in V
  <2>1. ASSUME NEW a \in A
        PROVE  NodeFrom(NoNode(a[1], FALSE), a[1]) /\ NoNode(a[1], FALSE) \in NodeRecords
    <3>1. a[1] \in From(1)
      BY DEF Arguments
    <3>2. a[1] \in From(a[1])
      BY <3>1, InputLength DEF From
    <3>3. NodeFrom(NoNode(a[1], FALSE), a[1])
      BY <3>1, <3>2, NoNodeIs
    <3> QED
      BY <3>3 DEF NodeFrom
  <2> HIDE DEF A
  <2> QED
    BY <2>1 DEF Tables, A
<1>3. \A types \in V : Read(types) \in V
  <2> SUFFICES ASSUME NEW types \in V PROVE Read(types) \in V
    OBVIOUS
  <2>1. ASSUME NEW a \in A
        PROVE  /\ NodeFrom(ParseTypeNode(a[1], a[2], a[3], types), a[1])
               /\ ParseTypeNode(a[1], a[2], a[3], types) \in NodeRecords
    <3>1. a[1] \in From(1) /\ a[2] \in Constructors(c) /\ a[3] \in BOOLEAN
      BY DEF Arguments
    <3>2. NodeFrom(ParseTypeNode(a[1], a[2], a[3], types), a[1])
      BY <3>1, ParseTypeNodeIs
    <3> QED
      BY <3>2 DEF NodeFrom
  <2> HIDE DEF A
  <2> QED
    BY <2>1 DEF Tables, A
<1>4. Types(c) = f[n]
  BY DEF Types
<1>5. (1 .. Len(input) + 1) \X {c, ""} \X BOOLEAN = A
  BY DEF Arguments, Constructors, From
<1> HIDE DEF n, V, A
<1>6. g \in [V -> V]
  BY <1>3
<1>7. PICK h : Rounds(h, none, g, n) /\ \A i \in 0 .. n : h[i] \in V
  <2> HIDE DEF g, none
  <2> QED
    BY <1>1, <1>2, <1>6, RoundsExist
<1> DEFINE Level(k, i) ==
             [a \in (1 .. Len(input) + 1) \X {c, ""} \X BOOLEAN |->
                IF i = 0 THEN NoNode(a[1], FALSE) ELSE ParseTypeNode(a[1], a[2], a[3], k[i - 1])]
<1>8. \A k, i : Level(k, i) = IF i = 0 THEN none ELSE Read(k[i - 1])
  <2> SUFFICES ASSUME NEW k, NEW i PROVE Level(k, i) = IF i = 0 THEN none ELSE Read(k[i - 1])
    OBVIOUS
  <2>1. CASE i = 0
    BY <1>5, <2>1
  <2>2. CASE i # 0
    BY <1>5, <2>2
  <2> QED
    BY <2>1, <2>2
<1>9. h = [i \in 0 .. n |-> Level(h, i)]
  <2>1. \A i \in 0 .. n : (IF i = 0 THEN none ELSE g[h[i - 1]]) = Level(h, i)
    <3>1. \A i \in 0 .. n : i # 0 => i - 1 \in 0 .. n
      BY <1>1
    <3>2. \A v \in V : g[v] = Read(v)
      OBVIOUS
    <3> HIDE DEF g, none, Level, Read
    <3> QED
      BY <1>7, <1>8, <3>1, <3>2
  <2>2. [i \in 0 .. n |-> IF i = 0 THEN none ELSE g[h[i - 1]]] = [i \in 0 .. n |-> Level(h, i)]
    <3> HIDE DEF g, none, Level
    <3> QED
      BY <2>1
  <2> QED
    BY <1>7, <2>2 DEF Rounds
<1>10. f = [i \in 0 .. n |-> Level(f, i)]
  BY <1>9
<1> DEFINE e == [i \in 0 .. n |-> Level(f, i)]
<1>11. \A i \in 0 .. n : e[i] = Level(f, i)
  <2> HIDE DEF f, Level
  <2> QED
    OBVIOUS
<1>12. f = e
  BY <1>10
<1> HIDE DEF f, e, Level, none, Read
<1>13. f[0] \in V /\ \A i \in 1 .. n : f[i - 1] \in V => f[i] \in V
  <2>1. 0 \in 0 .. n /\ \A i \in 1 .. n : i \in 0 .. n /\ i # 0
    BY <1>1
  <2>2. f[0] = none
    BY <1>8, <1>11, <1>12, <2>1
  <2>3. \A i \in 1 .. n : f[i] = Read(f[i - 1])
    BY <1>8, <1>11, <1>12, <2>1
  <2> QED
    BY <1>2, <1>3, <2>2, <2>3
<1>14. f[n] \in V
  <2>1. \A i \in 0 .. n : f[i] \in V
    BY <1>1, <1>13, RoundsStay
  <2> QED
    BY <1>1, <2>1
<1> QED
  BY <1>4, <1>14 DEF V

-----------------------------------------------------------------------------
(* The calls of declarations.                                              *)

IsKind(kind) == kind \in TypeKinds \/ kind \in OtherWords

\* What the third part of a call may be.
LEMMA SomeKinds ==
  /\ IsKind("") /\ IsKind("=") /\ IsKind("default") /\ IsKind("forward") /\ IsKind("defined")
  /\ \A token \in AccessSpecifiers : IsKind(token)
  /\ \A token \in {"class", "struct", "union"} : IsKind(token)
BY DEF IsKind, OtherWords, AccessSpecifiers

\* The parts of a call.
LEMMA CallParts ==
  ASSUME Texts, NEW op \in Operations, op # "begin", op # "end",
         NEW name \in Strings, NEW kind, IsKind(kind)
  PROVE  /\ Call(op, name, kind) \in ParserCalls
         /\ Call(op, name, kind)[1] = op /\ Call(op, name, kind)[3] = kind
BY IsCall DEF IsKind

\* Calls that neither take types nor open or close anything,
LEMMA NeutralLeads ==
  ASSUME Texts, NEW op \in {"access", "enumValue", "arraySubscript"},
         NEW name \in Strings, NEW kind, IsKind(kind), NEW n \in Nat
  PROVE  Leads(<<Call(op, name, kind)>>, n, n, 0, 0)
<1> DEFINE c == Call(op, name, kind)
<1>1. op \in Operations /\ op # "begin" /\ op # "end"
  BY DEF Operations
<1>2. c \in ParserCalls /\ c[1] = op
  BY <1>1, CallParts
<1> HIDE DEF c
<1>3. printer!Takes(c) = 0 /\ Deeper(c) = 0 /\ OthersBy(c) = 0
  BY <1>2 DEF printer!Takes, Deeper, OthersBy, ElementOpening, ElementClosing, OtherOpening,
              OtherClosing
<1>4. c[1] \notin TypeCalls /\ c[1] # "friend_"
  BY <1>2 DEF TypeCalls
<1>5. Leads(<<c>>, 0 + n, n, 0, 0)
  BY <1>2, <1>3, <1>4, LeadsCall
<1> QED
  BY <1>5 DEF c

\* that take the types in front of them,
LEMMA TakingLeads ==
  ASSUME Texts, NEW op \in {"functionArgument", "baseType", "friend_", "using_", "templateArgument"},
         NEW name \in Strings, NEW kind, IsKind(kind)
  PROVE  /\ Leads(<<Call(op, name, kind)>>, 2, 0, 0, 0)
         /\ (kind # "=" /\ kind # "default") => Leads(<<Call(op, name, kind)>>, 1, 0, 0, 0)
<1> DEFINE c == Call(op, name, kind)
<1>1. op \in Operations /\ op # "begin" /\ op # "end"
  BY DEF Operations
<1>2. c \in ParserCalls /\ c[1] = op /\ c[3] = kind
  BY <1>1, CallParts
<1> HIDE DEF c
<1>3. Deeper(c) = 0 /\ OthersBy(c) = 0
  BY <1>2 DEF Deeper, OthersBy, ElementOpening, ElementClosing, OtherOpening, OtherClosing
<1>4. /\ printer!Takes(c) \in 1 .. 2
      /\ (kind # "=" /\ kind # "default") => printer!Takes(c) = 1
  BY <1>2 DEF printer!Takes
<1>5. c[1] \notin TypeCalls
  BY <1>2 DEF TypeCalls
<1>6. Leads(<<c>>, printer!Takes(c) + 0, 0, 0, 0)
  BY <1>2, <1>3, <1>5, LeadsCall
<1>7. Leads(<<c>>, 2, 0, 0, 0)
  BY <1>4, <1>6, LeadsWeaker
<1>8. (kind # "=" /\ kind # "default") => Leads(<<c>>, 1, 0, 0, 0)
  BY <1>4, <1>6
<1> QED
  BY <1>7, <1>8 DEF c

\* that open an element or another bracket,
LEMMA OpeningLeads ==
  ASSUME Texts, NEW name \in Strings, NEW kind, IsKind(kind)
  PROVE  /\ \A op \in {"beginTypedef", "beginProperty", "beginFunction"} :
               Leads(<<Call(op, name, kind)>>, 1, 0, 1, 0)
         /\ \A op \in {"beginNamespace", "beginClass"} :
               Leads(<<Call(op, name, kind)>>, 0, 0, 1, 0)
         /\ \A op \in {"beginTemplate", "beginEnum"} :
               Leads(<<Call(op, name, kind)>>, 0, 0, 0, 1)
<1>1. ASSUME NEW op \in {"beginTypedef", "beginProperty", "beginFunction", "beginNamespace",
                         "beginClass", "beginTemplate", "beginEnum"}
      PROVE  /\ Call(op, name, kind) \in ParserCalls /\ Call(op, name, kind)[1] = op
             /\ op \notin TypeCalls /\ op # "friend_"
  <2>1. op \in Operations /\ op # "begin" /\ op # "end"
    BY DEF Operations
  <2>2. Call(op, name, kind) \in ParserCalls /\ Call(op, name, kind)[1] = op
    BY <2>1, CallParts
  <2> QED
    BY <2>2 DEF TypeCalls
<1>2. ASSUME NEW op \in {"beginTypedef", "beginProperty", "beginFunction"}
      PROVE  Leads(<<Call(op, name, kind)>>, 1, 0, 1, 0)
  <2> DEFINE c == Call(op, name, kind)
  <2>1. c \in ParserCalls /\ c[1] = op /\ c[1] \notin TypeCalls /\ c[1] # "friend_"
    BY <1>1
  <2> HIDE DEF c
  <2>2. printer!Takes(c) = 1 /\ Deeper(c) = 1 /\ OthersBy(c) = 0
    BY <2>1 DEF printer!Takes, Deeper, OthersBy, ElementOpening, ElementClosing, OtherOpening,
                OtherClosing
  <2>3. Leads(<<c>>, 1 + 0, 0, 1, 0)
    BY <2>1, <2>2, LeadsCall
  <2> QED
    BY <2>3 DEF c
<1>3. ASSUME NEW op \in {"beginNamespace", "beginClass"}
      PROVE  Leads(<<Call(op, name, kind)>>, 0, 0, 1, 0)
  <2> DEFINE c == Call(op, name, kind)
  <2>1. c \in ParserCalls /\ c[1] = op /\ c[1] \notin TypeCalls /\ c[1] # "friend_"
    BY <1>1
  <2> HIDE DEF c
  <2>2. printer!Takes(c) = 0 /\ Deeper(c) = 1 /\ OthersBy(c) = 0
    BY <2>1 DEF printer!Takes, Deeper, OthersBy, ElementOpening, ElementClosing, OtherOpening,
                OtherClosing
  <2>3. Leads(<<c>>, 0 + 0, 0, 1, 0)
    BY <2>1, <2>2, LeadsCall
  <2> QED
    BY <2>3 DEF c
<1>4. ASSUME NEW op \in {"beginTemplate", "beginEnum"}
      PROVE  Leads(<<Call(op, name, kind)>>, 0, 0, 0, 1)
  <2> DEFINE c == Call(op, name, kind)
  <2>1. c \in ParserCalls /\ c[1] = op /\ c[1] \notin TypeCalls /\ c[1] # "friend_"
    BY <1>1
  <2> HIDE DEF c
  <2>2. printer!Takes(c) = 0 /\ Deeper(c) = 0 /\ OthersBy(c) = 1
    BY <2>1 DEF printer!Takes, Deeper, OthersBy, ElementOpening, ElementClosing, OtherOpening,
                OtherClosing
  <2>3. Leads(<<c>>, 0 + 0, 0, 0, 1)
    BY <2>1, <2>2, LeadsCall
  <2> QED
    BY <2>3 DEF c
<1> QED
  BY <1>2, <1>3, <1>4

\* and that close one.
LEMMA ClosingLeads ==
  ASSUME Texts, NEW name \in Strings, NEW kind, IsKind(kind)
  PROVE  /\ \A op \in ElementClosing : Leads(<<Call(op, name, kind)>>, 0, 0, -1, 0)
         /\ \A op \in {"endTemplate", "endEnum"} : Leads(<<Call(op, name, kind)>>, 0, 0, 0, -1)
<1>1. ASSUME NEW op, op \in ElementClosing \/ op \in {"endTemplate", "endEnum"}
      PROVE  /\ Call(op, name, kind) \in ParserCalls /\ Call(op, name, kind)[1] = op
             /\ op \notin TypeCalls /\ op # "friend_"
  <2>1. op \in Operations /\ op # "begin" /\ op # "end"
    BY <1>1 DEF Operations, ElementClosing
  <2>2. Call(op, name, kind) \in ParserCalls /\ Call(op, name, kind)[1] = op
    BY <2>1, CallParts
  <2> QED
    BY <1>1, <2>2 DEF TypeCalls, ElementClosing
<1>2. ASSUME NEW op \in ElementClosing
      PROVE  Leads(<<Call(op, name, kind)>>, 0, 0, -1, 0)
  <2> DEFINE c == Call(op, name, kind)
  <2>1. c \in ParserCalls /\ c[1] = op /\ c[1] \notin TypeCalls /\ c[1] # "friend_"
    BY <1>1
  <2> HIDE DEF c
  <2>2. printer!Takes(c) = 0 /\ Deeper(c) = -1 /\ OthersBy(c) = 0
    BY <2>1 DEF printer!Takes, Deeper, OthersBy, ElementOpening, ElementClosing, OtherOpening,
                OtherClosing
  <2>3. Leads(<<c>>, 0 + 0, 0, -1, 0)
    BY <2>1, <2>2, LeadsCall
  <2> QED
    BY <2>3 DEF c
<1>3. ASSUME NEW op \in {"endTemplate", "endEnum"}
      PROVE  Leads(<<Call(op, name, kind)>>, 0, 0, 0, -1)
  <2> DEFINE c == Call(op, name, kind)
  <2>1. c \in ParserCalls /\ c[1] = op /\ c[1] \notin TypeCalls /\ c[1] # "friend_"
    BY <1>1
  <2> HIDE DEF c
  <2>2. printer!Takes(c) = 0 /\ Deeper(c) = 0 /\ OthersBy(c) = -1
    BY <2>1 DEF printer!Takes, Deeper, OthersBy, ElementOpening, ElementClosing, OtherOpening,
                OtherClosing
  <2>3. Leads(<<c>>, 0 + 0, 0, 0, -1)
    BY <2>1, <2>2, LeadsCall
  <2> QED
    BY <2>3 DEF c
<1> QED
  BY <1>2, <1>3

-----------------------------------------------------------------------------
(* Types, visited or not.                                                  *)

\* ParseType without visit leaves the calls of the node out.
LEMMA ParseTypeIs ==
  ASSUME Texts, input \in Seq(Strings), NEW p \in From(1), NEW ctor,
         NEW visit \in BOOLEAN, NEW inTemplate \in BOOLEAN
  PROVE  LET t == ParseType(p, ctor, visit, inTemplate)
         IN  /\ t \in NodeRecords /\ t.p \in From(p)
             /\ t.ok => t.p > p \/ t.kind \in {"constructor", "destructor"}
             /\ visit => NodeFrom(t, p)
             /\ ~visit \/ ~t.ok => t.ev = <<>>
<1> DEFINE u == Types(ctor)[<<p, ctor, ~inTemplate>>]
           t == ParseType(p, ctor, visit, inTemplate)
<1>1. NodeFrom(u, p)
  <2>1. ctor \in Constructors(ctor) /\ (~inTemplate) \in BOOLEAN
    BY DEF Constructors
  <2> QED
    BY <2>1, TypesIs, TypesAt
<1>2. t = [u EXCEPT !.ev = IF visit THEN u.ev ELSE <<>>]
  BY DEF ParseType
<1> HIDE DEF u
<1>3. CASE visit
  <2>1. t = u
    BY <1>1, <1>2, <1>3 DEF NodeFrom, NodeRecords
  <2> QED
    BY <1>1, <1>3, <2>1 DEF NodeFrom
<1>4. CASE ~visit
  <2>1. <<>> \in Seq(ParserCalls)
    BY EmptySeq
  <2>2. t \in NodeRecords /\ t.p = u.p /\ t.ok = u.ok /\ t.kind = u.kind /\ t.ev = <<>>
    BY <1>1, <1>2, <1>4, <2>1 DEF NodeFrom, NodeRecords
  <2> HIDE DEF t
  <2> QED
    BY <1>1, <1>4, <2>2 DEF NodeFrom, t
<1> QED
  BY <1>3, <1>4

-----------------------------------------------------------------------------
(* What a routine leaves behind.                                           *)

\* Behind n types that lie ready, the routine opens e elements and x other brackets more than
\* it closes.  If it fails, it has closed none that it has not opened.
Leaves(p, n, e, x) ==
  {r \in Outcomes \cup NodeRecords :
     /\ r.p \in From(p)
     /\ Leads(r.ev, n, 0, IF r.ok THEN e ELSE 0, IF r.ok THEN x ELSE 0)}

\* The parts of what a routine leaves behind.
LEMMA LeavesParts ==
  ASSUME input \in Seq(Strings), NEW p \in From(1), NEW n, NEW e, NEW x, NEW r \in Leaves(p, n, e, x)
  PROVE  /\ r \in Outcomes \cup NodeRecords /\ r.ok \in BOOLEAN /\ r.ev \in Seq(ParserCalls)
         /\ r.p \in From(p) /\ r.p \in From(1) /\ r.p \in Nat
<1>1. r.p \in From(p) /\ r.p \in From(1)
  BY Onward DEF Leaves
<1> QED
  BY <1>1 DEF Leaves, Outcomes, NodeRecords

\* It does so from a place before it as well,
LEMMA LeavesOnward ==
  ASSUME input \in Seq(Strings), NEW p \in From(1), NEW q \in From(p), NEW n, NEW e, NEW x,
         NEW r \in Leaves(q, n, e, x)
  PROVE  r \in Leaves(p, n, e, x)
<1>1. r.p \in From(p)
  BY Onward DEF Leaves
<1> QED
  BY <1>1 DEF Leaves

\* and with more types lying ready.
LEMMA LeavesMore ==
  ASSUME NEW p, NEW n \in Nat, NEW m \in Nat, n <= m, NEW e \in Int, NEW x \in Int,
         NEW r \in Leaves(p, n, e, x)
  PROVE  r \in Leaves(p, m, e, x)
<1> DEFINE d == IF r.ok THEN e ELSE 0
           y == IF r.ok THEN x ELSE 0
<1>1. Leads(r.ev, n, 0, d, y) /\ d \in Int /\ y \in Int
  BY DEF Leaves
<1> HIDE DEF d, y
<1>2. Leads(r.ev, m, 0, d, y)
  BY <1>1, LeadsWeaker
<1> QED
  BY <1>2 DEF Leaves, d, y

\* No calls may be all that is made of types lying ready.
LEMMA NothingLeads ==
  ASSUME NEW n \in Nat
  PROVE  Leads(<<>>, n, 0, 0, 0) /\ <<>> \in Seq(ParserCalls)
<1>1. Leads(<<>>, n, n, 0, 0)
  BY LeadsNone
<1>2. n \in Int /\ n <= n /\ 0 <= n
  OBVIOUS
<1>3. Leads(<<>>, n, 0, 0, 0)
  BY <1>1, <1>2, LeadsWeaker
<1> QED
  BY <1>3 DEF Leads

\* A routine that is done leaves its calls behind,
LEMMA DoneLeaves ==
  ASSUME input \in Seq(Strings), NEW p \in From(1), NEW q \in From(p), NEW n \in Nat,
         NEW e \in Int, NEW x \in Int, NEW ev, Leads(ev, n, 0, e, x)
  PROVE  Done(q, ev) \in Leaves(p, n, e, x)
<1>1. ev \in Seq(ParserCalls) /\ q \in Nat
  BY PlaceType DEF Leads
<1>2. Done(q, ev) \in Outcomes /\ Done(q, ev).ok /\ Done(q, ev).p = q /\ Done(q, ev).ev = ev
  BY <1>1, DoneIs
<1> QED
  BY <1>2 DEF Leaves

\* one that fails those that close nothing,
LEMMA FailLeaves ==
  ASSUME input \in Seq(Strings), NEW p \in From(1), NEW q \in From(p), NEW n \in Nat,
         NEW e \in Int, NEW x \in Int, NEW ev, Leads(ev, n, 0, 0, 0)
  PROVE  /\ Fail(q, ev) \in Leaves(p, n, e, x) /\ FailError(q, ev) \in Leaves(p, n, e, x)
         /\ ~Fail(q, ev).ok /\ ~FailError(q, ev).ok
<1>1. ev \in Seq(ParserCalls) /\ q \in Nat
  BY PlaceType DEF Leads
<1>2. /\ Fail(q, ev) \in Outcomes /\ ~Fail(q, ev).ok /\ Fail(q, ev).p = q /\ Fail(q, ev).ev = ev
  BY <1>1, DoneIs
<1>3. /\ FailError(q, ev) \in Outcomes /\ ~FailError(q, ev).ok
      /\ FailError(q, ev).p = q /\ FailError(q, ev).ev = ev
  BY <1>1, DoneIs
<1> QED
  BY <1>2, <1>3 DEF Leaves

\* whether it would have closed anything or not,
LEMMA FailSame ==
  ASSUME input \in Seq(Strings), NEW p \in From(1), NEW q \in From(p), NEW n \in Nat,
         NEW ev, Leads(ev, n, 0, 0, 0)
  PROVE  Fail(q, ev) \in Leaves(p, n, 0, 0) /\ FailError(q, ev) \in Leaves(p, n, 0, 0)
BY FailLeaves

\* and a type that was not read nothing.
LEMMA FailedType ==
  ASSUME NEW p, NEW t \in NodeRecords, t.p \in From(p), ~t.ok, t.ev = <<>>,
         NEW n \in Nat, NEW e, NEW x
  PROVE  t \in Leaves(p, n, e, x)
BY NothingLeads DEF Leaves

\* Calls in front of a routine add to what it leaves behind,
LEMMA ThenLeaves ==
  ASSUME NEW p, NEW k \in Nat, NEW n \in Nat, NEW d \in Nat, NEW y \in Nat,
         NEW ev, Leads(ev, k, n, d, y),
         NEW e \in Int, NEW x \in Int, NEW r \in Leaves(p, n, e, x)
  PROVE  /\ Then(ev, r) \in Leaves(p, k, d + e, y + x)
         /\ Then(ev, r).ok = r.ok /\ Then(ev, r).p = r.p
<1>1. ev \in Seq(ParserCalls) /\ r \in Outcomes \cup NodeRecords
  BY DEF Leads, Leaves
<1>2. /\ Then(ev, r) \in Outcomes /\ Then(ev, r).ok = r.ok /\ Then(ev, r).p = r.p
      /\ Then(ev, r).ev = ev \o r.ev
  BY <1>1, ThenIs
<1>3. CASE r.ok
  <2>1. Leads(r.ev, n, 0, e, x)
    BY <1>3 DEF Leaves
  <2>2. Leads(ev \o r.ev, k, 0, d + e, y + x)
    BY <2>1, LeadsBoth
  <2> QED
    BY <1>2, <1>3, <2>2 DEF Leaves
<1>4. CASE ~r.ok
  <2>1. Leads(r.ev, n, 0, 0, 0)
    BY <1>4 DEF Leaves
  <2>2. Leads(ev \o r.ev, k, 0, d + 0, y + 0)
    BY <2>1, LeadsBoth
  <2>3. Leads(ev \o r.ev, k, 0, 0, 0)
    BY <2>2, LeadsWeaker
  <2> QED
    BY <1>2, <1>4, <2>3 DEF Leaves
<1>5. r.ok \in BOOLEAN
  BY <1>1 DEF Outcomes, NodeRecords
<1> QED
  BY <1>2, <1>3, <1>4, <1>5

\* or to nothing, if they open nothing.
LEMMA ThenSame ==
  ASSUME NEW p, NEW k \in Nat, NEW n \in Nat, NEW ev, Leads(ev, k, n, 0, 0),
         NEW e \in Int, NEW x \in Int, NEW r \in Leaves(p, n, e, x)
  PROVE  Then(ev, r) \in Leaves(p, k, e, x) /\ Then(ev, r).ok = r.ok /\ Then(ev, r).p = r.p
<1>1. Then(ev, r) \in Leaves(p, k, 0 + e, 0 + x)
  BY ThenLeaves
<1>2. Then(ev, r) \in Leaves(p, k, e, x)
  BY <1>1
<1>3. ev \in Seq(ParserCalls) /\ r \in Outcomes \cup NodeRecords
  BY DEF Leads, Leaves
<1> QED
  BY <1>2, <1>3, ThenIs

\* What is opened and then closed.
LEMMA ThenCloses ==
  ASSUME NEW p, NEW k \in Nat, NEW n \in Nat, NEW ev, NEW r
  PROVE  /\ Leads(ev, k, n, 1, 0) /\ r \in Leaves(p, n, -1, 0) => Then(ev, r) \in Leaves(p, k, 0, 0)
         /\ Leads(ev, k, n, 0, 1) /\ r \in Leaves(p, n, 0, -1) => Then(ev, r) \in Leaves(p, k, 0, 0)
<1>1. ASSUME NEW d \in Nat, NEW y \in Nat, NEW e \in Int, NEW x \in Int, d + e = 0, y + x = 0,
             Leads(ev, k, n, d, y), r \in Leaves(p, n, e, x)
      PROVE  Then(ev, r) \in Leaves(p, k, 0, 0)
  <2>1. Then(ev, r) \in Leaves(p, k, d + e, y + x)
    BY <1>1, ThenLeaves
  <2> QED
    BY <1>1, <2>1
<1> QED
  BY <1>1

\* What follows a routine that has left everything as it was.
LEMMA IfOkLeaves ==
  ASSUME NEW p, NEW n \in Nat, NEW m \in Nat, NEW e \in Int, NEW x \in Int,
         NEW r \in Outcomes \cup NodeRecords, r.ok => Leads(r.ev, n, m, 0, 0),
         ~r.ok => r \in Leaves(p, n, e, x),
         NEW rest, r.ok => rest \in Leaves(p, m, e, x)
  PROVE  IfOk(r, rest) \in Leaves(p, n, e, x)
<1>1. CASE ~r.ok
  BY <1>1 DEF IfOk
<1>2. CASE r.ok
  <2>1. Then(r.ev, rest) \in Leaves(p, n, 0 + e, 0 + x)
    BY <1>2, ThenLeaves
  <2> QED
    BY <1>2, <2>1 DEF IfOk
<1> QED
  BY <1>1, <1>2

\* A type that is read and visited lies ready.
LEMMA NodeLeads ==
  ASSUME NEW p, NEW t, NodeFrom(t, p), NEW n \in Nat, NEW e, NEW x
  PROVE  /\ t \in Outcomes \cup NodeRecords
         /\ t.ok => Leads(t.ev, n, n + 1, 0, 0)
         /\ ~t.ok => t \in Leaves(p, n, e, x)
<1>1. t \in NodeRecords /\ t.p \in From(p)
  BY DEF NodeFrom
<1>2. t.ok => Leads(t.ev, n, n + 1, 0, 0)
  BY TypeLeads DEF NodeFrom
<1>3. ~t.ok => t \in Leaves(p, n, e, x)
  BY <1>1, FailedType DEF NodeFrom
<1> QED
  BY <1>1, <1>2, <1>3

-----------------------------------------------------------------------------
(* Lists of declarations.                                                  *)

\* A routine that ends by taking types.
LEMMA TakingLeaves ==
  ASSUME Texts, input \in Seq(Strings), NEW p \in From(1), NEW q \in From(p),
         NEW op \in {"functionArgument", "baseType", "friend_", "using_", "templateArgument"},
         NEW name \in Strings, NEW kind, IsKind(kind)
  PROVE  /\ Done(q, <<Call(op, name, kind)>>) \in Leaves(p, 2, 0, 0)
         /\ (kind # "=" /\ kind # "default") =>
               Done(q, <<Call(op, name, kind)>>) \in Leaves(p, 1, 0, 0)
<1> DEFINE w == <<Call(op, name, kind)>>
<1>1. Leads(w, 2, 0, 0, 0) /\ ((kind # "=" /\ kind # "default") => Leads(w, 1, 0, 0, 0))
  BY TakingLeads
<1> HIDE DEF w
<1> QED
  BY <1>1, DoneLeaves DEF w

\* A value whose "=" is not the last token is read.
LEMMA ValuedIs ==
  ASSUME input \in Seq(Strings), NotCut(input), NEW n \in From(1), NEW v, NEW ev
  PROVE  Valued(n, v, ev) = Done(IF Token(n) = "=" THEN v ELSE n, ev)
<1>1. CASE Token(n) = "="
  <2>1. Token(n) \in Symbols
    BY <1>1 DEF Symbols
  <2>2. n \in 1 .. Len(input) /\ Len(input) \in Nat
    BY <2>1, SymbolInside, LenProperties
  <2>3. input # <<>>
    BY <2>2, EmptySeq
  <2>4. input[Len(input)] # "="
    BY <2>3 DEF NotCut
  <2>5. n # Len(input)
    BY <1>1, <2>2, <2>4 DEF Token
  <2> QED
    BY <1>1, <2>5 DEF Valued
<1>2. CASE Token(n) # "="
  BY <1>2 DEF Valued
<1> QED
  BY <1>1, <1>2

\* An argument of a function takes its type.
LEMMA ArgumentIs ==
  ASSUME Texts, input \in Seq(Strings), NotCut(input), NEW p \in From(1), NEW t, NodeFrom(t, p)
  PROVE  Argument(t) \in Leaves(p, 0, 0, 0)
<1> DEFINE n == BehindName(t)
           q == IF Token(n) = "=" THEN SkipDefault(n + 1) ELSE n
<1>1. t.p \in From(p) /\ t.p \in From(1)
  BY Onward DEF NodeFrom
<1>2. NameOf(t) \in Strings /\ n \in From(p) /\ n \in From(1)
  BY <1>1, NameBehind, Onward
<1>3. q \in From(p)
  <2>1. CASE Token(n) = "="
    <3>1. Token(n) \in Symbols
      BY <2>1 DEF Symbols
    <3>2. n + 1 \in From(1) /\ n + 1 \in From(n)
      BY <1>2, <3>1, SymbolInside
    <3>3. SkipDefault(n + 1) \in From(n + 1) /\ n + 1 \in From(p)
      BY <1>2, <3>2, SkipPlace, Onward
    <3>4. SkipDefault(n + 1) \in From(p)
      BY <3>2, <3>3, Onward
    <3> QED
      BY <2>1, <3>4
  <2>2. CASE Token(n) # "="
    BY <1>2, <2>2
  <2> QED
    BY <2>1, <2>2
<1>4. Argument(t) = IfOk(t, Done(q, <<Call("functionArgument", NameOf(t), "")>>))
  <2> DEFINE ev == <<Call("functionArgument", NameOf(t), "")>>
  <2>1. Argument(t) = IfOk(t, Valued(n, SkipDefault(n + 1), ev))
    BY DEF Argument
  <2> HIDE DEF ev
  <2>2. Valued(n, SkipDefault(n + 1), ev) = Done(q, ev)
    BY <1>2, ValuedIs
  <2> QED
    BY <2>1, <2>2 DEF ev
<1> HIDE DEF q
<1>5. Done(q, <<Call("functionArgument", NameOf(t), "")>>) \in Leaves(p, 1, 0, 0)
  <2>1. IsKind("")
    BY SomeKinds
  <2>2. "" # "=" /\ "" # "default"
    OBVIOUS
  <2> QED
    BY <1>2, <1>3, <2>1, <2>2, TakingLeaves, Zenon
<1>6. /\ t \in Outcomes \cup NodeRecords
      /\ t.ok => Leads(t.ev, 0, 0 + 1, 0, 0)
      /\ ~t.ok => t \in Leaves(p, 0, 0, 0)
  BY NodeLeads
<1>7. IfOk(t, Done(q, <<Call("functionArgument", NameOf(t), "")>>)) \in Leaves(p, 0, 0, 0)
  <2> DEFINE rest == Done(q, <<Call("functionArgument", NameOf(t), "")>>)
  <2>1. rest \in Leaves(p, 1, 0, 0)
    BY <1>5
  <2>2. t.ok => Leads(t.ev, 0, 1, 0, 0)
    BY <1>6
  <2> HIDE DEF rest
  <2>3. IfOk(t, rest) \in Leaves(p, 0, 0, 0)
    BY <1>6, <2>1, <2>2, IfOkLeaves
  <2> QED
    BY <2>3 DEF rest
<1> QED
  BY <1>4, <1>7

\* So does a base class,
LEMMA BaseIs ==
  ASSUME Texts, input \in Seq(Strings), NEW p \in From(1), NEW c, NEW types \in Tables(c)
  PROVE  ParseBase(p, types) \in Leaves(p, 0, 0, 0)
<1> DEFINE b == MatchAny(p, AccessSpecifiers)
           t == types[<<b, "", TRUE>>]
           token == IF b > p THEN Token(p) ELSE "private"
<1>1. CASE ~IsIdentifier(p)
  <2>1. FailError(p, <<>>) \in Leaves(p, 0, 0, 0)
    BY Here, NothingLeads, FailLeaves
  <2> QED
    BY <1>1, <2>1 DEF ParseBase
<1>2. CASE IsIdentifier(p)
  <2>1. b \in From(p) /\ b \in From(1) /\ (b > p => Token(p) \in AccessSpecifiers)
    <3>1. EndOfFile \notin AccessSpecifiers
      BY DEF EndOfFile, AccessSpecifiers
    <3> QED
      BY <3>1, MatchPlace
  <2>2. token \in AccessSpecifiers
    <3>1. "private" \in AccessSpecifiers
      BY DEF AccessSpecifiers
    <3> HIDE DEF b
    <3> QED
      BY <2>1, <3>1
  <2>3. ParseBase(p, types) = Then(<<Access(token)>>, Base(t))
    BY <1>2 DEF ParseBase
  <2>4. NodeFrom(t, p)
    <3>1. NodeFrom(t, b)
      BY <2>1, NoConstructor, TypesAt
    <3> QED
      BY <2>1, <3>1, NodeOnward
  <2> HIDE DEF b, t, token
  <2>5. Leads(<<Access(token)>>, 0, 0, 0, 0)
    <3>1. "" \in Strings
      BY DEF Texts, OtherWords
    <3>2. IsKind(token)
      BY <2>2, SomeKinds
    <3> QED
      BY <3>1, <3>2, NeutralLeads DEF Access
  <2>6. Base(t) \in Leaves(p, 0, 0, 0)
    <3> DEFINE rest == Done(t.p, <<Call("baseType", "", "")>>)
    <3>1. t.p \in From(p)
      BY <2>4 DEF NodeFrom
    <3>2. "" \in Strings /\ IsKind("")
      BY SomeKinds DEF Texts, OtherWords
    <3>3. "" # "=" /\ "" # "default"
      OBVIOUS
    <3>4. rest \in Leaves(p, 1, 0, 0)
      BY <3>1, <3>2, <3>3, TakingLeaves, Zenon
    <3>5. /\ t \in Outcomes \cup NodeRecords
          /\ t.ok => Leads(t.ev, 0, 0 + 1, 0, 0)
          /\ ~t.ok => t \in Leaves(p, 0, 0, 0)
      BY <2>4, NodeLeads
    <3>6. t.ok => Leads(t.ev, 0, 1, 0, 0)
      BY <3>5
    <3> HIDE DEF rest
    <3>7. IfOk(t, rest) \in Leaves(p, 0, 0, 0)
      BY <3>4, <3>5, <3>6, IfOkLeaves
    <3> QED
      BY <3>7 DEF Base, rest
  <2>7. Then(<<Access(token)>>, Base(t)) \in Leaves(p, 0, 0, 0)
    <3> DEFINE ev == <<Access(token)>>
               r == Base(t)
    <3>1. Leads(ev, 0, 0, 0, 0) /\ r \in Leaves(p, 0, 0, 0)
      BY <2>5, <2>6
    <3> HIDE DEF ev, r
    <3>2. Then(ev, r) \in Leaves(p, 0, 0, 0)
      BY <3>1, ThenSame
    <3> QED
      BY <3>2 DEF ev, r
  <2> QED
    BY <2>3, <2>7
<1> QED
  BY <1>1, <1>2

\* the default of an argument of a template, with one type or two,
LEMMA WithDefaultIs ==
  ASSUME Texts, input \in Seq(Strings), NEW p \in From(1), NEW name \in Strings
  PROVE  /\ \A q \in From(p) : WithDefault(Done(q, <<>>), name, "") \in Leaves(p, 1, 0, 0)
         /\ \A v : NodeFrom(v, p) => WithDefault(v, name, "default") \in Leaves(p, 1, 0, 0)
<1>1. ASSUME NEW q \in From(p)
      PROVE  WithDefault(Done(q, <<>>), name, "") \in Leaves(p, 1, 0, 0)
  <2> DEFINE v == Done(q, <<>>)
             rest == Done(v.p, <<Call("templateArgument", name, "")>>)
  <2>1. v \in Outcomes /\ v.ok /\ v.p = q /\ v.ev = <<>>
    <3> DEFINE w == <<>>
    <3>1. q \in Nat /\ w \in Seq(ParserCalls)
      BY PlaceType, EmptySeq
    <3> HIDE DEF w
    <3>2. Done(q, w) \in Outcomes /\ Done(q, w).ok /\ Done(q, w).p = q /\ Done(q, w).ev = w
      BY <3>1, DoneIs
    <3> QED
      BY <3>2 DEF w
  <2>2. IsKind("")
    BY SomeKinds
  <2>3. "" # "=" /\ "" # "default"
    OBVIOUS
  <2> HIDE DEF v
  <2>4. rest \in Leaves(p, 1, 0, 0)
    BY <2>1, <2>2, <2>3, TakingLeaves, Zenon
  <2>5. Leads(v.ev, 1, 1, 0, 0)
    BY <2>1, LeadsNone
  <2> HIDE DEF rest
  <2>6. IfOk(v, rest) \in Leaves(p, 1, 0, 0)
    BY <2>1, <2>4, <2>5, IfOkLeaves
  <2> QED
    BY <2>6 DEF WithDefault, rest, v
<1>2. ASSUME NEW v, NodeFrom(v, p)
      PROVE  WithDefault(v, name, "default") \in Leaves(p, 1, 0, 0)
  <2> DEFINE rest == Done(v.p, <<Call("templateArgument", name, "default")>>)
  <2>1. v.p \in From(p)
    BY <1>2 DEF NodeFrom
  <2>2. rest \in Leaves(p, 2, 0, 0)
    <3>1. IsKind("default")
      BY SomeKinds
    <3> QED
      BY <2>1, <3>1, TakingLeaves
  <2>3. /\ v \in Outcomes \cup NodeRecords
        /\ v.ok => Leads(v.ev, 1, 1 + 1, 0, 0)
        /\ ~v.ok => v \in Leaves(p, 1, 0, 0)
    BY <1>2, NodeLeads
  <2>4. v.ok => Leads(v.ev, 1, 2, 0, 0)
    BY <2>3
  <2> HIDE DEF rest
  <2>5. IfOk(v, rest) \in Leaves(p, 1, 0, 0)
    BY <2>2, <2>3, <2>4, IfOkLeaves
  <2> QED
    BY <2>5 DEF WithDefault, rest
<1> QED
  BY <1>1, <1>2

\* and such an argument as a whole.
LEMMA TemplateParameterIs ==
  ASSUME Texts, input \in Seq(Strings), NEW p \in From(1), NEW c, NEW types \in Tables(c),
         NEW t, NodeFrom(t, p)
  PROVE  TemplateParameter(t, types) \in Leaves(p, 0, 0, 0)
<1> DEFINE n == BehindName(t)
           v == types[<<n + 1, "", TRUE>>]
           rest == IF Token(n) = "=" THEN WithDefault(v, NameOf(t), "default")
                                     ELSE WithDefault(Done(n, <<>>), NameOf(t), "")
<1>1. t.p \in From(p) /\ t.p \in From(1)
  BY Onward DEF NodeFrom
<1>2. NameOf(t) \in Strings /\ n \in From(p) /\ n \in From(1)
  BY <1>1, NameBehind, Onward
<1>3. CASE ~t.ok
  <2>1. FailError(t.p, <<>>) \in Leaves(p, 0, 0, 0)
    BY <1>1, NothingLeads, FailLeaves
  <2> QED
    BY <1>3, <2>1 DEF TemplateParameter
<1>4. CASE t.ok
  <2>1. TemplateParameter(t, types) = Then(t.ev, rest)
    BY <1>4 DEF TemplateParameter
  <2>2. Leads(t.ev, 0, 0 + 1, 0, 0)
    BY <1>4, NodeLeads
  <2>3. rest \in Leaves(p, 1, 0, 0)
    <3>1. CASE Token(n) = "="
      <4>1. n + 1 \in From(1) /\ n + 1 \in From(p)
        <5>1. Token(n) \in Symbols
          BY <3>1 DEF Symbols
        <5> QED
          BY <1>2, <5>1, SymbolInside, Onward
      <4>2. NodeFrom(v, p)
        <5>1. NodeFrom(v, n + 1)
          BY <4>1, NoConstructor, TypesAt
        <5> QED
          BY <4>1, <5>1, NodeOnward
      <4> HIDE DEF v, n
      <4>3. WithDefault(v, NameOf(t), "default") \in Leaves(p, 1, 0, 0)
        BY <1>2, <4>2, WithDefaultIs
      <4> QED
        BY <3>1, <4>3
    <3>2. CASE Token(n) # "="
      <4> HIDE DEF n
      <4>1. WithDefault(Done(n, <<>>), NameOf(t), "") \in Leaves(p, 1, 0, 0)
        BY <1>2, WithDefaultIs, Zenon
      <4> QED
        BY <3>2, <4>1, Zenon
    <3> QED
      BY <3>1, <3>2
  <2> HIDE DEF rest
  <2>4. Leads(t.ev, 0, 1, 0, 0)
    BY <2>2
  <2>5. Then(t.ev, rest) \in Leaves(p, 0, 0, 0)
    BY <2>3, <2>4, ThenSame
  <2> QED
    BY <2>1, <2>5
<1> QED
  BY <1>3, <1>4

\* A value of an enumeration takes none.
LEMMA EnumeratorIs ==
  ASSUME Texts, input \in Seq(Strings), NotCut(input), NEW p \in From(1)
  PROVE  Enumerator(p) \in Leaves(p, 0, 0, 0)
<1>1. p \in Nat /\ Len(input) \in Nat /\ p >= 1 /\ p <= Len(input) + 1
  BY InputLength DEF From
<1>2. CASE ~IsIdentifier(p)
  <2>1. Fail(p, <<>>) \in Leaves(p, 0, 0, 0)
    BY Here, NothingLeads, FailLeaves
  <2> QED
    BY <1>2, <2>1 DEF Enumerator
<1>3. CASE IsIdentifier(p)
  <2> DEFINE v == FirstOf({i \in p + 2 .. Len(input) : input[i] \in {",", "}"}})
             w == IF v > Len(input) THEN Len(input) ELSE v
             n == IF Token(p + 1) = "=" THEN w ELSE p + 1
  <2>2. p \in 1 .. Len(input) /\ Token(p) \in Strings /\ p + 1 \in From(1)
    BY <1>3, NameInside
  <2>1. Enumerator(p) = Done(n, <<Call("enumValue", Token(p), "")>>)
    <3> DEFINE ev == <<Call("enumValue", Token(p), "")>>
    <3>1. Enumerator(p) = Valued(p + 1, SkipValue(p + 2), ev)
      BY <1>3 DEF Enumerator
    <3>2. SkipValue(p + 2) = w
      BY DEF SkipValue
    <3> HIDE DEF ev, w
    <3>3. Valued(p + 1, w, ev) = Done(n, ev)
      BY <2>2, ValuedIs
    <3> QED
      BY <3>1, <3>2, <3>3 DEF ev
  <2>3. n \in From(p)
    <3>1. CASE Token(p + 1) # "="
      BY <1>1, <2>2, <3>1 DEF From
    <3>2. CASE Token(p + 1) = "="
      <4>1. p + 2 \in From(1)
        <5>1. Token(p + 1) \in Symbols
          BY <3>2 DEF Symbols
        <5>2. p + 1 + 1 \in From(1) /\ p + 1 + 1 = p + 2
          BY <1>1, <2>2, <5>1, SymbolInside
        <5> QED
          BY <5>2
      <4>2. v \in From(p + 2)
        BY <4>1, FirstPlace
      <4> HIDE DEF v
      <4> QED
        BY <1>1, <2>2, <3>2, <4>2 DEF From
    <3> QED
      BY <3>1, <3>2
  <2> HIDE DEF n
  <2>4. Leads(<<Call("enumValue", Token(p), "")>>, 0, 0, 0, 0)
    <3>1. IsKind("")
      BY SomeKinds
    <3> QED
      BY <2>2, <3>1, NeutralLeads
  <2>5. Done(n, <<Call("enumValue", Token(p), "")>>) \in Leaves(p, 0, 0, 0)
    <3> DEFINE ev == <<Call("enumValue", Token(p), "")>>
    <3>1. Leads(ev, 0, 0, 0, 0)
      BY <2>4
    <3> HIDE DEF ev
    <3>2. Done(n, ev) \in Leaves(p, 0, 0, 0)
      BY <2>3, <3>1, DoneLeaves
    <3> QED
      BY <3>2 DEF ev
  <2> QED
    BY <2>1, <2>5
<1> QED
  BY <1>2, <1>3

Items == {"argument", "base", "templateParameter", "enumerator"}

\* So each item of these lists leaves nothing open.
LEMMA ItemIs ==
  ASSUME Texts, input \in Seq(Strings), NotCut(input), NEW p \in From(1), NEW c, NEW types \in Tables(c),
         NEW item \in Items
  PROVE  ParseItem(item, p, "", types) \in Leaves(p, 0, 0, 0)
<1>1. CASE item = "argument"
  <2>1. NodeFrom(types[<<p, "", TRUE>>], p)
    BY NoConstructor, TypesAt
  <2>2. Argument(types[<<p, "", TRUE>>]) \in Leaves(p, 0, 0, 0)
    BY <2>1, ArgumentIs
  <2> QED
    BY <1>1, <2>2 DEF ParseItem
<1>2. CASE item = "base"
  BY <1>2, BaseIs DEF ParseItem
<1>3. CASE item = "templateParameter"
  <2>1. NodeFrom(types[<<p, "", FALSE>>], p)
    BY NoConstructor, TypesAt
  <2>2. TemplateParameter(types[<<p, "", FALSE>>], types) \in Leaves(p, 0, 0, 0)
    BY <2>1, TemplateParameterIs
  <2> QED
    BY <1>3, <2>2 DEF ParseItem
<1>4. CASE item = "enumerator"
  BY <1>4, EnumeratorIs DEF ParseItem
<1> QED
  BY <1>1, <1>2, <1>3, <1>4 DEF Items

\* A list of declarations takes the types it has written and leaves nothing open.
LEMMA ParseItemsIs ==
  ASSUME Texts, input \in Seq(Strings), NotCut(input), NEW p \in From(1), NEW item \in Items
  PROVE  ParseItems(item, p) \in Leaves(p, 0, 0, 0)
<1> DEFINE types == Types("")
           V == Leaves(p, 0, 0, 0)
<1>1. PICK c : types \in Tables(c)
  BY TypesIs
<1> HIDE DEF types
<1>2. ParseItem(item, p, "", types) \in V
  BY <1>1, ItemIs
<1>3. ASSUME NEW r \in V
      PROVE  MoreOfList(r, item, "", types) \in V
  <2>1. CASE ~(r.ok /\ Token(r.p) = ",")
    BY <2>1 DEF MoreOfList
  <2>2. CASE r.ok /\ Token(r.p) = ","
    <3> DEFINE next == ParseItem(item, r.p + 1, "", types)
    <3>1. r.p \in From(p) /\ r.p \in From(1)
      BY LeavesParts
    <3>2. r.p + 1 \in From(1) /\ r.p + 1 \in From(p)
      <4>1. Token(r.p) \in Symbols
        BY <2>2 DEF Symbols
      <4> QED
        BY <3>1, <4>1, SymbolInside, Onward
    <3>3. next \in Leaves(r.p + 1, 0, 0, 0)
      BY <1>1, <3>2, ItemIs
    <3> HIDE DEF next
    <3>4. next \in Leaves(p, 0, 0, 0)
      BY <3>2, <3>3, LeavesOnward
    <3>5. Leads(r.ev, 0, 0, 0, 0)
      BY <2>2 DEF Leaves
    <3>6. Then(r.ev, next) \in Leaves(p, 0, 0, 0)
      BY <3>4, <3>5, ThenSame
    <3>7. Then(r.ev, next) \in V
      BY <3>6
    <3>8. MoreOfList(r, item, "", types) = Then(r.ev, next)
      BY <2>2 DEF MoreOfList, next
    <3> HIDE DEF V
    <3> QED
      BY <3>7, <3>8, Zenon
  <2> QED
    BY <2>1, <2>2
<1> HIDE DEF V
<1>4. ParseList(item, p, "", types) \in V
  BY <1>2, <1>3, ListStays
<1> QED
  BY <1>4 DEF ParseItems, types, V

ScopeRecords == [type : ScopeTypes, name : Strings, access : AccessSpecifiers]

\* Telling the access specifier changes nothing that counts.
LEMMA CurrentAccessIs ==
  ASSUME Texts, NEW scope \in ScopeRecords, NEW n \in Nat
  PROVE  Leads(CurrentAccess(scope), n, n, 0, 0)
<1>1. scope.access \in AccessSpecifiers
  BY DEF ScopeRecords
<1>2. Leads(<<Access(scope.access)>>, n, n, 0, 0)
  <2>1. "" \in Strings
    BY DEF Texts, OtherWords
  <2>2. IsKind(scope.access)
    BY <1>1, SomeKinds
  <2> QED
    BY <2>1, <2>2, NeutralLeads DEF Access
<1>3. CASE scope.type = "class"
  BY <1>2, <1>3 DEF CurrentAccess
<1>4. CASE scope.type # "class"
  BY <1>4, LeadsNone DEF CurrentAccess
<1> QED
  BY <1>3, <1>4

\* RequireSymbol makes its calls if the symbol is there, and goes on behind it.
LEMMA RequireSymbolIs ==
  ASSUME input \in Seq(Strings), NEW p \in From(1), NEW s \in Symbols,
         NEW n \in Nat, NEW e \in Int, NEW x \in Int, NEW ev, Leads(ev, n, 0, e, x)
  PROVE  /\ RequireSymbol(p, s, ev) \in Leaves(p, n, e, x)
         /\ RequireSymbol(p, s, ev).ok => RequireSymbol(p, s, ev).p = p + 1
                                          /\ p + 1 \in From(1) /\ p + 1 > p
<1>1. CASE Token(p) = s
  <2>1. p + 1 \in From(p) /\ p + 1 \in From(1) /\ p + 1 > p
    BY <1>1, SymbolInside
  <2>2. Done(p + 1, ev) \in Leaves(p, n, e, x)
    BY <2>1, DoneLeaves
  <2>3. Done(p + 1, ev).p = p + 1
    BY DEF Done
  <2> QED
    BY <1>1, <2>1, <2>2, <2>3 DEF RequireSymbol
<1>2. CASE Token(p) # s
  <2>1. Leads(<<>>, n, 0, 0, 0) /\ p \in From(p)
    BY Here, NothingLeads
  <2>2. FailError(p, <<>>) \in Leaves(p, n, e, x) /\ ~FailError(p, <<>>).ok
    BY <2>1, FailLeaves
  <2> QED
    BY <1>2, <2>2 DEF RequireSymbol
<1> QED
  BY <1>1, <1>2

\* The end of a property ends it, or leaves it open and fails.
LEMMA SubscriptIs ==
  ASSUME Texts, input \in Seq(Strings), NEW p \in From(1), NEW ended, Leads(ended, 0, 0, -1, 0)
  PROVE  ParseSubscript(p, ended) \in Leaves(p, 0, -1, 0)
<1>1. CASE Token(p) # "["
  <2>1. SkipPastSemicolon(p) \in From(p)
    BY SkipPlace
  <2>2. Done(SkipPastSemicolon(p), ended) \in Leaves(p, 0, -1, 0)
    BY <2>1, DoneLeaves
  <2> QED
    BY <1>1, <2>2 DEF ParseSubscript
<1>2. CASE Token(p) = "["
  <2>1. p + 1 \in From(1) /\ p + 1 \in From(p)
    <3>1. Token(p) \in Symbols
      BY <1>2 DEF Symbols
    <3> QED
      BY <3>1, SymbolInside
  <2>2. CASE ~IsConst(p + 1) /\ ~IsIdentifier(p + 1)
    <3>1. Fail(p + 1, <<>>) \in Leaves(p, 0, -1, 0)
      BY <2>1, NothingLeads, FailLeaves
    <3> QED
      BY <1>2, <2>2, <3>1 DEF ParseSubscript
  <2>3. CASE IsConst(p + 1) \/ IsIdentifier(p + 1)
    <3> DEFINE ev == <<Call("arraySubscript", Token(p + 1), "")>>
               rest == IF Token(p + 2) = "]" THEN Done(SkipPastSemicolon(p + 3), ended)
                                             ELSE Fail(p + 2, <<>>)
    <3>1. p + 2 \in From(1) /\ p + 2 \in From(p) /\ Token(p + 1) \in Strings
      <4>1. /\ p + 1 + 1 \in From(1) /\ p + 1 + 1 \in From(p + 1) /\ Token(p + 1) \in Strings
        BY <2>1, <2>3, NameInside
      <4>2. p + 1 + 1 = p + 2
        BY <2>1, PlaceType
      <4> QED
        BY <2>1, <4>1, <4>2, Onward
    <3>2. rest \in Leaves(p, 0, -1, 0)
      <4>1. CASE Token(p + 2) = "]"
        <5>1. p + 3 \in From(1) /\ p + 3 \in From(p)
          <6>1. Token(p + 2) \in Symbols
            BY <4>1 DEF Symbols
          <6>2. p + 2 + 1 \in From(1) /\ p + 2 + 1 \in From(p + 2)
            BY <3>1, <6>1, SymbolInside
          <6>3. p + 2 + 1 = p + 3
            BY <2>1, PlaceType
          <6> QED
            BY <3>1, <6>2, <6>3, Onward
        <5>2. SkipPastSemicolon(p + 3) \in From(p + 3)
          BY <5>1, SkipPlace
        <5>3. SkipPastSemicolon(p + 3) \in From(p)
          BY <5>1, <5>2, Onward
        <5>4. Done(SkipPastSemicolon(p + 3), ended) \in Leaves(p, 0, -1, 0)
          BY <5>3, DoneLeaves
        <5> QED
          BY <4>1, <5>4
      <4>2. CASE Token(p + 2) # "]"
        <5>1. Fail(p + 2, <<>>) \in Leaves(p, 0, -1, 0)
          BY <3>1, NothingLeads, FailLeaves
        <5> QED
          BY <4>2, <5>1
      <4> QED
        BY <4>1, <4>2
    <3>3. ParseSubscript(p, ended) = Then(ev, rest)
      BY <1>2, <2>3 DEF ParseSubscript
    <3>4. Leads(ev, 0, 0, 0, 0)
      <4>1. IsKind("")
        BY SomeKinds
      <4> QED
        BY <3>1, <4>1, NeutralLeads
    <3> HIDE DEF ev, rest
    <3>5. Then(ev, rest) \in Leaves(p, 0, -1, 0)
      BY <3>2, <3>4, ThenSame
    <3> QED
      BY <3>3, <3>5
  <2> QED
    BY <2>2, <2>3
<1> QED
  BY <1>1, <1>2

\* A property takes its type, and ends behind its name at least.
LEMMA PropertyOfIs ==
  ASSUME Texts, input \in Seq(Strings), NEW p \in From(1), NEW n \in Nat, NEW gone \in Strings,
         NEW t, t.ok \in BOOLEAN, t.p \in From(p), t.name \in Strings,
         t.ok => Leads(t.ev, n, 1, 0, 0), ~t.ok => t \in NodeRecords /\ t.ev = <<>>,
         t.ok => t.p > p \/ t.kind \in {"constructor", "destructor", "none"},
         NEW begin \in {"beginTypedef", "beginProperty"}, NEW end \in ElementClosing
  PROVE  /\ PropertyOf(t, begin, end, gone) \in Leaves(p, n, 0, 0)
         /\ PropertyOf(t, begin, end, gone).ok => PropertyOf(t, begin, end, gone).p > p
<1> DEFINE out  == t.kind \in {"function", "functionPointer"} /\ t.name # ""
           name == IF out THEN Reads(t.name, gone) ELSE Token(t.p)
           q    == IF out THEN t.p ELSE t.p + 1
           sub  == ParseSubscript(q, <<Call(end, name, "")>>)
           ev   == t.ev \o <<Call(begin, name, "")>>
<1>0. t.p \in From(1) /\ t.p \in Nat /\ p \in Nat /\ t.p >= p /\ n \in Nat
  <2>1. t.p \in From(1)
    BY Onward
  <2> QED
    BY <2>1, PlaceType
<1>1. CASE ~t.ok
  <2>1. t \in Leaves(p, n, 0, 0)
    BY <1>0, <1>1, FailedType
  <2> QED
    BY <1>1, <2>1 DEF PropertyOf
<1>2. CASE t.ok /\ ~out /\ ~IsIdentifier(t.p)
  <2>0. Leads(t.ev, n, 1, 0, 0)
    BY <1>2
  <2>1. Leads(t.ev, n, 0, 0, 0)
    BY <1>0, <2>0, LeadsWeaker
  <2>2. Fail(t.p, t.ev) \in Leaves(p, n, 0, 0)
    BY <1>0, <2>1, FailSame
  <2>4. ~Fail(t.p, t.ev).ok
    BY DEF Fail
  <2>3. PropertyOf(t, begin, end, gone) = Fail(t.p, t.ev)
    BY <1>2 DEF PropertyOf
  <2> HIDE DEF out
  <2> QED
    BY <2>2, <2>3, <2>4
<1>3. CASE t.ok /\ (out \/ IsIdentifier(t.p))
  <2>1. PropertyOf(t, begin, end, gone) = Then(ev, sub)
    BY <1>3 DEF PropertyOf
  <2>2. out => t.kind \in {"function", "functionPointer"}
    OBVIOUS
  <2> HIDE DEF out
  <2>3. q \in From(1) /\ q \in From(p) /\ q > p /\ name \in Strings
    <3>1. CASE out
      <4>1. t.p > p
        BY <1>3, <2>2, <3>1
      <4>2. Reads(t.name, gone) \in Strings
        BY DEF Reads
      <4> QED
        BY <1>0, <3>1, <4>1, <4>2
    <3>2. CASE ~out
      <4>1. t.p + 1 \in From(1) /\ t.p + 1 \in From(t.p) /\ Token(t.p) \in Strings
        BY <1>0, <1>3, <3>2, NameInside
      <4>2. t.p + 1 \in From(p)
        BY <1>0, <4>1, Onward
      <4> QED
        BY <1>0, <3>2, <4>1, <4>2
    <3> QED
      BY <3>1, <3>2
  <2> HIDE DEF name, q
  <2>4. Leads(<<Call(end, name, "")>>, 0, 0, -1, 0) /\ Leads(<<Call(begin, name, "")>>, 1, 0, 1, 0)
    <3>1. IsKind("")
      BY SomeKinds
    <3>2. Leads(<<Call(end, name, "")>>, 0, 0, -1, 0)
      BY <2>3, <3>1, ClosingLeads
    <3>3. Leads(<<Call(begin, name, "")>>, 1, 0, 1, 0)
      BY <2>3, <3>1, OpeningLeads
    <3> QED
      BY <3>2, <3>3
  <2>5. sub \in Leaves(p, 0, -1, 0) /\ sub.p \in From(q)
    <3> DEFINE ended == <<Call(end, name, "")>>
    <3>1. Leads(ended, 0, 0, -1, 0)
      BY <2>4
    <3> HIDE DEF ended
    <3>2. ParseSubscript(q, ended) \in Leaves(q, 0, -1, 0)
      BY <2>3, <3>1, SubscriptIs
    <3>3. ParseSubscript(q, ended) \in Leaves(p, 0, -1, 0)
      BY <2>3, <3>2, LeavesOnward
    <3>4. ParseSubscript(q, ended).p \in From(q)
      BY <3>2 DEF Leaves
    <3> QED
      BY <3>3, <3>4 DEF ended
  <2>6. Leads(ev, n, 0, 1, 0)
    <3> DEFINE b == <<Call(begin, name, "")>>
    <3>1. Leads(b, 1, 0, 1, 0)
      BY <2>4
    <3> HIDE DEF b
    <3>2. Leads(t.ev \o b, n, 0, 0 + 1, 0 + 0)
      BY <1>0, <1>3, <3>1, LeadsBoth
    <3>3. Leads(t.ev \o b, n, 0, 1, 0)
      BY <3>2
    <3> QED
      BY <3>3 DEF b
  <2> HIDE DEF ev, sub
  <2>8. Then(ev, sub).p = sub.p /\ sub.p > p
    <3>1. q \in Nat /\ sub.p \in Nat /\ q <= sub.p
      BY <2>3, <2>5, PlaceType
    <3>2. sub.p > p
      BY <1>0, <2>3, <3>1
    <3> QED
      BY <3>2 DEF Then
  <2>9. Then(ev, sub) \in Leaves(p, n, 0, 0)
    BY <1>0, <2>5, <2>6, ThenCloses
  <2> QED
    BY <2>1, <2>8, <2>9
<1> HIDE DEF out
<1> QED
  BY <1>1, <1>2, <1>3

\* ParseProperty: a typedef reads its own type, anything else has it lying ready.
LEMMA ParsePropertyIs ==
  ASSUME Texts, input \in Seq(Strings), NEW p \in From(1), NEW scope \in ScopeRecords,
         NEW isTypedef \in BOOLEAN, NEW skipType \in BOOLEAN, ~(isTypedef /\ skipType),
         NEW gone \in Strings
  PROVE  /\ ParseProperty(p, scope, isTypedef, skipType, gone)
               \in Leaves(p, IF isTypedef THEN 0 ELSE 1, 0, 0)
         /\ ParseProperty(p, scope, isTypedef, skipType, gone).ok =>
               ParseProperty(p, scope, isTypedef, skipType, gone).p > p
<1> DEFINE q     == MatchEach(p, {"mutable", "static"})
           t     == IF skipType THEN Node(q, "none", "", <<>>) ELSE ParseType(q, "", isTypedef, FALSE)
           begin == IF isTypedef THEN "beginTypedef" ELSE "beginProperty"
           end   == IF isTypedef THEN "endTypedef" ELSE "endProperty"
           rest  == PropertyOf(t, begin, end, gone)
           n     == IF isTypedef THEN 0 ELSE 1
           ca    == CurrentAccess(scope)
<1>1. q \in From(p) /\ q \in From(1)
  BY MatchEachPlace
<1>2. ParseProperty(p, scope, isTypedef, skipType, gone) = Then(ca, rest)
  BY DEF ParseProperty
<1>3. begin \in {"beginTypedef", "beginProperty"} /\ end \in ElementClosing
  BY DEF ElementClosing
<1>4. n \in Nat /\ Leads(ca, n, n, 0, 0)
  BY CurrentAccessIs
<1> HIDE DEF q, begin, end, ca
<1>5. /\ t.ok \in BOOLEAN /\ t.p \in From(q) /\ t.name \in Strings
      /\ ~t.ok => t \in NodeRecords /\ t.ev = <<>>
      /\ t.ok => t.p > q \/ t.kind \in {"constructor", "destructor", "none"}
      /\ t.ok => Leads(t.ev, n, 1, 0, 0)
  <2>1. CASE skipType
    <3> DEFINE none == ""
    <3>1. t = Node(q, "none", none, <<>>)
      BY <2>1
    <3>2. none \in Strings
      BY DEF Texts, OtherWords
    <3> HIDE DEF t, none
    <3>3. t.name \in Strings
      BY <3>1, <3>2 DEF Node
    <3>4. q \in From(q) /\ n = 1
      BY <1>1, <2>1, Here
    <3>5. t.ok = TRUE /\ t.p = q /\ t.kind = "none" /\ t.ev = <<>>
      BY <3>1 DEF Node
    <3> HIDE DEF n
    <3>6. Leads(t.ev, n, 1, 0, 0)
      BY <3>4, <3>5, LeadsNone
    <3> QED
      BY <3>3, <3>4, <3>5, <3>6
  <2>2. CASE ~skipType
    <3>1. t = ParseType(q, "", isTypedef, FALSE)
      BY <2>2
    <3> DEFINE u == ParseType(q, "", isTypedef, FALSE)
    <3>2. /\ u \in NodeRecords /\ u.p \in From(q)
          /\ u.ok => u.p > q \/ u.kind \in {"constructor", "destructor"}
          /\ isTypedef => NodeFrom(u, q)
          /\ ~isTypedef \/ ~u.ok => u.ev = <<>>
      BY <1>1, ParseTypeIs
    <3> HIDE DEF u
    <3>3. t = u
      BY <3>1 DEF u
    <3>4. u.ok \in BOOLEAN /\ u.name \in Strings
      BY <3>2 DEF NodeRecords
    <3>5. u.ok => Leads(u.ev, n, 1, 0, 0)
      <4>1. CASE isTypedef
        <5>1. NodeFrom(u, q)
          BY <3>2, <4>1
        <5>2. u.ok => Leads(u.ev, 0, 0 + 1, 0, 0)
          BY <5>1, NodeLeads
        <5> QED
          BY <4>1, <5>2
      <4>2. CASE ~isTypedef
        <5>1. u.ev = <<>>
          BY <3>2, <4>2
        <5> QED
          BY <4>2, <5>1, LeadsNone
      <4> QED
        BY <4>1, <4>2
    <3> HIDE DEF t, n
    <3> QED
      BY <3>2, <3>3, <3>4, <3>5
  <2> QED
    BY <2>1, <2>2
<1> HIDE DEF t, n
<1>6. rest \in Leaves(q, n, 0, 0) /\ (rest.ok => rest.p > q)
  BY <1>1, <1>3, <1>4, <1>5, PropertyOfIs
<1> HIDE DEF rest
<1>7. rest \in Leaves(p, n, 0, 0)
  BY <1>1, <1>6, LeavesOnward
<1>8. /\ Then(ca, rest) \in Leaves(p, n, 0, 0)
      /\ Then(ca, rest).ok = rest.ok /\ Then(ca, rest).p = rest.p
  BY <1>4, <1>7, ThenSame
<1>9. rest.ok => rest.p > p
  <2>1. p \in Nat /\ q \in Nat /\ p <= q
    BY <1>1, PlaceType
  <2>2. rest.p \in Nat
    BY <1>7, LeavesParts
  <2> QED
    BY <1>6, <2>1, <2>2
<1> QED
  BY <1>2, <1>8, <1>9 DEF n

-----------------------------------------------------------------------------
(* Declarations.                                                           *)

\* A type that is read and visited is one behind the cursor.
LEMMA VisitedType ==
  ASSUME Texts, input \in Seq(Strings), NEW p \in From(1), NEW ctor
  PROVE  NodeFrom(ParseType(p, ctor, TRUE, FALSE), p)
BY ParseTypeIs

\* A using takes its type or both of them,
LEMMA UsingOfIs ==
  ASSUME Texts, input \in Seq(Strings), NEW p \in From(1), NEW t, NodeFrom(t, p)
  PROVE  UsingOf(t, "=") \in Leaves(p, 1, 0, 0) /\ UsingOf(t, "") \in Leaves(p, 0, 0, 0)
<1> DEFINE q == SkipPastSemicolon(t.p)
<1>1. q \in From(p)
  <2>1. t.p \in From(p) /\ t.p \in From(1)
    BY Onward DEF NodeFrom
  <2>2. q \in From(t.p)
    BY <2>1, SkipPlace
  <2> HIDE DEF q
  <2> QED
    BY <2>1, <2>2, Onward
<1> HIDE DEF q
<1>2. UsingOf(t, "=") \in Leaves(p, 1, 0, 0)
  <2> DEFINE rest == Done(q, <<Call("using_", "", "=")>>)
  <2>1. rest \in Leaves(p, 2, 0, 0)
    <3>1. IsKind("=") /\ "" \in Strings
      BY SomeKinds DEF Texts, OtherWords
    <3> QED
      BY <1>1, <3>1, TakingLeaves
  <2>2. UsingOf(t, "=") = IfOk(t, rest)
    BY DEF UsingOf, q
  <2>3. /\ t \in Outcomes \cup NodeRecords
        /\ t.ok => Leads(t.ev, 1, 1 + 1, 0, 0)
        /\ ~t.ok => t \in Leaves(p, 1, 0, 0)
    BY NodeLeads
  <2>4. t.ok => Leads(t.ev, 1, 2, 0, 0)
    BY <2>3
  <2> HIDE DEF rest
  <2>5. IfOk(t, rest) \in Leaves(p, 1, 0, 0)
    BY <2>1, <2>3, <2>4, IfOkLeaves
  <2> QED
    BY <2>2, <2>5
<1>3. UsingOf(t, "") \in Leaves(p, 0, 0, 0)
  <2> DEFINE rest == Done(q, <<Call("using_", "", "")>>)
  <2>1. rest \in Leaves(p, 1, 0, 0)
    <3>1. IsKind("") /\ "" \in Strings
      BY SomeKinds DEF Texts, OtherWords
    <3>2. "" # "=" /\ "" # "default"
      OBVIOUS
    <3> QED
      BY <1>1, <3>1, <3>2, TakingLeaves, Zenon
  <2>2. UsingOf(t, "") = IfOk(t, rest)
    BY DEF UsingOf, q
  <2>3. /\ t \in Outcomes \cup NodeRecords
        /\ t.ok => Leads(t.ev, 0, 0 + 1, 0, 0)
        /\ ~t.ok => t \in Leaves(p, 0, 0, 0)
    BY NodeLeads
  <2>4. t.ok => Leads(t.ev, 0, 1, 0, 0)
    BY <2>3
  <2> HIDE DEF rest
  <2>5. IfOk(t, rest) \in Leaves(p, 0, 0, 0)
    BY <2>1, <2>3, <2>4, IfOkLeaves
  <2> QED
    BY <2>2, <2>5, Zenon
<1> QED
  BY <1>2, <1>3, Zenon

\* whichever ParseUsing reads.
LEMMA ParseUsingIs ==
  ASSUME Texts, input \in Seq(Strings), NEW p \in From(1), NEW scope \in ScopeRecords
  PROVE  ParseUsing(p, scope) \in Leaves(p, 0, 0, 0)
<1> DEFINE t == ParseType(p, "", TRUE, FALSE)
           u == ParseType(t.p + 1, "", TRUE, FALSE)
           ca == CurrentAccess(scope)
<1>1. NodeFrom(t, p)
  BY VisitedType
<1>2. ParseUsing(p, scope) = Then(ca, ParseAlias(t))
  BY DEF ParseUsing
<1> HIDE DEF t
<1>3. ParseAlias(t) \in Leaves(p, 0, 0, 0)
  <2>1. CASE t.ok /\ Token(t.p) = "="
    <3>1. t.p + 1 \in From(1) /\ t.p + 1 \in From(p)
      <4>1. t.p \in From(p) /\ t.p \in From(1)
        BY <1>1, Onward DEF NodeFrom
      <4>2. Token(t.p) \in Symbols
        BY <2>1 DEF Symbols
      <4> QED
        BY <4>1, <4>2, SymbolInside, Onward
    <3>2. NodeFrom(u, p)
      <4>1. NodeFrom(u, t.p + 1)
        BY <3>1, VisitedType
      <4> QED
        BY <3>1, <4>1, NodeOnward
    <3>3. ParseAlias(t) = Then(t.ev, UsingOf(u, "="))
      BY <2>1 DEF ParseAlias
    <3> HIDE DEF u
    <3>4. UsingOf(u, "=") \in Leaves(p, 1, 0, 0)
      BY <3>2, UsingOfIs
    <3>5. Leads(t.ev, 0, 0 + 1, 0, 0)
      BY <1>1, <2>1, NodeLeads
    <3>6. Leads(t.ev, 0, 1, 0, 0)
      BY <3>5
    <3>7. Then(t.ev, UsingOf(u, "=")) \in Leaves(p, 0, 0, 0)
      BY <3>4, <3>6, ThenSame
    <3> QED
      BY <3>3, <3>7
  <2>2. CASE ~(t.ok /\ Token(t.p) = "=")
    <3>1. ParseAlias(t) = UsingOf(t, "")
      BY <2>2 DEF ParseAlias
    <3> QED
      BY <1>1, <3>1, UsingOfIs
  <2> QED
    BY <2>1, <2>2
<1>4. Leads(ca, 0, 0, 0, 0)
  BY CurrentAccessIs
<1> HIDE DEF ca
<1>5. Then(ca, ParseAlias(t)) \in Leaves(p, 0, 0, 0)
  BY <1>3, <1>4, ThenSame
<1> QED
  BY <1>2, <1>5

\* ParseFriend takes the type of the friend.
LEMMA ParseFriendIs ==
  ASSUME Texts, input \in Seq(Strings), NEW p \in From(1)
  PROVE  ParseFriend(p) \in Leaves(p, 0, 0, 0)
<1> DEFINE t == ParseType(p, "", TRUE, FALSE)
           q == SkipPastSemicolon(t.p)
           w == <<Call("friend_", "", "")>>
<1>1. NodeFrom(t, p)
  BY VisitedType
<1>2. ParseFriend(p) = FriendOf(t)
  BY DEF ParseFriend
<1> HIDE DEF t
<1>3. t.p \in From(p) /\ t.p \in From(1)
  BY <1>1, Onward DEF NodeFrom
<1>4. CASE ~t.ok
  <2>1. FailError(t.p, <<>>) \in Leaves(p, 0, 0, 0)
    BY <1>3, NothingLeads, FailSame
  <2> QED
    BY <1>2, <1>4, <2>1 DEF FriendOf
<1>5. CASE t.ok
  <2>1. q \in From(p)
    <3>1. q \in From(t.p)
      BY <1>3, SkipPlace
    <3> HIDE DEF q
    <3> QED
      BY <1>3, <3>1, Onward
  <2>2. Leads(w, 1, 0, 0, 0)
    <3>1. IsKind("") /\ "" \in Strings
      BY SomeKinds DEF Texts, OtherWords
    <3>2. "" # "=" /\ "" # "default"
      OBVIOUS
    <3> QED
      BY <3>1, <3>2, TakingLeads, Zenon
  <2>3. Leads(t.ev, 0, 0 + 1, 0, 0)
    BY <1>1, <1>5, NodeLeads
  <2>4. Leads(t.ev, 0, 1, 0, 0)
    BY <2>3
  <2>5. FriendOf(t) = Done(q, t.ev \o w)
    BY <1>5 DEF FriendOf
  <2> HIDE DEF q, w
  <2>6. Leads(t.ev \o w, 0, 0, 0 + 0, 0 + 0)
    BY <2>2, <2>4, LeadsBoth
  <2>7. Leads(t.ev \o w, 0, 0, 0, 0)
    BY <2>6
  <2>8. Done(q, t.ev \o w) \in Leaves(p, 0, 0, 0)
    BY <2>1, <2>7, DoneLeaves
  <2> QED
    BY <1>2, <2>5, <2>8
<1> QED
  BY <1>4, <1>5

\* ParseTemplate closes what it opens, unless it fails.
LEMMA ParseTemplateIs ==
  ASSUME Texts, input \in Seq(Strings), NotCut(input), NEW p \in From(1)
  PROVE  ParseTemplate(p) \in Leaves(p, 0, 0, 0)
<1>1. CASE Token(p) # "<"
  <2>1. FailError(p, <<>>) \in Leaves(p, 0, 0, 0)
    BY Here, NothingLeads, FailSame
  <2> QED
    BY <1>1, <2>1 DEF ParseTemplate
<1>2. CASE Token(p) = "<"
  <2> DEFINE args == IF Token(p + 1) = ">" THEN Done(p + 1, <<>>)
                     ELSE ParseItems("templateParameter", p + 1)
             b == <<Call("beginTemplate", "", "")>>
             e == <<Call("endTemplate", "", "")>>
  <2>1. p + 1 \in From(1) /\ p + 1 \in From(p)
    <3>1. Token(p) \in Symbols
      BY <1>2 DEF Symbols
    <3> QED
      BY <3>1, SymbolInside
  <2>2. args \in Leaves(p, 0, 0, 0)
    <3>1. CASE Token(p + 1) = ">"
      <4>1. Done(p + 1, <<>>) \in Leaves(p, 0, 0, 0)
        BY <2>1, NothingLeads, DoneLeaves
      <4> QED
        BY <3>1, <4>1
    <3>2. CASE Token(p + 1) # ">"
      <4>1. "templateParameter" \in Items
        BY DEF Items
      <4>2. ParseItems("templateParameter", p + 1) \in Leaves(p + 1, 0, 0, 0)
        BY <2>1, <4>1, ParseItemsIs
      <4>3. ParseItems("templateParameter", p + 1) \in Leaves(p, 0, 0, 0)
        BY <2>1, <4>2, LeavesOnward
      <4> QED
        BY <3>2, <4>3
    <3> QED
      BY <3>1, <3>2
  <2>3. Leads(b, 0, 0, 0, 1) /\ Leads(e, 0, 0, 0, -1)
    <3>1. IsKind("") /\ "" \in Strings
      BY SomeKinds DEF Texts, OtherWords
    <3>2. Leads(b, 0, 0, 0, 1)
      BY <3>1, OpeningLeads
    <3>3. Leads(e, 0, 0, 0, -1)
      BY <3>1, ClosingLeads
    <3> QED
      BY <3>2, <3>3
  <2>4. ParseTemplate(p) = Then(b, TemplateOf(args))
    BY <1>2 DEF ParseTemplate
  <2>5. TemplateOf(args) = IfOk(args, RequireSymbol(args.p, ">", e))
    BY DEF TemplateOf
  <2> HIDE DEF args, b, e
  <2>6. args.p \in From(p) /\ args.p \in From(1) /\ args \in Outcomes \cup NodeRecords
    BY <2>2, LeavesParts
  <2>7. RequireSymbol(args.p, ">", e) \in Leaves(p, 0, 0, -1)
    <3>1. ">" \in Symbols
      BY DEF Symbols
    <3> DEFINE at == args.p
    <3>2. at \in From(1) /\ Leads(e, 0, 0, 0, -1) /\ 0 \in Nat /\ 0 \in Int /\ -1 \in Int
      BY <2>3, <2>6
    <3> HIDE DEF at
    <3>3. RequireSymbol(at, ">", e) \in Leaves(at, 0, 0, -1)
      BY <3>1, <3>2, RequireSymbolIs
    <3>4. RequireSymbol(args.p, ">", e) \in Leaves(args.p, 0, 0, -1)
      BY <3>3 DEF at
    <3> QED
      BY <2>6, <3>4, LeavesOnward
  <2>8. TemplateOf(args) \in Leaves(p, 0, 0, -1)
    <3>1. args.ok => Leads(args.ev, 0, 0, 0, 0)
      BY <2>2 DEF Leaves
    <3>2. ~args.ok => args \in Leaves(p, 0, 0, -1)
      BY <2>2 DEF Leaves
    <3> QED
      BY <2>5, <2>6, <2>7, <3>1, <3>2, IfOkLeaves
  <2>9. Then(b, TemplateOf(args)) \in Leaves(p, 0, 0, 0)
    BY <2>3, <2>8, ThenCloses
  <2> QED
    BY <2>4, <2>9
<1> QED
  BY <1>1, <1>2

\* The end of an enumeration closes it, or fails,
LEMMA EnumEndIs ==
  ASSUME Texts, input \in Seq(Strings), NEW p \in From(1), NEW r \in Leaves(p, 0, 0, 0),
         NEW ended, Leads(ended, 0, 0, 0, -1), NEW err \in BOOLEAN
  PROVE  LET v == EnumEnd(r, ended)
         IN  [v EXCEPT !.err = v.err \/ err] \in Leaves(p, 0, 0, -1)
<1> DEFINE v == EnumEnd(r, ended)
           w == [v EXCEPT !.err = v.err \/ err]
<1>1. r.p \in From(p) /\ r.p \in From(1) /\ r.ev \in Seq(ParserCalls)
  BY LeavesParts
<1>2. Leads(r.ev, 0, 0, 0, 0)
  BY DEF Leaves
<1>3. v \in Leaves(p, 0, 0, -1) /\ v \in Outcomes
  <2>1. CASE Token(r.p) = "}"
    <3> DEFINE q == Match(r.p + 1, ";")
               rest == Done(q, ended)
    <3>1. r.p + 1 \in From(1) /\ r.p + 1 \in From(p)
      <4>1. Token(r.p) \in Symbols
        BY <2>1 DEF Symbols
      <4> QED
        BY <1>1, <4>1, SymbolInside, Onward
    <3>2. q \in From(p)
      <4>1. EndOfFile \notin {";"}
        BY DEF EndOfFile
      <4>2. q \in From(r.p + 1)
        BY <3>1, <4>1, MatchPlace DEF Match
      <4> HIDE DEF q
      <4> QED
        BY <3>1, <4>2, Onward
    <3> HIDE DEF q
    <3>3. rest \in Leaves(p, 0, 0, -1)
      BY <3>2, DoneLeaves
    <3>4. v = Then(r.ev, rest)
      BY <2>1 DEF EnumEnd, q
    <3> HIDE DEF rest, v
    <3>5. Then(r.ev, rest) \in Leaves(p, 0, 0, -1)
      BY <1>2, <3>3, ThenSame
    <3>6. Then(r.ev, rest) \in Outcomes
      BY <1>1, <3>3, ThenIs DEF Leaves
    <3> QED
      BY <3>4, <3>5, <3>6
  <2>2. CASE Token(r.p) # "}"
    <3>1. v = FailError(r.p, r.ev)
      BY <2>2 DEF EnumEnd
    <3> HIDE DEF v
    <3>2. FailError(r.p, r.ev) \in Leaves(p, 0, 0, -1)
      BY <1>1, <1>2, FailLeaves
    <3>3. r.p \in Nat
      BY <1>1, PlaceType
    <3>4. FailError(r.p, r.ev) \in Outcomes
      BY <1>1, <3>3, DoneIs
    <3> QED
      BY <3>1, <3>2, <3>4
  <2> QED
    BY <2>1, <2>2
<1> HIDE DEF v
<1>4. w \in Outcomes /\ w.ok = v.ok /\ w.p = v.p /\ w.ev = v.ev
  BY <1>3 DEF Outcomes
<1> HIDE DEF w
<1>5. w \in Leaves(p, 0, 0, -1)
  BY <1>3, <1>4 DEF Leaves
<1> QED
  BY <1>5 DEF v, w

\* and ParseEnum has opened it.
LEMMA ParseEnumIs ==
  ASSUME Texts, input \in Seq(Strings), NotCut(input), NEW p \in From(1), p + 1 \in From(1),
         NEW scope \in ScopeRecords, NEW unnamed \in Strings
  PROVE  ParseEnum(p, scope, unnamed) \in Leaves(p + 1, 0, 0, 0)
<1> DEFINE c == Match(p + 1, "class")
           n == IF IsIdentifier(c) THEN c + 1 ELSE c
           name == IF n > c THEN Token(c) ELSE unnamed
           colon == c > p + 1 /\ Token(n) = ":"
           b == IF colon THEN n + 2 ELSE n
           open == Match(b, "{")
           items == ParseItems("enumerator", open)
           ended == <<Call("endEnum", name, "")>>
           values == EnumEnd(items, ended)
           err == Token(b) # "{"
           all == [values EXCEPT !.err = values.err \/ err]
           begin == <<Call("beginEnum", name, "")>>
           rest == IF colon /\ ~IsIdentifier(n + 1) THEN FailError(n + 1, <<>>) ELSE Then(begin, all)
           ca == CurrentAccess(scope)
<1>1. ParseEnum(p, scope, unnamed) = Then(ca, rest)
  BY DEF ParseEnum
<1>2. c \in From(p + 1) /\ c \in From(1)
  <2>1. EndOfFile \notin {"class"}
    BY DEF EndOfFile
  <2> QED
    BY <2>1, MatchPlace DEF Match
<1> HIDE DEF c
<1>3. n \in From(p + 1) /\ n \in From(1) /\ name \in Strings
  <2>1. CASE IsIdentifier(c)
    <3>1. c + 1 \in From(1) /\ c + 1 \in From(c) /\ Token(c) \in Strings
      BY <1>2, <2>1, NameInside
    <3>2. c + 1 \in From(p + 1)
      BY <1>2, <3>1, Onward
    <3>3. n = c + 1
      BY <2>1
    <3> HIDE DEF n
    <3> QED
      BY <3>1, <3>2, <3>3
  <2>2. CASE ~IsIdentifier(c)
    <3>1. n = c /\ c \in Nat
      BY <1>2, <2>2, PlaceType
    <3> QED
      BY <1>2, <3>1
  <2> QED
    BY <2>1, <2>2
<1>4. colon => n + 1 \in From(p + 1) /\ n + 1 \in From(1)
  <2>1. Token(n) = ":" => Token(n) \in Symbols
    BY DEF Symbols
  <2> HIDE DEF n
  <2> QED
    BY <1>3, <2>1, SymbolInside, Onward
<1> HIDE DEF n, name
<1>5. ASSUME colon /\ ~IsIdentifier(n + 1)
      PROVE  rest \in Leaves(p + 1, 0, 0, 0)
  <2>1. rest = FailError(n + 1, <<>>)
    BY <1>5
  <2>2. n + 1 \in From(p + 1)
    BY <1>4, <1>5
  <2> HIDE DEF rest
  <2>3. FailError(n + 1, <<>>) \in Leaves(p + 1, 0, 0, 0)
    BY <2>2, NothingLeads, FailSame
  <2> QED
    BY <2>1, <2>3
<1>6. ASSUME ~(colon /\ ~IsIdentifier(n + 1))
      PROVE  rest \in Leaves(p + 1, 0, 0, 0)
  <2>1. rest = Then(begin, all)
    BY <1>6
  <2> HIDE DEF rest
  <2>2. b \in From(1) /\ b \in From(p + 1)
    <3>1. CASE colon
      <4>1. n + 1 + 1 \in From(1) /\ n + 1 + 1 \in From(n + 1)
        BY <1>4, <1>6, <3>1, NameInside
      <4>2. n + 1 + 1 \in From(p + 1)
        BY <1>4, <3>1, <4>1, Onward
      <4>3. n + 1 + 1 = n + 2
        BY <1>3, PlaceType
      <4> QED
        BY <3>1, <4>1, <4>2, <4>3
    <3>2. CASE ~colon
      BY <1>3, <3>2
    <3> QED
      BY <3>1, <3>2
  <2> HIDE DEF b
  <2>3. open \in From(1) /\ open \in From(p + 1)
    <3>1. EndOfFile \notin {"{"}
      BY DEF EndOfFile
    <3>2. open \in From(b) /\ open \in From(1)
      BY <2>2, <3>1, MatchPlace DEF Match
    <3> HIDE DEF open
    <3> QED
      BY <2>2, <3>2, Onward
  <2> HIDE DEF open
  <2>4. items \in Leaves(p + 1, 0, 0, 0)
    <3>1. "enumerator" \in Items
      BY DEF Items
    <3>2. items \in Leaves(open, 0, 0, 0)
      BY <2>3, <3>1, ParseItemsIs
    <3> HIDE DEF items
    <3> QED
      BY <2>3, <3>2, LeavesOnward
  <2>5. Leads(begin, 0, 0, 0, 1) /\ Leads(ended, 0, 0, 0, -1)
    <3>1. IsKind("")
      BY SomeKinds
    <3>2. Leads(begin, 0, 0, 0, 1)
      BY <1>3, <3>1, OpeningLeads
    <3>3. Leads(ended, 0, 0, 0, -1)
      BY <1>3, <3>1, ClosingLeads
    <3> QED
      BY <3>2, <3>3
  <2> HIDE DEF items, begin, ended
  <2>6. all \in Leaves(p + 1, 0, 0, -1)
    <3>1. err \in BOOLEAN
      OBVIOUS
    <3> HIDE DEF err
    <3> QED
      BY <2>4, <2>5, <3>1, EnumEndIs
  <2> HIDE DEF all
  <2>7. Then(begin, all) \in Leaves(p + 1, 0, 0, 0)
    BY <2>5, <2>6, ThenCloses
  <2> QED
    BY <2>1, <2>7
<1> HIDE DEF rest
<1>7. rest \in Leaves(p + 1, 0, 0, 0)
  BY <1>5, <1>6
<1>8. Leads(ca, 0, 0, 0, 0)
  BY CurrentAccessIs
<1> HIDE DEF ca
<1>9. Then(ca, rest) \in Leaves(p + 1, 0, 0, 0)
  BY <1>7, <1>8, ThenSame
<1> QED
  BY <1>1, <1>9

-----------------------------------------------------------------------------
(* Functions.                                                              *)

\* The end of a function closes it, or fails,
LEMMA ParseFunctionEndIs ==
  ASSUME Texts, input \in Seq(Strings), NEW p \in From(1), NEW name \in Strings
  PROVE  ParseFunctionEnd(p, name) \in Leaves(p, 0, -1, 0)
<1> DEFINE a == Match(p, "const")
           c == Match(a, "override")
           q == Match(c, "noexcept")
           e == Token(q) = "=" /\ Token(q + 1) # EndOfFile
           stop == IF e THEN q + 2 ELSE Match(q, "=")
           ended == <<Call("endFunction", name, "")>>
<1>0. /\ EndOfFile \notin {"const"} /\ EndOfFile \notin {"override"} /\ EndOfFile \notin {"noexcept"}
      /\ EndOfFile \notin {"="}
  BY DEF EndOfFile
<1>1. q \in From(p) /\ q \in From(1)
  <2>1. a \in From(p) /\ a \in From(1)
    BY <1>0, MatchPlace DEF Match
  <2> HIDE DEF a
  <2>2. c \in From(a) /\ c \in From(1)
    BY <1>0, <2>1, MatchPlace DEF Match
  <2> HIDE DEF c
  <2>3. q \in From(c) /\ q \in From(1)
    BY <1>0, <2>2, MatchPlace DEF Match
  <2> HIDE DEF q
  <2> QED
    BY <2>1, <2>2, <2>3, Onward
<1>2. ParseFunctionEnd(p, name) =
        IF e /\ Token(q + 1) \notin {"0", "default", "delete"} THEN FailError(q + 2, <<>>)
        ELSE Done(SkipDeclaration(stop), ended)
  BY DEF ParseFunctionEnd
<1> HIDE DEF q
<1>3. e => q + 2 \in From(1) /\ q + 2 \in From(p)
  <2>1. Token(q) = "=" => Token(q) \in Symbols
    BY DEF Symbols
  <2>2. Token(q) = "=" => q + 1 \in From(1) /\ q + 1 \in From(p)
    BY <1>1, <2>1, SymbolInside, Onward
  <2>3. e => q + 1 + 1 \in From(1) /\ q + 1 + 1 \in From(q + 1)
    BY <2>2, TokenInside
  <2>4. q + 1 + 1 = q + 2
    BY <1>1, PlaceType
  <2> QED
    BY <2>2, <2>3, <2>4, Onward
<1>4. CASE e /\ Token(q + 1) \notin {"0", "default", "delete"}
  <2>1. ParseFunctionEnd(p, name) = FailError(q + 2, <<>>)
    BY <1>2, <1>4
  <2>2. q + 2 \in From(p)
    BY <1>3, <1>4
  <2>3. FailError(q + 2, <<>>) \in Leaves(p, 0, -1, 0)
    BY <2>2, NothingLeads, FailLeaves
  <2> QED
    BY <2>1, <2>3
<1>5. CASE ~(e /\ Token(q + 1) \notin {"0", "default", "delete"})
  <2>1. ParseFunctionEnd(p, name) = Done(SkipDeclaration(stop), ended)
    BY <1>2, <1>5
  <2>2. stop \in From(1) /\ stop \in From(p)
    <3>1. CASE e
      BY <1>3, <3>1
    <3>2. CASE ~e
      <4>1. Match(q, "=") \in From(q) /\ Match(q, "=") \in From(1)
        BY <1>0, <1>1, MatchPlace DEF Match
      <4> HIDE DEF e
      <4> QED
        BY <1>1, <3>2, <4>1, Onward
    <3> QED
      BY <3>1, <3>2
  <2>3. Leads(ended, 0, 0, -1, 0)
    <3>1. IsKind("") /\ "endFunction" \in ElementClosing
      BY SomeKinds DEF ElementClosing
    <3> QED
      BY <3>1, ClosingLeads
  <2> HIDE DEF stop, ended
  <2>4. SkipDeclaration(stop) \in From(p)
    <3>1. SkipDeclaration(stop) \in From(stop)
      BY <2>2, SkipPlace
    <3> QED
      BY <2>2, <3>1, Onward
  <2>5. Done(SkipDeclaration(stop), ended) \in Leaves(p, 0, -1, 0)
    BY <2>3, <2>4, DoneLeaves
  <2> QED
    BY <2>1, <2>5
<1> HIDE DEF e
<1> QED
  BY <1>4, <1>5

\* behind its arguments.
LEMMA ParseArgumentsIs ==
  ASSUME Texts, input \in Seq(Strings), NEW p \in From(1), NEW name \in Strings,
         NEW args \in Leaves(p, 0, 0, 0)
  PROVE  ParseArguments(args, name) \in Leaves(p, 0, -1, 0)
<1> DEFINE q == Match(args.p, ")")
<1>1. args.p \in From(p) /\ args.p \in From(1) /\ args \in Outcomes \cup NodeRecords
  BY LeavesParts
<1>2. q \in From(p) /\ q \in From(1)
  <2>1. EndOfFile \notin {")"}
    BY DEF EndOfFile
  <2>2. q \in From(args.p) /\ q \in From(1)
    BY <1>1, <2>1, MatchPlace DEF Match
  <2> HIDE DEF q
  <2> QED
    BY <1>1, <2>2, Onward
<1>3. ParseArguments(args, name) = IfOk(args, ParseFunctionEnd(q, name))
  BY DEF ParseArguments
<1> HIDE DEF q
<1>4. ParseFunctionEnd(q, name) \in Leaves(p, 0, -1, 0)
  <2>1. ParseFunctionEnd(q, name) \in Leaves(q, 0, -1, 0)
    BY <1>2, ParseFunctionEndIs
  <2> QED
    BY <1>2, <2>1, LeavesOnward
<1>5. args.ok => Leads(args.ev, 0, 0, 0, 0)
  BY DEF Leaves
<1>6. ~args.ok => args \in Leaves(p, 0, -1, 0)
  BY DEF Leaves
<1>7. IfOk(args, ParseFunctionEnd(q, name)) \in Leaves(p, 0, -1, 0)
  <2> DEFINE rest == ParseFunctionEnd(q, name)
  <2>1. rest \in Leaves(p, 0, -1, 0)
    BY <1>4
  <2> HIDE DEF rest
  <2>2. IfOk(args, rest) \in Leaves(p, 0, -1, 0)
    BY <1>1, <1>5, <1>6, <2>1, IfOkLeaves
  <2> QED
    BY <2>2 DEF rest
<1> QED
  BY <1>3, <1>7

\* From its name on, a function or a property takes the type in front of it.
LEMMA ParseNamedIs ==
  ASSUME Texts, input \in Seq(Strings), NotCut(input), NEW p \in From(1), NEW n \in From(p),
         NEW tilde \in BOOLEAN, NEW scope \in ScopeRecords, NEW gone \in Strings
  PROVE  /\ ParseNamed(p, n, tilde, scope, gone) \in Leaves(p, 1, 0, 0)
         /\ ParseNamed(p, n, tilde, scope, gone).ok => ParseNamed(p, n, tilde, scope, gone).p > p
<1> DEFINE op   == ~tilde /\ Token(n) = "operator"
           open == IF ~op THEN n + 1 ELSE IF Token(n + 1) = "(" THEN n + 3 ELSE n + 2
           name ==    (IF tilde THEN "~" ELSE "") \o Token(n)
                   \o (IF op THEN Token(n + 1) ELSE "") \o (IF open = n + 3 THEN ")" ELSE "")
           property == ParseProperty(p, scope, FALSE, FALSE, gone)
           begin == <<Call("beginFunction", name, "")>>
           args == IF Token(open + 1) = ")" THEN Done(open + 1, <<>>)
                                            ELSE ParseItems("argument", open + 1)
           all == Then(begin, ParseArguments(args, name))
           result_ == ParseNamed(p, n, tilde, scope, gone)
<1>0. n \in From(1) /\ n \in Nat /\ p \in Nat /\ n >= p
  BY Onward, PlaceType
<1>1. result_ =
        IF ~IsIdentifier(n) THEN FailError(n, <<>>)
        ELSE IF op /\ Token(n + 1) = EndOfFile THEN Fail(n + 1, <<>>)
        ELSE IF op /\ Token(n + 1) \notin Symbols THEN Fail(n + 2, <<>>)
        ELSE IF open = n + 3 /\ Token(n + 2) = EndOfFile THEN Fail(n + 2, <<>>)
        ELSE IF open = n + 3 /\ Token(n + 2) \notin Spelled(")") THEN FailError(n + 3, <<>>)
        ELSE IF Token(open) # "(" THEN property
        ELSE all
  BY DEF ParseNamed
<1>2. /\ open = n + 3 => op /\ Token(n + 1) = "("
      /\ open = n + 2 => op
      /\ open \in {n + 1, n + 2, n + 3}
  BY <1>0
<1> HIDE DEF result_, property, all
<1>3. ASSUME IsIdentifier(n)
      PROVE  n + 1 \in From(1) /\ n + 1 \in From(p) /\ Token(n) \in Strings
  <2>1. n + 1 \in From(1) /\ n + 1 \in From(n) /\ Token(n) \in Strings
    BY <1>0, <1>3, NameInside
  <2> QED
    BY <1>0, <2>1, Onward
<1>4. ASSUME IsIdentifier(n), Token(n + 1) # EndOfFile
      PROVE  n + 2 \in From(1) /\ n + 2 \in From(p) /\ Token(n + 1) \in Strings
  <2>1. n + 1 \in From(1) /\ n + 1 \in From(p)
    BY <1>3, <1>4
  <2>2. n + 1 + 1 \in From(1) /\ n + 1 + 1 \in From(n + 1) /\ Token(n + 1) \in Strings
    BY <1>4, <2>1, TokenInside
  <2>3. n + 1 + 1 = n + 2
    BY <1>0
  <2> QED
    BY <2>1, <2>2, <2>3, Onward
<1>5. ASSUME IsIdentifier(n), Token(n + 1) # EndOfFile, Token(n + 2) # EndOfFile
      PROVE  n + 3 \in From(1) /\ n + 3 \in From(p)
  <2>1. n + 2 \in From(1) /\ n + 2 \in From(p)
    BY <1>4, <1>5
  <2>2. n + 2 + 1 \in From(1) /\ n + 2 + 1 \in From(n + 2)
    BY <1>5, <2>1, TokenInside
  <2>3. n + 2 + 1 = n + 3
    BY <1>0
  <2> QED
    BY <2>1, <2>2, <2>3, Onward
<1>6. "(" # EndOfFile
  BY DEF EndOfFile
<1>7. ASSUME NEW q \in From(p)
      PROVE  /\ Fail(q, <<>>) \in Leaves(p, 1, 0, 0) /\ FailError(q, <<>>) \in Leaves(p, 1, 0, 0)
             /\ ~Fail(q, <<>>).ok /\ ~FailError(q, <<>>).ok
  BY NothingLeads, FailLeaves
<1> DEFINE Good(r) == r \in Leaves(p, 1, 0, 0) /\ (r.ok => r.p > p)
<1>8. Good(property)
  BY ParsePropertyIs DEF property
<1> HIDE DEF open
<1>9. ASSUME IsIdentifier(n), ~(op /\ Token(n + 1) = EndOfFile),
             ~(open = n + 3 /\ Token(n + 2) = EndOfFile), Token(open) = "("
      PROVE  Good(all)
  <2>1. open \in From(1) /\ open \in From(p) /\ open > p
    <3>1. CASE open = n + 1
      BY <1>0, <1>3, <1>9, <3>1
    <3>2. CASE open = n + 2
      BY <1>0, <1>2, <1>4, <1>9, <3>2
    <3>3. CASE open = n + 3
      BY <1>0, <1>2, <1>5, <1>6, <1>9, <3>3
    <3> QED
      BY <1>2, <3>1, <3>2, <3>3
  <2>2. open + 1 \in From(1) /\ open + 1 \in From(p) /\ open + 1 > p
    <3>1. Token(open) \in Symbols
      BY <1>9 DEF Symbols
    <3>2. open + 1 \in From(1) /\ open + 1 \in From(open)
      BY <2>1, <3>1, SymbolInside
    <3>3. open \in Nat
      BY <2>1, PlaceType
    <3> QED
      BY <1>0, <2>1, <3>2, <3>3, Onward
  <2>3. name \in Strings
    <3> DEFINE a == IF tilde THEN "~" ELSE ""
               c == IF op THEN Token(n + 1) ELSE ""
               d == IF open = n + 3 THEN ")" ELSE ""
    <3>1. a \in Strings /\ d \in Strings
      BY DEF Texts, OtherWords
    <3>2. c \in Strings
      <4>1. CASE op
        BY <1>4, <1>9, <4>1
      <4>2. CASE ~op
        BY <4>2 DEF Texts, OtherWords
      <4> QED
        BY <4>1, <4>2
    <3>3. Token(n) \in Strings
      BY <1>3, <1>9
    <3>4. name = a \o Token(n) \o c \o d
      OBVIOUS
    <3> HIDE DEF a, c, d
    <3>5. \A v \in Strings, w \in Strings : v \o w \in Strings
      BY DEF Texts
    <3>6. a \o Token(n) \o c \o d \in Strings
      BY <3>1, <3>2, <3>3, <3>5
    <3> QED
      BY <3>4, <3>6
  <2>4. args \in Leaves(open + 1, 0, 0, 0)
    <3>1. CASE Token(open + 1) = ")"
      <4>1. open + 1 \in From(open + 1)
        BY <2>2, Here
      <4>2. Done(open + 1, <<>>) \in Leaves(open + 1, 0, 0, 0)
        BY <2>2, <4>1, NothingLeads, DoneLeaves
      <4> QED
        BY <3>1, <4>2
    <3>2. CASE Token(open + 1) # ")"
      <4>1. "argument" \in Items
        BY DEF Items
      <4>2. ParseItems("argument", open + 1) \in Leaves(open + 1, 0, 0, 0)
        BY <2>2, <4>1, ParseItemsIs
      <4> QED
        BY <3>2, <4>2
    <3> QED
      BY <3>1, <3>2
  <2> HIDE DEF name, args
  <2>5. Leads(begin, 1, 0, 1, 0)
    <3>1. IsKind("")
      BY SomeKinds
    <3> QED
      BY <2>3, <3>1, OpeningLeads
  <2> DEFINE rest == ParseArguments(args, name)
  <2>6. rest \in Leaves(open + 1, 0, -1, 0)
    BY <2>2, <2>3, <2>4, ParseArgumentsIs
  <2>7. all = Then(begin, rest)
    BY DEF all
  <2> HIDE DEF begin, rest
  <2>8. rest \in Leaves(p, 0, -1, 0) /\ rest.p > p
    <3>1. rest \in Leaves(p, 0, -1, 0)
      BY <2>2, <2>6, LeavesOnward
    <3>2. rest.p \in From(open + 1)
      BY <2>6 DEF Leaves
    <3>3. rest.p >= open + 1 /\ open + 1 \in Nat /\ rest.p \in Nat
      BY <2>2, <3>2, PlaceType
    <3> QED
      BY <1>0, <2>2, <3>1, <3>3
  <2>9. Then(begin, rest) \in Leaves(p, 1, 0, 0)
    BY <2>5, <2>8, ThenCloses
  <2>10. Then(begin, rest).p = rest.p
    BY DEF Then
  <2> QED
    BY <2>7, <2>8, <2>9, <2>10
<1> HIDE DEF op
<1>10. Good(result_)
  <2>1. CASE ~IsIdentifier(n)
    <3>1. result_ = FailError(n, <<>>)
      BY <1>1, <2>1
    <3> QED
      BY <1>7, <3>1
  <2>2. CASE IsIdentifier(n) /\ op /\ Token(n + 1) = EndOfFile
    <3>1. result_ = Fail(n + 1, <<>>)
      BY <1>1, <2>2
    <3>2. n + 1 \in From(p)
      BY <1>3, <2>2
    <3> QED
      BY <1>7, <3>1, <3>2
  <2>3. CASE IsIdentifier(n) /\ ~(op /\ Token(n + 1) = EndOfFile) /\ op /\ Token(n + 1) \notin Symbols
    <3>1. result_ = Fail(n + 2, <<>>)
      BY <1>1, <2>3
    <3>2. n + 2 \in From(p)
      BY <1>4, <2>3
    <3> QED
      BY <1>7, <3>1, <3>2
  <2>4. CASE /\ IsIdentifier(n) /\ ~(op /\ Token(n + 1) = EndOfFile)
             /\ ~(op /\ Token(n + 1) \notin Symbols)
             /\ open = n + 3 /\ Token(n + 2) = EndOfFile
    <3>1. result_ = Fail(n + 2, <<>>)
      BY <1>1, <2>4
    <3>2. n + 2 \in From(p)
      BY <1>2, <1>4, <2>4
    <3> QED
      BY <1>7, <3>1, <3>2
  <2>5. CASE /\ IsIdentifier(n) /\ ~(op /\ Token(n + 1) = EndOfFile)
             /\ ~(op /\ Token(n + 1) \notin Symbols)
             /\ ~(open = n + 3 /\ Token(n + 2) = EndOfFile)
             /\ open = n + 3 /\ Token(n + 2) \notin Spelled(")")
    <3>1. result_ = FailError(n + 3, <<>>)
      BY <1>1, <2>5
    <3>2. n + 3 \in From(p)
      BY <1>2, <1>5, <2>5
    <3> QED
      BY <1>7, <3>1, <3>2
  <2>6. CASE /\ IsIdentifier(n) /\ ~(op /\ Token(n + 1) = EndOfFile)
             /\ ~(op /\ Token(n + 1) \notin Symbols)
             /\ ~(open = n + 3 /\ Token(n + 2) = EndOfFile)
             /\ ~(open = n + 3 /\ Token(n + 2) \notin Spelled(")"))
             /\ Token(open) # "("
    <3>1. result_ = property
      BY <1>1, <2>6
    <3> QED
      BY <1>8, <3>1
  <2>7. CASE /\ IsIdentifier(n) /\ ~(op /\ Token(n + 1) = EndOfFile)
             /\ ~(op /\ Token(n + 1) \notin Symbols)
             /\ ~(open = n + 3 /\ Token(n + 2) = EndOfFile)
             /\ ~(open = n + 3 /\ Token(n + 2) \notin Spelled(")"))
             /\ Token(open) = "("
    <3>1. result_ = all
      BY <1>1, <2>7
    <3>2. Good(all)
      BY <1>9, <2>7
    <3> QED
      BY <3>1, <3>2
  <2> QED
    BY <2>1, <2>2, <2>3, <2>4, <2>5, <2>6, <2>7
<1> QED
  BY <1>10 DEF result_

\* ParseFunction writes the type and takes it, and moves the cursor unless it fails.
LEMMA ParseFunctionIs ==
  ASSUME Texts, input \in Seq(Strings), NotCut(input), NEW p \in From(1),
         NEW scope \in ScopeRecords, NEW gone \in Strings
  PROVE  /\ ParseFunction(p, scope, gone) \in Leaves(p, 0, 0, 0)
         /\ ParseFunction(p, scope, gone).ok => ParseFunction(p, scope, gone).p > p
<1> DEFINE q == MatchEach(p, {"virtual", "inline", "constexpr", "explicit", "static"})
           special == /\ scope.type \in {"class", "struct", "union"}
                      /\ ~Given(p, q, "static")
                      /\ PeekConstructor(q, scope)
           t == ParseType(q, IF special THEN scope.name ELSE "", TRUE, FALSE)
           ca == CurrentAccess(scope)
           tilde == t.kind = "destructor"
           n == IF tilde THEN Match(t.p, "~") ELSE t.p
           named == ParseNamed(p, n, tilde, scope, gone)
           all == IfOk(t, named)
<1>1. q \in From(p) /\ q \in From(1)
  BY MatchEachPlace
<1>2. ParseFunction(p, scope, gone) = Then(ca, all)
  BY DEF ParseFunction, FunctionOf
<1> HIDE DEF q, special
<1>3. NodeFrom(t, p)
  <2>1. NodeFrom(t, q)
    BY <1>1, VisitedType
  <2> HIDE DEF t
  <2> QED
    BY <1>1, <2>1, NodeOnward
<1> HIDE DEF t
<1>4. n \in From(p)
  <2>1. t.p \in From(p) /\ t.p \in From(1)
    BY <1>3, Onward DEF NodeFrom
  <2>2. EndOfFile \notin {"~"}
    BY DEF EndOfFile
  <2>3. Match(t.p, "~") \in From(t.p)
    BY <2>1, <2>2, MatchPlace DEF Match
  <2>4. Match(t.p, "~") \in From(p)
    BY <2>1, <2>3, Onward
  <2> QED
    BY <2>1, <2>4
<1>5. tilde \in BOOLEAN
  OBVIOUS
<1> HIDE DEF n, tilde
<1>6. named \in Leaves(p, 1, 0, 0) /\ (named.ok => named.p > p)
  BY <1>4, <1>5, ParseNamedIs
<1> HIDE DEF named
<1>7. all \in Leaves(p, 0, 0, 0)
  <2>1. /\ t \in Outcomes \cup NodeRecords
        /\ t.ok => Leads(t.ev, 0, 0 + 1, 0, 0)
        /\ ~t.ok => t \in Leaves(p, 0, 0, 0)
    BY <1>3, NodeLeads
  <2>2. t.ok => Leads(t.ev, 0, 1, 0, 0)
    BY <2>1
  <2> QED
    BY <1>6, <2>1, <2>2, IfOkLeaves
<1>8. all.ok => all.p > p
  BY <1>6 DEF IfOk, Then
<1>9. Leads(ca, 0, 0, 0, 0)
  BY CurrentAccessIs
<1> HIDE DEF ca, all
<1>10. Then(ca, all) \in Leaves(p, 0, 0, 0) /\ Then(ca, all).ok = all.ok /\ Then(ca, all).p = all.p
  BY <1>7, <1>9, ThenSame
<1> QED
  BY <1>2, <1>8, <1>10
=============================================================================
