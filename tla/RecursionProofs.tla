---------------------------- MODULE RecursionProofs ----------------------------
(***************************************************************************)
(* Recursive functions: those that go round by round, as the loops of      *)
(* Grammar do, and FlattenSeq of SequencesExt.  The induction theorems of  *)
(* the library take an operator; the induction here is the least           *)
(* counterexample, which exists because the natural numbers are well       *)
(* founded.                                                                *)
(***************************************************************************)
EXTENDS Integers, SequencesExt, SequenceTheorems, WellFoundedInduction, TLAPS

\* Every set of natural numbers that is not empty has a least element.
LEMMA LeastNatural ==
  ASSUME NEW T, T \subseteq Nat, T # {}
  PROVE  \E n \in T : \A m \in T : n <= m
<1> DEFINE Less == {ss \in Nat \X Nat : ss[1] < ss[2]}
<1>1. IsWellFoundedOn(Less, Nat)
  <2>1. OpToRel(<, Nat) = Less
    BY DEF OpToRel
  <2> QED
    BY <2>1, NatLessThanWellFounded, Zenon
<1>2. PICK n \in T : \A m \in T : ~(<<m, n>> \in Less)
  <2> HIDE DEF Less
  <2> QED
    BY <1>1, WFMin
<1>3. ASSUME NEW m \in T
      PROVE  n <= m
  <2>1. m \in Nat /\ n \in Nat
    OBVIOUS
  <2>2. m < n => <<m, n>> \in Less
    BY <2>1
  <2> HIDE DEF Less
  <2> QED
    BY <1>2, <2>1, <2>2
<1> QED
  BY <1>3

-----------------------------------------------------------------------------
(* Round by round.                                                         *)

\* f goes n times from v on with g.
Rounds(f, v, g, n) == f = [i \in 0 .. n |-> IF i = 0 THEN v ELSE g[f[i - 1]]]

\* What holds at the start and is kept from round to round holds in every round.
LEMMA RoundsStay ==
  ASSUME NEW V, NEW n \in Nat, NEW f, f[0] \in V,
         \A i \in 1 .. n : f[i - 1] \in V => f[i] \in V
  PROVE  \A i \in 0 .. n : f[i] \in V
<1> DEFINE Bad == {i \in 0 .. n : f[i] \notin V}
<1>1. SUFFICES ASSUME Bad # {} PROVE FALSE
  OBVIOUS
<1>2. PICK i \in Bad : \A j \in Bad : i <= j
  <2>1. Bad \subseteq Nat
    OBVIOUS
  <2> HIDE DEF Bad
  <2> QED
    BY <1>1, <2>1, LeastNatural
<1>3. i \in 0 .. n /\ f[i] \notin V
  OBVIOUS
<1>4. i \in 1 .. n
  BY <1>3
<1>5. f[i - 1] \in V
  <2>1. i - 1 \in 0 .. n /\ ~(i <= i - 1)
    BY <1>4
  <2> QED
    BY <1>2, <2>1
<1> QED
  BY <1>3, <1>4, <1>5

\* There is such a function, and it stays where g does.
LEMMA RoundsExist ==
  ASSUME NEW V, NEW v \in V, NEW g \in [V -> V], NEW n \in Nat
  PROVE  \E f : Rounds(f, v, g, n) /\ \A i \in 0 .. n : f[i] \in V
<1>0. \E f : Rounds(f, v, g, n)
  <2> DEFINE Bad == {k \in Nat : ~\E f : Rounds(f, v, g, k)}
  <2>1. SUFFICES ASSUME Bad # {} PROVE FALSE
    OBVIOUS
  <2>2. PICK k \in Bad : \A j \in Bad : k <= j
    <3>1. Bad \subseteq Nat
      OBVIOUS
    <3> HIDE DEF Bad
    <3> QED
      BY <2>1, <3>1, LeastNatural
  <2>3. k \in Nat /\ ~\E f : Rounds(f, v, g, k)
    OBVIOUS
  <2>4. CASE k = 0
    <3> DEFINE f == [i \in 0 .. 0 |-> v]
    <3>1. \A i \in 0 .. 0 : v = IF i = 0 THEN v ELSE g[f[i - 1]]
      OBVIOUS
    <3>2. f = [i \in 0 .. 0 |-> IF i = 0 THEN v ELSE g[f[i - 1]]]
      BY <3>1
    <3> HIDE DEF f
    <3> QED
      BY <2>3, <2>4, <3>2 DEF Rounds
  <2>5. CASE k # 0
    <3>1. k - 1 \in Nat /\ ~(k <= k - 1)
      BY <2>3, <2>5
    <3>2. PICK f : Rounds(f, v, g, k - 1)
      BY <2>2, <3>1
    <3> DEFINE h == [i \in 0 .. k |-> IF i = 0 THEN v ELSE g[f[i - 1]]]
               e == [i \in 0 .. k - 1 |-> IF i = 0 THEN v ELSE g[f[i - 1]]]
    <3>3. f = e
      BY <3>2 DEF Rounds
    <3>4. ASSUME NEW i \in 1 .. k
          PROVE  f[i - 1] = h[i - 1]
      <4>1. i - 1 \in 0 .. k - 1 /\ i - 1 \in 0 .. k
        BY <2>3
      <4>2. e[i - 1] = IF i - 1 = 0 THEN v ELSE g[f[i - 1 - 1]]
        BY <4>1
      <4>3. h[i - 1] = IF i - 1 = 0 THEN v ELSE g[f[i - 1 - 1]]
        BY <4>1
      <4> HIDE DEF e, h
      <4> QED
        BY <3>3, <4>2, <4>3
    <3>5. \A i \in 0 .. k : (IF i = 0 THEN v ELSE g[f[i - 1]]) = IF i = 0 THEN v ELSE g[h[i - 1]]
      <4>1. \A i \in 0 .. k : i # 0 => i \in 1 .. k
        BY <2>3
      <4> HIDE DEF h
      <4> QED
        BY <3>4, <4>1
    <3>6. h = [i \in 0 .. k |-> IF i = 0 THEN v ELSE g[h[i - 1]]]
      <4>1. [i \in 0 .. k |-> IF i = 0 THEN v ELSE g[f[i - 1]]]
              = [i \in 0 .. k |-> IF i = 0 THEN v ELSE g[h[i - 1]]]
        <5> HIDE DEF h
        <5> QED
          BY <3>5
      <4> QED
        BY <4>1
    <3> HIDE DEF h
    <3> QED
      BY <2>3, <3>6 DEF Rounds
  <2> QED
    BY <2>4, <2>5
<1>1. PICK f : Rounds(f, v, g, n)
  BY <1>0
<1> DEFINE e == [i \in 0 .. n |-> IF i = 0 THEN v ELSE g[f[i - 1]]]
<1>2. f = e
  BY <1>1 DEF Rounds
<1>3. e[0] = v /\ \A i \in 1 .. n : e[i] = g[f[i - 1]]
  OBVIOUS
<1> HIDE DEF e
<1>4. f[0] \in V /\ \A i \in 1 .. n : f[i - 1] \in V => f[i] \in V
  BY <1>2, <1>3
<1>5. \A i \in 0 .. n : f[i] \in V
  BY <1>4, RoundsStay
<1> QED
  BY <1>1, <1>5

-----------------------------------------------------------------------------
(* Sequences of sequences.                                                 *)

\* f is the local function of FlattenSeq, on the first n sequences of s.
Flattens(f, s, n) ==
  f = [i \in 1 .. n |-> IF i = 1 THEN s[i] ELSE f[i - 1] \o s[i]]

LEMMA FlattensAt ==
  ASSUME NEW s, NEW n \in Nat, NEW f, Flattens(f, s, n), NEW i \in 1 .. n
  PROVE  f[i] = IF i = 1 THEN s[i] ELSE f[i - 1] \o s[i]
<1> DEFINE g == [j \in 1 .. n |-> IF j = 1 THEN s[j] ELSE f[j - 1] \o s[j]]
<1>1. f = g
  BY DEF Flattens
<1>2. g[i] = IF i = 1 THEN s[i] ELSE f[i - 1] \o s[i]
  OBVIOUS
<1> QED
  BY <1>1, <1>2

Agree(f, g, n) == \A i \in 1 .. n : f[i] = g[i]

\* Two such functions agree where the sequences they flatten do.
LEMMA FlattensAgree ==
  ASSUME NEW s, NEW u, NEW n \in Nat, NEW m \in Nat, n <= m,
         Agree(s, u, n), NEW f, NEW g, Flattens(f, s, n), Flattens(g, u, m)
  PROVE  Agree(f, g, n)
<1> USE DEF Agree
<1> DEFINE T == {i \in 1 .. n : f[i] # g[i]}
<1>1. SUFFICES ASSUME T # {} PROVE FALSE
  OBVIOUS
<1>2. PICK i \in T : \A j \in T : i <= j
  <2>1. T \subseteq Nat
    OBVIOUS
  <2> HIDE DEF T
  <2> QED
    BY <1>1, <2>1, LeastNatural
<1>3. i \in 1 .. n /\ i \in 1 .. m /\ f[i] # g[i]
  OBVIOUS
<1>4. /\ f[i] = IF i = 1 THEN s[i] ELSE f[i - 1] \o s[i]
      /\ g[i] = IF i = 1 THEN u[i] ELSE g[i - 1] \o u[i]
  BY <1>3, FlattensAt
<1>5. CASE i = 1
  BY <1>3, <1>4, <1>5
<1>6. CASE i # 1
  <2>1. i - 1 \in 1 .. n /\ ~(i <= i - 1)
    BY <1>3, <1>6
  <2>2. f[i - 1] = g[i - 1]
    BY <1>2, <2>1
  <2> QED
    BY <1>3, <1>4, <1>6, <2>2
<1> QED
  BY <1>5, <1>6

LEMMA FlattensExists ==
  ASSUME NEW T, \A a \in T, b \in T : a \o b \in T,
         NEW s \in Seq(T), NEW n \in Nat, n <= Len(s)
  PROVE  \E f : Flattens(f, s, n) /\ \A i \in 1 .. n : f[i] \in T
<1> DEFINE Good(k) == \E f : Flattens(f, s, k) /\ \A i \in 1 .. k : f[i] \in T
           Bad == {k \in 0 .. Len(s) : ~Good(k)}
<1>0. Len(s) \in Nat /\ \A i \in 1 .. Len(s) : s[i] \in T
  BY ElementOfSeq, LenProperties
<1>1. SUFFICES ASSUME Bad # {} PROVE FALSE
  BY <1>0
<1>2. PICK k \in Bad : \A j \in Bad : k <= j
  <2>1. Bad \subseteq Nat
    BY <1>0
  <2> HIDE DEF Bad
  <2> QED
    BY <1>1, <2>1, LeastNatural
<1>3. k # 0
  <2>1. Flattens([i \in 1 .. 0 |-> IF i = 1 THEN s[i] ELSE [j \in {} |-> j][i - 1] \o s[i]], s, 0)
    BY DEF Flattens
  <2>2. \A i \in 1 .. 0 : FALSE
    OBVIOUS
  <2> QED
    BY <2>1, <2>2
<1>4. k - 1 \in 0 .. Len(s) /\ k - 1 \notin Bad /\ k \in 1 .. Len(s)
  <2>1. k \in 0 .. Len(s)
    OBVIOUS
  <2>2. k - 1 \in 0 .. Len(s) /\ k \in 1 .. Len(s) /\ ~(k <= k - 1)
    BY <1>0, <1>3, <2>1
  <2> HIDE DEF Bad
  <2> QED
    BY <1>2, <2>2
<1>5. PICK f : Flattens(f, s, k - 1) /\ \A i \in 1 .. k - 1 : f[i] \in T
  BY <1>4
<1> DEFINE g == [i \in 1 .. k |-> IF i = 1 THEN s[i] ELSE f[i - 1] \o s[i]]
<1>6. \A i \in 1 .. k - 1 : g[i] = f[i]
  <2> SUFFICES ASSUME NEW i \in 1 .. k - 1 PROVE g[i] = f[i]
    OBVIOUS
  <2>1. i \in 1 .. k /\ k - 1 \in Nat
    BY <1>4
  <2>2. f[i] = IF i = 1 THEN s[i] ELSE f[i - 1] \o s[i]
    BY <1>5, <2>1, FlattensAt
  <2> QED
    BY <2>1, <2>2
<1>7. Flattens(g, s, k)
  <2>1. ASSUME NEW i \in 1 .. k
        PROVE  (IF i = 1 THEN s[i] ELSE f[i - 1] \o s[i]) = IF i = 1 THEN s[i] ELSE g[i - 1] \o s[i]
    <3>1. CASE i = 1
      BY <3>1
    <3>2. CASE i # 1
      <4>1. i - 1 \in 1 .. k - 1
        BY <1>4, <3>2
      <4>2. g[i - 1] = f[i - 1]
        BY <1>6, <4>1
      <4> HIDE DEF g
      <4> QED
        BY <3>2, <4>2
    <3> QED
      BY <3>1, <3>2
  <2>2. [i \in 1 .. k |-> IF i = 1 THEN s[i] ELSE f[i - 1] \o s[i]]
          = [i \in 1 .. k |-> IF i = 1 THEN s[i] ELSE g[i - 1] \o s[i]]
    <3> HIDE DEF g
    <3> QED
      BY <2>1
  <2> QED
    BY <2>2 DEF Flattens
<1>8. \A i \in 1 .. k : g[i] \in T
  <2> SUFFICES ASSUME NEW i \in 1 .. k PROVE g[i] \in T
    OBVIOUS
  <2>1. s[i] \in T
    BY <1>0, <1>4
  <2>2. CASE i = 1
    BY <2>1, <2>2
  <2>3. CASE i # 1
    <3>1. f[i - 1] \in T
      BY <1>4, <1>5, <2>3
    <3> QED
      BY <2>1, <2>3, <3>1
  <2> QED
    BY <2>2, <2>3
<1>9. Good(k)
  <2> HIDE DEF g
  <2> QED
    BY <1>7, <1>8
<1> QED
  BY <1>9

\* FlattenSeq of a sequence of sequences is what any such function has last.
LEMMA FlattenSeqIs ==
  ASSUME NEW T, \A a \in T, b \in T : a \o b \in T,
         NEW s \in Seq(T), Len(s) # 0
  PROVE  \E f : /\ Flattens(f, s, Len(s))
                /\ FlattenSeq(s) = f[Len(s)]
                /\ \A i \in 1 .. Len(s) : f[i] \in T
<1> DEFINE f == CHOOSE f : f = [i \in 1 .. Len(s) |-> IF i = 1 THEN s[i] ELSE f[i - 1] \o s[i]]
<1>0. Len(s) \in Nat
  BY LenProperties
<1>1. PICK g : Flattens(g, s, Len(s)) /\ \A i \in 1 .. Len(s) : g[i] \in T
  BY <1>0, FlattensExists
<1>2. f = [i \in 1 .. Len(s) |-> IF i = 1 THEN s[i] ELSE f[i - 1] \o s[i]]
  <2>1. g = [i \in 1 .. Len(s) |-> IF i = 1 THEN s[i] ELSE g[i - 1] \o s[i]]
    BY <1>1 DEF Flattens
  <2> QED
    BY <2>1
<1>3. Flattens(f, s, Len(s))
  <2> HIDE DEF f
  <2> QED
    BY <1>2 DEF Flattens
<1>4. Agree(f, g, Len(s))
  <2>1. Agree(s, s, Len(s))
    BY DEF Agree
  <2> HIDE DEF f
  <2> QED
    BY <1>0, <1>1, <1>3, <2>1, FlattensAgree
<1>5. FlattenSeq(s) = f[Len(s)]
  BY DEF FlattenSeq
<1> QED
  <2> HIDE DEF f
  <2> QED
    BY <1>1, <1>3, <1>4, <1>5 DEF Agree

\* What \o keeps in a set, FlattenSeq does.
LEMMA FlattenIn ==
  ASSUME NEW T, \A a \in T, b \in T : a \o b \in T, NEW s \in Seq(T), Len(s) # 0
  PROVE  FlattenSeq(s) \in T
<1>1. PICK f : FlattenSeq(s) = f[Len(s)] /\ \A i \in 1 .. Len(s) : f[i] \in T
  BY FlattenSeqIs
<1>2. Len(s) \in 1 .. Len(s)
  BY LenProperties
<1> QED
  BY <1>1, <1>2

LEMMA FlattenEmpty == FlattenSeq(<< >>) = << >>
BY DEF FlattenSeq

\* One more sequence is added behind the others.
LEMMA FlattenAppend ==
  ASSUME NEW S, NEW s \in Seq(Seq(S)), NEW r \in Seq(S)
  PROVE  /\ FlattenSeq(s) \in Seq(S)
         /\ FlattenSeq(Append(s, r)) = FlattenSeq(s) \o r
<1> DEFINE u == Append(s, r)
<1>1. /\ Len(s) \in Nat /\ u \in Seq(Seq(S)) /\ Len(u) = Len(s) + 1
      /\ \A i \in 1 .. Len(s) : s[i] = u[i]
      /\ u[Len(s) + 1] = r
  BY LenProperties, AppendProperties
<1> HIDE DEF u
<1>2. PICK g : Flattens(g, u, Len(u)) /\ FlattenSeq(u) = g[Len(u)]
  <2>1. \A a \in Seq(S), b \in Seq(S) : a \o b \in Seq(S)
    BY ConcatProperties
  <2>2. Len(u) # 0
    BY <1>1
  <2>3. \E f : /\ Flattens(f, u, Len(u))
                /\ FlattenSeq(u) = f[Len(u)]
                /\ \A i \in 1 .. Len(u) : f[i] \in Seq(S)
    BY <1>1, <2>1, <2>2, FlattenSeqIs
  <2> QED
    BY <2>3
<1>3. g[Len(u)] = IF Len(u) = 1 THEN u[Len(u)] ELSE g[Len(u) - 1] \o u[Len(u)]
  BY <1>1, <1>2, FlattensAt
<1>4. CASE Len(s) = 0
  <2>1. s = << >>
    BY <1>4, EmptySeq
  <2>2. FlattenSeq(s) = << >>
    BY <2>1, FlattenEmpty
  <2>3. FlattenSeq(u) = r
    BY <1>1, <1>2, <1>3, <1>4
  <2> QED
    BY <2>2, <2>3, EmptySeq, ConcatEmptySeq DEF u
<1>5. CASE Len(s) # 0
  <2>1. PICK f : /\ Flattens(f, s, Len(s))
                 /\ FlattenSeq(s) = f[Len(s)]
                 /\ \A i \in 1 .. Len(s) : f[i] \in Seq(S)
    <3>1. \A a \in Seq(S), b \in Seq(S) : a \o b \in Seq(S)
      BY ConcatProperties
    <3> QED
      BY <1>5, <3>1, FlattenSeqIs
  <2>2. Agree(f, g, Len(s))
    <3>1. Len(u) \in Nat /\ Len(s) <= Len(u) /\ Agree(s, u, Len(s))
      BY <1>1 DEF Agree
    <3> QED
      BY <1>1, <1>2, <2>1, <3>1, FlattensAgree
  <2>3. Len(s) \in 1 .. Len(s) /\ Len(u) # 1 /\ Len(u) - 1 = Len(s)
    BY <1>1, <1>5
  <2>4. g[Len(s)] = FlattenSeq(s) /\ FlattenSeq(s) \in Seq(S)
    BY <2>1, <2>2, <2>3 DEF Agree
  <2>5. FlattenSeq(u) = FlattenSeq(s) \o r
    BY <1>1, <1>2, <1>3, <2>3, <2>4
  <2> QED
    BY <2>4, <2>5 DEF u
<1> QED
  BY <1>4, <1>5

=============================================================================
