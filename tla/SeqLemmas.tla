----------------------------- MODULE SeqLemmas -----------------------------
(***************************************************************************)
(* Facts about concatenating, cutting and filtering sequences, and the     *)
(* least element of a set of naturals, used by the proofs.                 *)
(* Each is named as an operator on the set of elements, so that a proof    *)
(* first fixes that set and then instantiates the sequences.               *)
(***************************************************************************)
EXTENDS SeqFilter, SequenceTheorems, WellFoundedInduction, TLAPS

Closed(S) == \A a, b \in Seq(S) : a \o b \in Seq(S)

AssocAt(a, b, c) == (a \o b) \o c = a \o (b \o c)
Assoc(S) == \A a, b, c \in Seq(S) : AssocAt(a, b, c)

\* The two parts of s cut after n.
Front(s, n) == SubSeq(s, 1, n)
Back(s, n) == SubSeq(s, n + 1, Len(s))

Cuts(S) ==
    \A s \in Seq(S) : \A n \in 0..Len(s) :
        /\ Front(s, n) \in Seq(S)
        /\ Back(s, n) \in Seq(S)
        /\ Front(s, n) \o Back(s, n) = s

\* Moving the front of b behind a changes neither a \o b nor c \o a \o b.
ShiftAt(a, b, n) == (a \o Front(b, n)) \o Back(b, n) = a \o b
Shifts(S) == \A a, b \in Seq(S) : \A n \in 0..Len(b) : ShiftAt(a, b, n)

InnerShiftAt(c, a, b, n) == c \o (a \o Front(b, n)) \o Back(b, n) = c \o a \o b
InnerShifts(S) ==
    \A a, b, c \in Seq(S) : \A n \in 0..Len(b) : InnerShiftAt(c, a, b, n)

\* The front of d joins c, and then the front of that joins b.
Joined(c, d, n) == c \o Front(d, n)

PipelineAt(a, b, c, d, n, k) ==
    a \o (b \o Front(Joined(c, d, n), k)) \o Back(Joined(c, d, n), k) \o Back(d, n)
        = a \o b \o c \o d

Pipelines(S) ==
    \A a, b, c, d \in Seq(S) : \A n \in 0..Len(d) : \A k \in 0..Len(Joined(c, d, n)) :
        PipelineAt(a, b, c, d, n, k)

\* Dropping a front part of a from a \o b.
DropAt(a, b, n) == Back(a \o b, n) = Back(a, n) \o b
Drops(S) == \A a, b \in Seq(S) : \A n \in 0..Len(a) : DropAt(a, b, n)

-----------------------------------------------------------------------------

\* Every non-empty set of naturals has a least element: an induction over the
\* naturals is an argument about the least counterexample.
LEMMA NatMin ==
    ASSUME NEW T \in SUBSET Nat, T # {}
    PROVE  \E m \in T : \A k \in T : m <= k
<1> DEFINE R == {p \in Nat \X Nat : p[1] < p[2]}
<1>1. IsWellFoundedOn(R, Nat)
  BY NatLessThanWellFounded DEF OpToRel
<1> HIDE DEF R
<1>2. PICK x \in T : \A y \in T : ~(<<y, x>> \in R)
  BY <1>1, WFMin
<1>3. \A y \in T : ~(y < x)
  BY <1>2 DEF R
<1> QED BY <1>3

\* A run of numbers in which none is smaller than the one before ends with its
\* largest.
LEMMA LastOfRun ==
    ASSUME NEW n \in Nat, NEW f, \A j \in 1..n : f[j] \in Int,
           \A j \in 2..n : f[j - 1] <= f[j], NEW i \in 1..n
    PROVE  f[i] <= f[n]
<1> DEFINE T == {j \in i..n : ~(f[i] <= f[j])}
<1>1. T = {}
  <2>1. SUFFICES ASSUME T # {} PROVE FALSE
    OBVIOUS
  <2>2. T \in SUBSET Nat
    OBVIOUS
  <2>3. PICK m \in T : \A k \in T : m <= k
    BY <2>1, <2>2, NatMin
  <2>4. m \in i..n /\ ~(f[i] <= f[m]) /\ m # i
    BY <2>3
  <2>5. m - 1 \in i..n /\ m \in 2..n /\ m - 1 \notin T
    BY <2>3, <2>4
  <2>6. f[i] <= f[m - 1]
    BY <2>5
  <2>7. f[m] \in Int /\ f[m - 1] \in Int /\ f[i] \in Int /\ f[m - 1] <= f[m]
    BY <2>4, <2>5
  <2> QED BY <2>4, <2>6, <2>7
<1>2. n \in i..n
  OBVIOUS
<1> QED BY <1>1, <1>2

\* Concatenation is closed and associative.
LEMMA ConcatFacts == ASSUME NEW S PROVE Closed(S) /\ Assoc(S)
<1>1. \A a, b \in Seq(S) : a \o b \in Seq(S)
  BY Z3
<1>2. \A a, b, c \in Seq(S) : (a \o b) \o c = a \o (b \o c)
  BY Z3
<1> QED BY <1>1, <1>2 DEF Closed, Assoc, AssocAt

\* A sequence cut in two at any place keeps its type and its contents.
LEMMA CutFact == ASSUME NEW S PROVE Cuts(S)
<1> SUFFICES ASSUME NEW s \in Seq(S), NEW n \in 0..Len(s)
             PROVE  /\ Front(s, n) \in Seq(S)
                    /\ Back(s, n) \in Seq(S)
                    /\ Front(s, n) \o Back(s, n) = s
  BY DEF Cuts
<1>1. SubSeq(s, 1, n) \in Seq(S)
  BY SubSeqProperties, LenProperties
<1>2. SubSeq(s, n + 1, Len(s)) \in Seq(S)
  <2>1. \A i \in (n + 1)..Len(s) : s[i] \in S
    BY LenProperties
  <2> QED BY <2>1, SubSeqProperties, LenProperties
<1>3. SubSeq(s, 1, n) \o SubSeq(s, n + 1, Len(s)) = SubSeq(s, 1, Len(s))
  <2>1. /\ 1 \in 1..(Len(s) + 1) /\ n \in (1 - 1)..Len(s) /\ Len(s) \in n..Len(s)
    BY LenProperties
  <2> QED BY <2>1, ConcatAdjacentSubSeq
<1>4. SubSeq(s, 1, Len(s)) = s
  BY SubSeqFull
<1> QED BY <1>1, <1>2, <1>3, <1>4 DEF Front, Back

\* Moving a front part from one sequence to the end of the one before it.
LEMMA ShiftFact == ASSUME NEW S PROVE Shifts(S)
<1> SUFFICES ASSUME NEW a \in Seq(S), NEW b \in Seq(S), NEW n \in 0..Len(b)
             PROVE  ShiftAt(a, b, n)
  BY DEF Shifts
<1>1. Assoc(S) /\ Cuts(S)
  BY ConcatFacts, CutFact
<1>2. /\ Front(b, n) \in Seq(S) /\ Back(b, n) \in Seq(S)
      /\ Front(b, n) \o Back(b, n) = b
  BY <1>1 DEF Cuts
<1>3. (a \o Front(b, n)) \o Back(b, n) = a \o (Front(b, n) \o Back(b, n))
  BY ONLY <1>1, <1>2, a \in Seq(S), Zenon DEF Assoc, AssocAt
<1> QED BY ONLY <1>2, <1>3 DEF ShiftAt

\* The same with another sequence in front.
LEMMA InnerShiftFact == ASSUME NEW S PROVE InnerShifts(S)
<1> SUFFICES ASSUME NEW a \in Seq(S), NEW b \in Seq(S), NEW c \in Seq(S),
                    NEW n \in 0..Len(b)
             PROVE  InnerShiftAt(c, a, b, n)
  BY DEF InnerShifts
<1>1. Closed(S) /\ Assoc(S) /\ Cuts(S) /\ Shifts(S)
  BY ConcatFacts, CutFact, ShiftFact
<1>2. Front(b, n) \in Seq(S) /\ Back(b, n) \in Seq(S)
  BY <1>1 DEF Cuts
<1>3. (a \o Front(b, n)) \o Back(b, n) = a \o b
  BY ONLY <1>1, a \in Seq(S), b \in Seq(S), n \in 0..Len(b) DEF Shifts, ShiftAt
<1>4. a \o Front(b, n) \in Seq(S)
  BY ONLY <1>1, <1>2, a \in Seq(S), Zenon DEF Closed
<1>5. c \o (a \o Front(b, n)) \o Back(b, n) = c \o ((a \o Front(b, n)) \o Back(b, n))
  BY ONLY <1>1, <1>2, <1>4, c \in Seq(S), Zenon DEF Assoc, AssocAt
<1>6. c \o a \o b = c \o (a \o b)
  BY ONLY <1>1, a \in Seq(S), b \in Seq(S), c \in Seq(S), Zenon DEF Assoc, AssocAt
<1> QED BY ONLY <1>3, <1>5, <1>6 DEF InnerShiftAt

\* One step of a pipeline of four sequences.
LEMMA PipelineFact == ASSUME NEW S PROVE Pipelines(S)
<1> SUFFICES ASSUME NEW a, NEW b, NEW c, NEW d, NEW n, NEW k,
                    a \in Seq(S), b \in Seq(S), c \in Seq(S), d \in Seq(S),
                    n \in 0..Len(d), k \in 0..Len(Joined(c, d, n))
             PROVE  PipelineAt(a, b, c, d, n, k)
  BY Zenon DEF Pipelines
<1> DEFINE t == Joined(c, d, n)
<1>1. Closed(S) /\ Assoc(S) /\ Cuts(S) /\ Shifts(S)
  BY ConcatFacts, CutFact, ShiftFact
<1>2. Front(d, n) \in Seq(S) /\ Back(d, n) \in Seq(S)
  BY <1>1 DEF Cuts
<1>3. t \in Seq(S) /\ a \o b \in Seq(S)
  BY ONLY <1>1, <1>2, a \in Seq(S), b \in Seq(S), c \in Seq(S), Zenon DEF Closed, Joined
<1>4. k \in 0..Len(t)
  OBVIOUS
<1>5. t \o Back(d, n) = c \o d
  BY ONLY <1>1, c \in Seq(S), d \in Seq(S), n \in 0..Len(d) DEF Shifts, ShiftAt, Joined
<1> HIDE DEF t
<1>6. Front(t, k) \in Seq(S) /\ Back(t, k) \in Seq(S)
  BY <1>1, <1>3, <1>4 DEF Cuts
<1>7. a \o (b \o Front(t, k)) = (a \o b) \o Front(t, k)
  BY ONLY <1>1, <1>6, a \in Seq(S), b \in Seq(S), Zenon DEF Assoc, AssocAt
<1>8. ((a \o b) \o Front(t, k)) \o Back(t, k) = (a \o b) \o t
  BY ONLY <1>1, <1>3, <1>4 DEF Shifts, ShiftAt
<1>9. ((a \o b) \o t) \o Back(d, n) = (a \o b) \o (t \o Back(d, n))
  <2>1. t \in Seq(S) /\ Back(d, n) \in Seq(S) /\ Assoc(S)
    BY <1>1, <1>2, <1>3
  <2>2. \A x \in Seq(S) : (x \o t) \o Back(d, n) = x \o (t \o Back(d, n))
    BY ONLY <2>1, Zenon DEF Assoc, AssocAt
  <2>3. a \o b \in Seq(S)
    BY <1>3
  <2> QED BY ONLY <2>2, <2>3, Zenon
<1>10. ((a \o b) \o c) \o d = (a \o b) \o (c \o d)
  BY ONLY <1>1, <1>3, c \in Seq(S), d \in Seq(S), Zenon DEF Assoc, AssocAt
<1>11. a \o (b \o Front(t, k)) \o Back(t, k) \o Back(d, n) = a \o b \o c \o d
  BY ONLY <1>5, <1>7, <1>8, <1>9, <1>10
<1> QED BY <1>11 DEF t, PipelineAt

\* What is dropped from the front of a concatenation is dropped from its first
\* part, as long as that is long enough.
LEMMA DropFact == ASSUME NEW S PROVE Drops(S)
<1> SUFFICES ASSUME NEW a \in Seq(S), NEW b \in Seq(S), NEW n \in 0..Len(a)
             PROVE  DropAt(a, b, n)
  BY DEF Drops
<1>1. /\ Len(a) \in Nat /\ Len(b) \in Nat
      /\ a \o b \in Seq(S) /\ Len(a \o b) = Len(a) + Len(b)
  BY LenProperties, ConcatProperties
<1> DEFINE c == Back(a, n)
           d == Back(a \o b, n)
<1>2. /\ c \in Seq(S) /\ Len(c) = Len(a) - n
      /\ \A i \in 1..(Len(a) - n) : c[i] = a[n + i]
  BY <1>1, CutFact DEF Cuts, Back
<1>3. /\ d \in Seq(S) /\ Len(d) = Len(a) + Len(b) - n
      /\ \A i \in 1..(Len(a) + Len(b) - n) : d[i] = (a \o b)[n + i]
  BY <1>1, CutFact DEF Cuts, Back
<1>4. \A i \in 1..(Len(a) + Len(b)) :
         (a \o b)[i] = IF i <= Len(a) THEN a[i] ELSE b[i - Len(a)]
  BY ConcatProperties
<1> HIDE DEF c, d
<1>5. /\ c \o b \in Seq(S) /\ Len(c \o b) = Len(c) + Len(b)
      /\ \A i \in 1..(Len(c) + Len(b)) :
           (c \o b)[i] = IF i <= Len(c) THEN c[i] ELSE b[i - Len(c)]
  BY <1>2, ConcatProperties
<1>6. ASSUME NEW i \in 1..Len(d) PROVE d[i] = (c \o b)[i]
  <2>1. d[i] = IF n + i <= Len(a) THEN a[n + i] ELSE b[n + i - Len(a)]
    BY <1>1, <1>3, <1>4
  <2>2. (c \o b)[i] = IF i <= Len(c) THEN c[i] ELSE b[i - Len(c)]
    BY <1>1, <1>2, <1>3, <1>5
  <2>3. i - Len(c) = n + i - Len(a) /\ (i <= Len(c) <=> n + i <= Len(a))
    BY <1>1, <1>2, <1>3
  <2>4. CASE i <= Len(c)
    BY <1>1, <1>2, <2>1, <2>2, <2>3, <2>4
  <2>5. CASE ~(i <= Len(c))
    BY <2>1, <2>2, <2>3, <2>5
  <2> QED BY <2>4, <2>5
<1>7. Len(d) = Len(c \o b)
  BY <1>1, <1>2, <1>3, <1>5
<1>8. d = c \o b
  BY <1>3, <1>5, <1>6, <1>7, SeqEqual
<1> QED BY <1>8 DEF c, d, DropAt

-----------------------------------------------------------------------------
(* The elements that are kept *)

\* One more element is looked at.
Took(t, x, S) == IF x \in S THEN Append(t, x) ELSE t

KeepsUpTo(g, s, S, n) == g[0] = <<>> /\ \A i \in 1..n : g[i] = Took(g[i - 1], s[i], S)

\* There is a function that does what the definition of Kept asks: were there a
\* shortest front part without one, the one for the part before it could be extended.
LEMMA KeptExists ==
    ASSUME NEW T, NEW S, NEW s \in Seq(T)
    PROVE  \E g \in [0..Len(s) -> Seq(T)] : KeepsUpTo(g, s, S, Len(s))
<1> DEFINE Can(n) == \E g \in [0..n -> Seq(T)] : KeepsUpTo(g, s, S, n)
           Bad == {n \in 0..Len(s) : ~Can(n)}
<1>1. Len(s) \in Nat
  OBVIOUS
<1>2. Bad = {}
  <2>1. SUFFICES ASSUME Bad # {} PROVE FALSE
    OBVIOUS
  <2>2. PICK m \in Bad : \A k \in Bad : m <= k
    <3>1. Bad \in SUBSET Nat
      BY <1>1
    <3> HIDE DEF Bad
    <3> QED BY <2>1, <3>1, NatMin
  <2>3. m \in 0..Len(s) /\ ~Can(m)
    BY <2>2
  <2>4. CASE m = 0
    <3>1. [i \in 0..0 |-> <<>>] \in [0..0 -> Seq(T)] /\ KeepsUpTo([i \in 0..0 |-> <<>>], s, S, 0)
      BY DEF KeepsUpTo
    <3> QED BY <2>3, <2>4, <3>1
  <2>5. CASE m # 0
    <3>1. m - 1 \in 0..Len(s) /\ ~(m <= m - 1) /\ m \in 1..Len(s)
      BY <1>1, <2>3, <2>5
    <3>2. Can(m - 1)
      BY <2>2, <3>1
    <3>3. PICK g \in [0..(m - 1) -> Seq(T)] : KeepsUpTo(g, s, S, m - 1)
      BY <3>2
    <3> DEFINE h == [i \in 0..m |-> IF i < m THEN g[i] ELSE Took(g[m - 1], s[m], S)]
    <3>4. s[m] \in T /\ g[m - 1] \in Seq(T)
      BY <1>1, <2>3, <2>5, <3>1
    <3>5. Took(g[m - 1], s[m], S) \in Seq(T)
      BY <3>4 DEF Took
    <3>6. h \in [0..m -> Seq(T)]
      BY <1>1, <2>3, <2>5, <3>5
    <3>7. h[0] = <<>>
      BY <1>1, <2>3, <2>5, <3>3 DEF KeepsUpTo
    <3>8. ASSUME NEW i \in 1..m PROVE h[i] = Took(h[i - 1], s[i], S)
      <4>1. i \in 0..m /\ i - 1 \in 0..m /\ i - 1 < m /\ (i < m => i \in 1..(m - 1))
        BY <1>1, <2>3, <2>5
      <4>2. h[i - 1] = g[i - 1]
        BY <4>1
      <4>3. CASE i < m
        BY <3>3, <4>1, <4>2, <4>3 DEF KeepsUpTo
      <4>4. CASE ~(i < m)
        <5>1. i = m
          BY <1>1, <2>3, <4>4
        <5> QED BY <4>1, <4>2, <5>1
      <4> QED BY <4>3, <4>4
    <3> HIDE DEF h
    <3>9. KeepsUpTo(h, s, S, m)
      BY <3>7, <3>8 DEF KeepsUpTo
    <3> QED BY <2>3, <3>6, <3>9
  <2> QED BY <2>4, <2>5
<1>3. Len(s) \in 0..Len(s)
  BY <1>1
<1> QED BY <1>2, <1>3

\* So Kept is that function: what is kept of the first i elements is what is kept of
\* the first i - 1, and the i-th if it is in S.
LEMMA KeptFacts ==
    ASSUME NEW T, NEW S, NEW s \in Seq(T)
    PROVE  Kept(s, S) \in [0..Len(s) -> Seq(T)] /\ KeepsUpTo(Kept(s, S), s, S, Len(s))
<1> DEFINE Rec(f) == [i \in 0..Len(s) |->
                        IF i = 0 THEN <<>> ELSE IF s[i] \in S THEN Append(f[i - 1], s[i]) ELSE f[i - 1]]
           k == Kept(s, S)
<1>1. k = CHOOSE f : f = Rec(f)
  BY DEF Kept
<1>2. Len(s) \in Nat
  OBVIOUS
<1>3. PICK g \in [0..Len(s) -> Seq(T)] : KeepsUpTo(g, s, S, Len(s))
  BY KeptExists
<1>4. g = Rec(g)
  <2>1. ASSUME NEW i \in 0..Len(s)
        PROVE  g[i] = IF i = 0 THEN <<>> ELSE IF s[i] \in S THEN Append(g[i - 1], s[i]) ELSE g[i - 1]
    <3>1. CASE i = 0
      BY <1>3, <3>1 DEF KeepsUpTo
    <3>2. CASE i # 0
      <4>1. i \in 1..Len(s)
        BY <1>2, <3>2
      <4>2. g[i] = Took(g[i - 1], s[i], S)
        BY <1>3, <4>1 DEF KeepsUpTo
      <4> QED BY <3>2, <4>2 DEF Took
    <3> QED BY <3>1, <3>2
  <2> QED BY <1>3, <2>1, Zenon
<1>5. k = Rec(k)
  <2> HIDE DEF Rec, k
  <2> QED BY <1>1, <1>4
<1> HIDE DEF k
<1>6. KeepsUpTo(k, s, S, Len(s))
  <2>1. k[0] = <<>>
    BY <1>2, <1>5
  <2>2. ASSUME NEW i \in 1..Len(s) PROVE k[i] = Took(k[i - 1], s[i], S)
    <3>1. i \in 0..Len(s) /\ i # 0
      BY <1>2
    <3>2. k[i] = IF i = 0 THEN <<>> ELSE IF s[i] \in S THEN Append(k[i - 1], s[i]) ELSE k[i - 1]
      BY <1>5, <3>1, Zenon
    <3> QED BY <3>1, <3>2 DEF Took
  <2> QED BY <2>1, <2>2 DEF KeepsUpTo
<1> DEFINE Bad == {i \in 0..Len(s) : k[i] \notin Seq(T)}
<1>7. Bad = {}
  <2>1. SUFFICES ASSUME Bad # {} PROVE FALSE
    OBVIOUS
  <2>2. PICK m \in Bad : \A j \in Bad : m <= j
    <3>1. Bad \in SUBSET Nat
      <4>1. 0..Len(s) \subseteq Nat
        BY <1>2
      <4> QED BY <4>1, Zenon
    <3> HIDE DEF Bad
    <3> QED BY <2>1, <3>1, NatMin
  <2>3. m \in 0..Len(s) /\ k[m] \notin Seq(T)
    BY <2>2, Zenon
  <2>4. <<>> \in Seq(T)
    OBVIOUS
  <2>5. m # 0
    BY <1>6, <2>3, <2>4, Zenon DEF KeepsUpTo
  <2>6. m \in 1..Len(s) /\ m - 1 \in 0..Len(s) /\ ~(m <= m - 1)
    BY <1>2, <2>3, <2>5
  <2>7. k[m - 1] \in Seq(T)
    BY <2>2, <2>6, Zenon
  <2>8. s[m] \in T
    BY <2>6
  <2>9. k[m] = Took(k[m - 1], s[m], S)
    BY <1>6, <2>6, Zenon DEF KeepsUpTo
  <2>10. Took(k[m - 1], s[m], S) \in Seq(T)
    BY <2>7, <2>8 DEF Took
  <2> QED BY <2>3, <2>9, <2>10
<1>8. k \in [0..Len(s) -> Seq(T)]
  BY <1>5, <1>7
<1> QED BY <1>6, <1>8 DEF k

\* Within the first part of a concatenation, only that part matters.
LEMMA KeptFront ==
    ASSUME NEW T, NEW S, NEW a \in Seq(T), NEW b \in Seq(T), NEW i \in 0..Len(a)
    PROVE  Kept(a \o b, S)[i] = Kept(a, S)[i]
<1> DEFINE c == a \o b
           f == Kept(c, S)
           g == Kept(a, S)
           Bad == {j \in 0..Len(a) : f[j] # g[j]}
<1>1. /\ c \in Seq(T) /\ Len(c) = Len(a) + Len(b) /\ Len(a) \in Nat /\ Len(b) \in Nat
      /\ \A j \in 1..Len(a) : c[j] = a[j]
  OBVIOUS
<1> HIDE DEF c
<1>2. KeepsUpTo(f, c, S, Len(c)) /\ KeepsUpTo(g, a, S, Len(a))
  BY <1>1, KeptFacts
<1> HIDE DEF f, g
<1>3. Bad = {}
  <2>1. SUFFICES ASSUME Bad # {} PROVE FALSE
    OBVIOUS
  <2>2. PICK m \in Bad : \A j \in Bad : m <= j
    <3>1. Bad \in SUBSET Nat
      <4>1. 0..Len(a) \subseteq Nat
        BY <1>1
      <4> QED BY <4>1, Zenon
    <3> HIDE DEF Bad
    <3> QED BY <2>1, <3>1, NatMin
  <2>3. m \in 0..Len(a) /\ f[m] # g[m]
    BY <2>2, Zenon
  <2>4. m # 0
    BY <1>2, <2>3, Zenon DEF KeepsUpTo
  <2>5. m \in 1..Len(a) /\ m - 1 \in 0..Len(a) /\ ~(m <= m - 1) /\ m \in 1..Len(c)
    BY <1>1, <2>3, <2>4
  <2>6. f[m - 1] = g[m - 1]
    BY <2>2, <2>5, Zenon
  <2>7. f[m] = Took(f[m - 1], c[m], S) /\ g[m] = Took(g[m - 1], a[m], S)
    BY <1>2, <2>5, Zenon DEF KeepsUpTo
  <2>8. c[m] = a[m]
    BY <1>1, <2>5
  <2> QED BY <2>3, <2>6, <2>7, <2>8
<1>4. f[i] = g[i]
  BY <1>3, Zenon
<1> QED BY <1>4 DEF f, g, c

\* What is kept of a sequence is a sequence of the same elements.
LEMMA WithinType ==
    ASSUME NEW T, NEW S, NEW s \in Seq(T)
    PROVE  Within(s, S) \in Seq(T)
<1>1. Len(s) \in 0..Len(s)
  OBVIOUS
<1> QED BY <1>1, KeptFacts DEF Within

KeptBehindAt(a, b, S, i) == Kept(a \o b, S)[Len(a) + i] = Within(a, S) \o Kept(b, S)[i]

\* Behind a, what is kept is all that is kept of a and then that of b so far.
LEMMA KeptBehind ==
    ASSUME NEW T, NEW S, NEW a \in Seq(T), NEW b \in Seq(T), NEW i \in 0..Len(b)
    PROVE  KeptBehindAt(a, b, S, i)
<1> DEFINE c == a \o b
           f == Kept(c, S)
           g == Kept(b, S)
           k == Within(a, S)
           Bad == {j \in 0..Len(b) : f[Len(a) + j] # k \o g[j]}
<1>1. /\ c \in Seq(T) /\ Len(c) = Len(a) + Len(b) /\ Len(a) \in Nat /\ Len(b) \in Nat
      /\ \A j \in 1..Len(b) : c[Len(a) + j] = b[j]
  OBVIOUS
<1>2. k \in Seq(T)
  BY WithinType
<1>3. f[Len(a)] = k
  BY <1>1, KeptFront DEF Within
<1> HIDE DEF c, k
<1>4. KeepsUpTo(f, c, S, Len(c)) /\ KeepsUpTo(g, b, S, Len(b)) /\ g \in [0..Len(b) -> Seq(T)]
  BY <1>1, KeptFacts
<1> HIDE DEF f, g
<1>5. Bad = {}
  <2>1. SUFFICES ASSUME Bad # {} PROVE FALSE
    OBVIOUS
  <2>2. PICK m \in Bad : \A j \in Bad : m <= j
    <3>1. Bad \in SUBSET Nat
      <4>1. 0..Len(b) \subseteq Nat
        BY <1>1
      <4> QED BY <4>1, Zenon
    <3> HIDE DEF Bad
    <3> QED BY <2>1, <3>1, NatMin
  <2>3. m \in 0..Len(b) /\ f[Len(a) + m] # k \o g[m]
    BY <2>2, Zenon
  <2>4. m # 0
    <3>1. SUFFICES ASSUME m = 0 PROVE FALSE
      OBVIOUS
    <3>2. g[m] = <<>> /\ Len(a) + m = Len(a)
      BY <1>1, <1>4, <3>1 DEF KeepsUpTo
    <3>3. k \o <<>> = k
      BY <1>2, ConcatEmptySeq
    <3> QED BY <1>3, <2>3, <3>2, <3>3, Zenon
  <2>5. /\ m \in 1..Len(b) /\ m - 1 \in 0..Len(b) /\ ~(m <= m - 1)
        /\ Len(a) + m \in 1..Len(c) /\ (Len(a) + m) - 1 = Len(a) + (m - 1)
    BY <1>1, <2>3, <2>4
  <2>6. f[Len(a) + (m - 1)] = k \o g[m - 1]
    BY <2>2, <2>5, Zenon
  <2>7. f[Len(a) + m] = Took(f[(Len(a) + m) - 1], c[Len(a) + m], S)
    BY <1>4, <2>5, Zenon DEF KeepsUpTo
  <2>8. g[m] = Took(g[m - 1], b[m], S)
    BY <1>4, <2>5, Zenon DEF KeepsUpTo
  <2>9. c[Len(a) + m] = b[m] /\ b[m] \in T /\ g[m - 1] \in Seq(T)
    <3>1. c[Len(a) + m] = b[m]
      BY <1>1, <2>5, Zenon
    <3>2. b[m] \in T
      BY <2>5
    <3>3. g[m - 1] \in Seq(T)
      BY <1>4, <2>5, Zenon
    <3> QED BY <3>1, <3>2, <3>3
  <2>10. f[Len(a) + m] = Took(k \o g[m - 1], b[m], S)
    BY <2>5, <2>6, <2>7, <2>9
  <2>11. Took(k \o g[m - 1], b[m], S) = k \o Took(g[m - 1], b[m], S)
    <3>1. \A p, q \in Seq(T) : \A x \in T : Append(p \o q, x) = p \o Append(q, x)
      <4>1. ASSUME NEW p \in Seq(T), NEW q \in Seq(T), NEW x \in T
            PROVE  Append(p \o q, x) = p \o Append(q, x)
        <5>1. AssocAt(p, q, <<x>>) /\ p \o q \in Seq(T)
          <6>1. <<x>> \in Seq(T)
            OBVIOUS
          <6> QED BY <6>1, ConcatFacts DEF Assoc, Closed
        <5>2. Append(p \o q, x) = (p \o q) \o <<x>> /\ Append(q, x) = q \o <<x>>
          BY <5>1, AppendIsConcat
        <5> QED BY <5>1, <5>2 DEF AssocAt
      <4> QED BY <4>1
    <3>2. Append(k \o g[m - 1], b[m]) = k \o Append(g[m - 1], b[m])
      BY <1>2, <2>9, <3>1, Zenon
    <3> QED BY <3>2, Zenon DEF Took
  <2> QED BY <2>3, <2>8, <2>10, <2>11, Zenon
<1>6. f[Len(a) + i] = k \o g[i]
  BY <1>5, Zenon
<1> QED BY <1>6 DEF f, g, c, k, KeptBehindAt

\* Filtering distributes over concatenation.
LEMMA WithinConcat ==
    ASSUME NEW T, NEW S, NEW a \in Seq(T), NEW b \in Seq(T)
    PROVE  Within(a \o b, S) = Within(a, S) \o Within(b, S)
<1>1. Len(b) \in 0..Len(b) /\ Len(a \o b) = Len(a) + Len(b)
  OBVIOUS
<1>2. KeptBehindAt(a, b, S, Len(b))
  BY <1>1, KeptBehind
<1> QED BY <1>1, <1>2, Zenon DEF Within, KeptBehindAt

\* Nothing is kept of nothing.
LEMMA WithinEmpty == ASSUME NEW S PROVE Within(<<>>, S) = <<>>
<1>1. <<>> \in Seq({}) /\ Len(<<>>) = 0
  OBVIOUS
<1> QED BY <1>1, KeptFacts DEF Within, KeepsUpTo

\* Of one element, that element or nothing is kept.
LEMMA WithinOne ==
    ASSUME NEW S, NEW x
    PROVE  Within(<<x>>, S) = IF x \in S THEN <<x>> ELSE <<>>
<1>1. <<x>> \in Seq({x}) /\ Len(<<x>>) = 1 /\ <<x>>[1] = x
  OBVIOUS
<1>2. KeepsUpTo(Kept(<<x>>, S), <<x>>, S, 1)
  BY <1>1, KeptFacts
<1>3. Kept(<<x>>, S)[1] = Took(Kept(<<x>>, S)[1 - 1], x, S) /\ Kept(<<x>>, S)[0] = <<>>
  BY <1>1, <1>2 DEF KeepsUpTo
<1>4. Append(<<>>, x) = <<x>> /\ 1 - 1 = 0
  OBVIOUS
<1> QED BY <1>1, <1>3, <1>4 DEF Within, Took

\* Nothing is kept of elements that are all to go.
LEMMA WithinNone ==
    ASSUME NEW T, NEW S, NEW s \in Seq(T), \A i \in 1..Len(s) : s[i] \notin S
    PROVE  Within(s, S) = <<>>
<1> DEFINE f == Kept(s, S)
           Bad == {j \in 0..Len(s) : f[j] # <<>>}
<1>1. Len(s) \in Nat /\ f[0] = <<>> /\ \A i \in 1..Len(s) : f[i] = Took(f[i - 1], s[i], S)
  BY KeptFacts, LenProperties DEF KeepsUpTo
<1> HIDE DEF f
<1>2. Bad = {}
  <2>1. SUFFICES ASSUME Bad # {} PROVE FALSE
    OBVIOUS
  <2>2. PICK m \in Bad : \A k \in Bad : m <= k
    <3>1. Bad \in SUBSET Nat
      BY <1>1
    <3> HIDE DEF Bad
    <3> QED BY <2>1, <3>1, NatMin
  <2>3. m \in 1..Len(s) /\ m - 1 \in 0..Len(s) /\ ~(m <= m - 1)
    BY <1>1, <2>2
  <2>4. f[m - 1] = <<>>
    BY <2>2, <2>3
  <2>5. f[m] = f[m - 1]
    BY <1>1, <2>3 DEF Took
  <2> QED BY <2>2, <2>4, <2>5
<1>3. Len(s) \in 0..Len(s)
  BY <1>1
<1>4. f[Len(s)] = <<>>
  BY <1>2, <1>3
<1> QED BY <1>4 DEF Within, f

-----------------------------------------------------------------------------
(* Beginnings *)

\* A sequence with a known first element.
LEMMA HeadTail ==
    ASSUME NEW S, NEW p \in S, NEW t \in Seq(S)
    PROVE  <<p>> \o t # <<>> /\ Head(<<p>> \o t) = p /\ Tail(<<p>> \o t) = t
<1>1. /\ <<p>> \o t \in Seq(S) /\ Len(<<p>> \o t) = 1 + Len(t) /\ (<<p>> \o t)[1] = p
      /\ \A i \in 1..Len(t) : (<<p>> \o t)[i + 1] = t[i]
  BY ConcatProperties
<1> DEFINE s == <<p>> \o t
<1> HIDE DEF s
<1>2. s \in Seq(S) /\ Len(s) = 1 + Len(t) /\ s[1] = p /\ Len(t) \in Nat
      /\ \A i \in 1..Len(t) : s[i + 1] = t[i]
  BY <1>1, LenProperties DEF s
<1>3. s # <<>> /\ Head(s) = p
  BY <1>2, HeadTailProperties, EmptySeq
<1>4. /\ Tail(s) \in Seq(S) /\ Len(Tail(s)) = Len(t)
      /\ \A i \in 1..Len(t) : Tail(s)[i] = s[i + 1]
  BY <1>2, <1>3, HeadTailProperties
<1>5. Tail(s) = t
  BY <1>2, <1>4, SeqEqual
<1> QED BY <1>3, <1>5 DEF s

\* A sequence that is x and then y, by its elements.
LEMMA ConcatEqual ==
    ASSUME NEW S, NEW x \in Seq(S), NEW y \in Seq(S), NEW z \in Seq(S),
           Len(z) = Len(x) + Len(y), \A i \in 1..Len(x) : z[i] = x[i],
           \A i \in 1..Len(y) : z[Len(x) + i] = y[i]
    PROVE  z = x \o y
<1>1. /\ x \o y \in Seq(S) /\ Len(x \o y) = Len(x) + Len(y) /\ Len(x) \in Nat /\ Len(y) \in Nat
      /\ \A i \in 1..(Len(x) + Len(y)) :
            (x \o y)[i] = IF i <= Len(x) THEN x[i] ELSE y[i - Len(x)]
  BY LenProperties, ConcatProperties
<1>2. ASSUME NEW i \in 1..Len(z) PROVE z[i] = (x \o y)[i]
  <2>1. CASE i <= Len(x)
    BY <1>1, <2>1
  <2>2. CASE ~(i <= Len(x))
    <3> DEFINE j == i - Len(x)
    <3>1. j \in 1..Len(y) /\ i = Len(x) + j /\ (x \o y)[i] = y[j]
      BY <1>1, <2>2
    <3> HIDE DEF j
    <3> QED BY <3>1
  <2> QED BY <2>1, <2>2
<1> QED BY <1>1, <1>2, SeqEqual

\* What follows a common beginning is common too.
LEMMA Cancels ==
    ASSUME NEW S, NEW a \in Seq(S), NEW b \in Seq(S), NEW c \in Seq(S), a \o b = a \o c
    PROVE  b = c
<1>1. /\ Len(a) \in Nat /\ Len(b) \in Nat /\ Len(c) \in Nat
      /\ Len(a \o b) = Len(a) + Len(b) /\ Len(a \o c) = Len(a) + Len(c)
  BY LenProperties, ConcatProperties
<1>2. Len(b) = Len(c)
  BY <1>1
<1>3. ASSUME NEW i \in 1..Len(b) PROVE b[i] = c[i]
  <2>1. /\ Len(a) + i \in 1..(Len(a) + Len(b)) /\ Len(a) + i \in 1..(Len(a) + Len(c))
        /\ ~(Len(a) + i <= Len(a)) /\ Len(a) + i - Len(a) = i
    BY <1>1, <1>2
  <2>2. (a \o b)[Len(a) + i] = b[i]
    BY <2>1, ConcatProperties
  <2>3. (a \o c)[Len(a) + i] = c[i]
    BY <2>1, ConcatProperties
  <2> QED BY <2>2, <2>3
<1> QED BY <1>2, <1>3, SeqEqual
=============================================================================
