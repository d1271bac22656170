----------------------------- MODULE Induction -----------------------------
(***************************************************************************)
(* Induction and recursion over data, stated with sets and functions in    *)
(* the place of operators: what the recursive functions of the other       *)
(* modules compute follows from these.                                     *)
(***************************************************************************)
EXTENDS Integers, Sequences, WellFoundedInduction, SequenceTheorems, TLAPS

\* Every set of naturals that is not empty has a least element.
LEMMA LeastNat ==
  ASSUME NEW T \in SUBSET Nat, T # {}
  PROVE  \E n \in T : \A m \in T : n <= m
<1> DEFINE R == OpToRel(<, Nat)
<1>1. IsWellFoundedOn(R, Nat)
  BY NatLessThanWellFounded
<1>2. \A m, n \in Nat : m < n => <<m, n>> \in R
  BY DEF OpToRel
<1> HIDE DEF R
<1>3. PICK n \in T : \A m \in T : ~(<<m, n>> \in R)
  BY <1>1, WFMin
<1>4. \A m \in T : ~(m < n)
  BY <1>2, <1>3
<1> QED  BY <1>4

\* What holds of 0, and of n + 1 if it does of n, holds of all naturals.
LEMMA InductNat ==
  ASSUME NEW T \in SUBSET Nat, 0 \in T, \A n \in T : n + 1 \in T
  PROVE  T = Nat
<1> SUFFICES ASSUME Nat \ T # {} PROVE FALSE
  OBVIOUS
<1>1. PICK n \in Nat \ T : \A m \in Nat \ T : n <= m
  BY LeastNat
<1>2. n # 0 /\ n - 1 \in Nat /\ n - 1 < n /\ n = (n - 1) + 1
  BY <1>1
<1>3. n - 1 \in T
  BY <1>1, <1>2
<1> QED  BY <1>1, <1>2, <1>3

-----------------------------------------------------------------------------
\* A sequence with an element put before it.
LEMMA ConsProperties ==
  ASSUME NEW S, NEW a \in S, NEW s \in Seq(S)
  PROVE  /\ <<a>> \o s \in Seq(S) /\ <<a>> \o s # <<>>
         /\ Len(<<a>> \o s) = Len(s) + 1
         /\ (<<a>> \o s)[1] = a /\ \A i \in 1 .. Len(s) : (<<a>> \o s)[i + 1] = s[i]
         /\ Head(<<a>> \o s) = a /\ Tail(<<a>> \o s) = s
<1> DEFINE h == <<a>>
           t == h \o s
<1>1. h \in Seq(S) /\ Len(h) = 1 /\ h[1] = a /\ Len(s) \in Nat
  BY LenProperties
<1> HIDE DEF h
<1>2. /\ t \in Seq(S) /\ Len(t) = Len(s) + 1
      /\ \A i \in 1 .. Len(s) + 1 : t[i] = IF i <= 1 THEN h[i] ELSE s[i - 1]
  <2>1. /\ t \in Seq(S) /\ Len(t) = Len(h) + Len(s)
        /\ \A i \in 1 .. Len(h) + Len(s) :
             t[i] = IF i <= Len(h) THEN h[i] ELSE s[i - Len(h)]
    BY <1>1, ConcatProperties
  <2>2. Len(h) + Len(s) = Len(s) + 1
    BY <1>1
  <2> QED  BY <1>1, <2>1, <2>2
<1> HIDE DEF t
<1>3. t[1] = a /\ \A i \in 1 .. Len(s) : t[i + 1] = s[i]
  <2>1. \A i \in 1 .. Len(s) : i + 1 \in 1 .. Len(s) + 1 /\ ~(i + 1 <= 1) /\ (i + 1) - 1 = i
    BY <1>1
  <2>2. 1 \in 1 .. Len(s) + 1
    BY <1>1
  <2>3. t[1] = h[1]
    BY <1>2, <2>2
  <2>4. \A i \in 1 .. Len(s) : t[i + 1] = s[(i + 1) - 1]
    BY <1>2, <2>1
  <2> QED  BY <1>1, <2>1, <2>3, <2>4
<1>4. t # <<>>
  BY <1>1, <1>2
<1>5. Head(t) = a /\ Tail(t) \in Seq(S) /\ Len(Tail(t)) = Len(s)
      /\ \A i \in 1 .. Len(s) : Tail(t)[i] = s[i]
  BY <1>1, <1>2, <1>3, <1>4, HeadTailProperties
<1>6. Tail(t) = s
  BY <1>5, SeqEqual
<1> QED  BY <1>2, <1>3, <1>4, <1>5, <1>6 DEF t, h

-----------------------------------------------------------------------------
(* A function on S that is given by `base` on the leaves and elsewhere by  *)
(* `step` from its value at `pred`, which has a lower rank.                *)

Solves(g, D, leaves, base, pred, step) ==
  \A s \in D : g[s] = IF s \in leaves THEN base[s] ELSE step[<<s, g[pred[s]]>>]

Below(S, rank, n) == {s \in S : rank[s] < n}

\* Two solutions agree where both are defined.
LEMMA SolutionsAgree ==
  ASSUME NEW S, NEW leaves, NEW base, NEW step,
         NEW rank \in [S -> Nat], NEW pred \in [S -> S],
         \A s \in S \ leaves : rank[pred[s]] < rank[s],
         NEW n \in Nat, NEW m \in Nat, NEW g, NEW h,
         Solves(g, Below(S, rank, n), leaves, base, pred, step),
         Solves(h, Below(S, rank, m), leaves, base, pred, step)
  PROVE  \A s \in S : rank[s] < n /\ rank[s] < m => g[s] = h[s]
<1> DEFINE Bad == {k \in Nat : \E s \in S : /\ rank[s] = k /\ k < n /\ k < m
                                            /\ g[s] # h[s]}
<1>1. CASE Bad = {}
  BY <1>1
<1>2. CASE Bad # {}
  <2>1. PICK k \in Bad : \A j \in Bad : k <= j
    BY <1>2, LeastNat
  <2>2. PICK s \in S : rank[s] = k /\ k < n /\ k < m /\ g[s] # h[s]
    BY <2>1
  <2>3. s \notin leaves
    BY <2>2 DEF Solves, Below
  <2>4. pred[s] \in S /\ rank[pred[s]] \in Nat /\ rank[pred[s]] < k
    BY <2>2, <2>3
  <2>5. g[pred[s]] = h[pred[s]]
    BY <2>1, <2>2, <2>4
  <2> QED  BY <2>2, <2>3, <2>5 DEF Solves, Below
<1> QED  BY <1>1, <1>2

LEMMA SolutionsBelow ==
  ASSUME NEW S, NEW T, NEW leaves,
         NEW base \in [S -> T], NEW step \in [S \X T -> T],
         NEW rank \in [S -> Nat], NEW pred \in [S -> S],
         \A s \in S \ leaves : rank[pred[s]] < rank[s]
  PROVE  \A n \in Nat : \E g \in [Below(S, rank, n) -> T] :
            Solves(g, Below(S, rank, n), leaves, base, pred, step)
<1> DEFINE D(n) == Below(S, rank, n)
           Good == {n \in Nat : \E g \in [D(n) -> T] :
                                   Solves(g, D(n), leaves, base, pred, step)}
<1>1. 0 \in Good
  <2>1. D(0) = {}
    BY DEF Below
  <2>2. [s \in {} |-> base[s]] \in [{} -> T]
    OBVIOUS
  <2> QED  BY <2>1, <2>2 DEF Solves
<1>2. ASSUME NEW n \in Good PROVE n + 1 \in Good
  <2>1. PICK g \in [D(n) -> T] : Solves(g, D(n), leaves, base, pred, step)
    BY <1>2
  <2> DEFINE h == [s \in D(n + 1) |->
                     IF s \in D(n) THEN g[s]
                     ELSE IF s \in leaves THEN base[s] ELSE step[<<s, g[pred[s]]>>]]
  <2>2. n \in Nat /\ n + 1 \in Nat /\ D(n) \subseteq D(n + 1) /\ D(n + 1) \subseteq S
    BY <1>2 DEF Below
  <2>3. \A s \in D(n + 1) \ leaves : pred[s] \in D(n)
    BY <2>2 DEF Below
  <2>4. h \in [D(n + 1) -> T]
    BY <2>2, <2>3
  <2>5. \A s \in D(n) : h[s] = g[s]
    BY <2>2
  <2>6. Solves(h, D(n + 1), leaves, base, pred, step)
    <3> SUFFICES ASSUME NEW s \in D(n + 1)
                 PROVE  h[s] = IF s \in leaves THEN base[s] ELSE step[<<s, h[pred[s]]>>]
      BY DEF Solves
    <3>1. CASE s \in leaves
      BY <2>1, <3>1 DEF Solves
    <3>2. CASE s \notin leaves
      <4>1. h[pred[s]] = g[pred[s]]
        BY <2>3, <2>5, <3>2
      <4>2. CASE s \in D(n)
        <5>1. g[s] = step[<<s, g[pred[s]]>>]
          BY <2>1, <3>2, <4>2 DEF Solves
        <5> QED  BY <2>5, <3>2, <4>1, <4>2, <5>1
      <4>3. CASE s \notin D(n)
        <5>1. h[s] = step[<<s, g[pred[s]]>>]
          BY <3>2, <4>3
        <5> QED  BY <3>2, <4>1, <5>1
      <4> QED  BY <4>2, <4>3
    <3> QED  BY <3>1, <3>2
  <2> HIDE DEF h
  <2> QED  BY <2>2, <2>4, <2>6
<1> HIDE DEF Good
<1>3. Good = Nat
  <2>1. Good \in SUBSET Nat
    BY DEF Good
  <2> QED  BY <1>1, <1>2, <2>1, InductNat
<1> QED  BY <1>3 DEF Good

\* There is a function that solves the whole recursion.
LEMMA RecursionExists ==
  ASSUME NEW S, NEW T, NEW leaves,
         NEW base \in [S -> T], NEW step \in [S \X T -> T],
         NEW rank \in [S -> Nat], NEW pred \in [S -> S],
         \A s \in S \ leaves : rank[pred[s]] < rank[s]
  PROVE  \E g \in [S -> T] : Solves(g, S, leaves, base, pred, step)
<1> DEFINE D(n) == Below(S, rank, n)
           Part(n, g) == g \in [D(n) -> T] /\ Solves(g, D(n), leaves, base, pred, step)
           part(n) == CHOOSE g : Part(n, g)
           f == [s \in S |-> part(rank[s] + 1)[s]]
<1>1. \A n \in Nat : /\ part(n) \in [D(n) -> T]
                     /\ Solves(part(n), D(n), leaves, base, pred, step)
  <2>1. \A n \in Nat : \E g : Part(n, g)
    BY SolutionsBelow
  <2> HIDE DEF Part
  <2>2. \A n \in Nat : Part(n, part(n))
    BY <2>1
  <2> QED  BY <2>2 DEF Part
<1> HIDE DEF part
<1>2. \A s \in S : rank[s] + 1 \in Nat /\ s \in D(rank[s] + 1)
  BY DEF Below
<1>3. f \in [S -> T]
  BY <1>1, <1>2
<1>4. ASSUME NEW s \in S
      PROVE  f[s] = IF s \in leaves THEN base[s] ELSE step[<<s, f[pred[s]]>>]
  <2> DEFINE g == part(rank[s] + 1)
             h == part(rank[pred[s]] + 1)
  <2>1. f[s] = IF s \in leaves THEN base[s] ELSE step[<<s, g[pred[s]]>>]
    BY <1>1, <1>2 DEF Solves
  <2>2. CASE s \notin leaves
    <3>1. pred[s] \in S /\ rank[pred[s]] \in Nat /\ rank[s] \in Nat
          /\ rank[pred[s]] < rank[s] /\ f[pred[s]] = h[pred[s]]
      BY <2>2
    <3>2. rank[s] + 1 \in Nat /\ rank[pred[s]] + 1 \in Nat
          /\ rank[pred[s]] < rank[s] + 1 /\ rank[pred[s]] < rank[pred[s]] + 1
      BY <3>1
    <3>3. /\ Solves(g, D(rank[s] + 1), leaves, base, pred, step)
          /\ Solves(h, D(rank[pred[s]] + 1), leaves, base, pred, step)
      BY <1>1, <3>2
    <3> HIDE DEF g, h
    <3>4. g[pred[s]] = h[pred[s]]
      BY <3>1, <3>2, <3>3, SolutionsAgree
    <3> QED  BY <2>1, <2>2, <3>1, <3>4
  <2> QED  BY <2>1, <2>2
<1> HIDE DEF f
<1> QED  BY <1>3, <1>4 DEF Solves

\* A set of naturals up to n that is not empty has a greatest element.
LEMMA GreatestBelow ==
  ASSUME NEW n \in Nat, NEW T \in SUBSET (1 .. n), T # {}
  PROVE  \E k \in T : \A j \in T : j <= k
<1> DEFINE D == {n - k : k \in T}
<1>1. D \in SUBSET Nat /\ D # {}
  <2>1. \A k \in T : n - k \in Nat
    OBVIOUS
  <2>2. PICK k \in T : TRUE
    OBVIOUS
  <2>3. n - k \in D
    BY <2>2
  <2> QED  BY <2>1, <2>3
<1>2. PICK d \in D : \A e \in D : d <= e
  BY <1>1, LeastNat
<1>3. PICK k \in T : d = n - k
  BY <1>2
<1>4. \A j \in T : n - k <= n - j
  BY <1>2, <1>3
<1> QED  BY <1>3, <1>4

\* A multiple of m leaves no rest.
LEMMA Multiple ==
  ASSUME NEW m \in Nat \ {0}, NEW q \in Int
  PROVE  (m * q) % m = 0
OBVIOUS
=============================================================================
