-------------------------- MODULE CredentialsProofs --------------------------
(***************************************************************************)
(* What fetch_app_credentials finds is what the bundles hold, for all      *)
(* pages and bundles: the scans compute what CredentialsProperties says    *)
(* without their loops, bundle after bundle.                               *)
(***************************************************************************)
EXTENDS CredentialsProperties, Induction, FiniteSetTheorems

-----------------------------------------------------------------------------
(* Greatest and least elements.                                            *)

LEMMA GreatestIs ==
  ASSUME NEW n \in Nat, NEW S \in SUBSET (1 .. n), NEW k \in S, \A j \in S : j <= k
  PROVE  Greatest(S) = k
<1>1. \A m \in S : (\A j \in S : j <= m) => m = k
  OBVIOUS
<1> QED  BY <1>1 DEF Greatest

LEMMA GreatestExists ==
  ASSUME NEW n \in Nat, NEW S \in SUBSET (1 .. n), S # {}
  PROVE  Greatest(S) \in S /\ \A j \in S : j <= Greatest(S)
BY GreatestBelow DEF Greatest

LEMMA LeastIs ==
  ASSUME NEW S \in SUBSET Nat, NEW k \in S, \A j \in S : k <= j
  PROVE  Least(S) = k
<1>1. \A m \in S : (\A j \in S : m <= j) => m = k
  OBVIOUS
<1> QED  BY <1>1 DEF Least

LEMMA LeastExists ==
  ASSUME NEW S \in SUBSET Nat, S # {}
  PROVE  Least(S) \in S /\ \A j \in S : Least(S) <= j
BY LeastNat DEF Least

-----------------------------------------------------------------------------
(* The seed in hand and the pairs after the first n patterns of a bundle.  *)

\* The place of the seed that waits for its time zone, if any.
Open(b, n) ==
  {i \in 1 .. n :
     /\ IsA("seed", b, i) /\ ~Between("timezone", b, i, n + 1)
     /\ \A h \in 1 .. i - 1 : IsA("seed", b, h) => Between("timezone", b, h, i)}

PairedBy(tz, b, n) ==
  {i \in DOMAIN b : b[i].value # Empty
     /\ \E j \in DOMAIN b : j <= n /\ IsPair(b, i, j) /\ b[j].value = tz /\ tz # Empty}

Zones(b, n) == {z \in {b[j].value : j \in DOMAIN b} : PairedBy(z, b, n) # {}}

AllAfter(b, known, n) ==
  [tz \in DOMAIN known \cup Zones(b, n) |->
     IF PairedBy(tz, b, n) # {} THEN b[Greatest(PairedBy(tz, b, n))].value ELSE known[tz]]

SeedInHand(b, n) == IF Open(b, n) = {} THEN None ELSE b[Greatest(Open(b, n))].value

LEMMA BundleType ==
  ASSUME NEW b \in Bundles
  PROVE  Len(b) \in Nat /\ DOMAIN b = 1 .. Len(b)
<1>1. IsSequence(b)
  BY CredentialsAssumption
<1> QED  BY <1>1, LenProperties DEF IsSequence

\* At most one seed waits.
LEMMA OneOpen ==
  ASSUME NEW b \in Bundles, NEW n \in 0 .. Len(b), NEW i \in Open(b, n)
  PROVE  Open(b, n) = {i} /\ Greatest(Open(b, n)) = i
<1>1. \A j \in Open(b, n) : j = i
  <2> SUFFICES ASSUME NEW j \in Open(b, n), NEW k \in Open(b, n), j < k PROVE FALSE
    BY BundleType DEF Open
  <2>1. j \in 1 .. k - 1 /\ IsA("seed", b, j) /\ k \in 1 .. n /\ n \in Nat
    BY BundleType DEF Open
  <2>2. Between("timezone", b, j, k)
    BY <2>1 DEF Open
  <2>3. Between("timezone", b, j, n + 1)
    BY <2>1, <2>2 DEF Between
  <2> QED  BY <2>3 DEF Open
<1>2. Open(b, n) = {i} /\ i \in 1 .. n /\ n \in Nat
  BY <1>1, BundleType DEF Open
<1> QED  BY <1>2, GreatestIs

\* What a seed finds.
LEMMA SeedOpens ==
  ASSUME NEW b \in Bundles, NEW n \in 1 .. Len(b), IsA("seed", b, n)
  PROVE  Open(b, n) = IF Open(b, n - 1) = {} THEN {n} ELSE Open(b, n - 1)
<1>0. n \in Nat /\ n - 1 \in Nat /\ (n - 1) + 1 = n /\ n + 1 \in Nat /\ Len(b) \in Nat
  BY BundleType
<1>1. ~IsA("timezone", b, n)
  BY DEF IsA
<1>2. \A i \in 1 .. n - 1 : Between("timezone", b, i, n + 1) <=> Between("timezone", b, i, n)
  <2> SUFFICES ASSUME NEW i \in 1 .. n - 1
               PROVE  Between("timezone", b, i, n + 1) <=> Between("timezone", b, i, n)
    OBVIOUS
  <2>1. i + 1 .. (n + 1) - 1 = (i + 1 .. n - 1) \cup {n}
    BY <1>0
  <2> QED  BY <1>1, <2>1 DEF Between
<1>3. \A i \in 1 .. n - 1 : i \in Open(b, n) <=> i \in Open(b, n - 1)
  BY <1>0, <1>2 DEF Open
<1>4. n \in Open(b, n) <=> \A h \in 1 .. n - 1 : IsA("seed", b, h) => Between("timezone", b, h, n)
  BY <1>0 DEF Open, Between
<1>5. Open(b, n) \subseteq 1 .. n /\ Open(b, n - 1) \subseteq 1 .. n - 1
  BY DEF Open
<1>8. Open(b, n - 1) \subseteq 1 .. n
  BY <1>0, <1>5
<1>6. CASE Open(b, n - 1) = {}
  <2>1. \A h \in 1 .. n - 1 : IsA("seed", b, h) => Between("timezone", b, h, n)
    <3> DEFINE Free == {h \in 1 .. n - 1 : IsA("seed", b, h) /\ ~Between("timezone", b, h, n)}
    <3> SUFFICES ASSUME Free # {} PROVE FALSE
      OBVIOUS
    <3>1. PICK h \in Free : \A k \in Free : h <= k
      <4>1. Free \in SUBSET Nat
        BY <1>0
      <4> HIDE DEF Free
      <4> QED  BY <4>1, LeastNat
    <3>2. ASSUME NEW k \in 1 .. h - 1, IsA("seed", b, k) PROVE Between("timezone", b, k, h)
      <4>1. k \in 1 .. n - 1 /\ k \notin Free /\ h \in 1 .. n - 1 /\ k \in Nat /\ h \in Nat /\ k < h
        BY <1>0, <3>1, <3>2
      <4>2. Between("timezone", b, k, n)
        BY <3>2, <4>1
      <4>3. PICK t \in k + 1 .. n - 1 : IsA("timezone", b, t)
        BY <4>2 DEF Between
      <4>4. ~(t \in h + 1 .. n - 1)
        BY <3>1, <4>3 DEF Between
      <4>5. t # h
        BY <3>1, <4>3 DEF IsA
      <4>6. t \in k + 1 .. h - 1
        BY <1>0, <4>1, <4>3, <4>4, <4>5
      <4> QED  BY <4>3, <4>6 DEF Between
    <3>3. h \in Open(b, n - 1)
      BY <1>0, <3>1, <3>2 DEF Open
    <3> QED  BY <1>6, <3>3
  <2> QED  BY <1>0, <1>3, <1>4, <1>5, <1>6, <2>1
<1>7. CASE Open(b, n - 1) # {}
  <2>1. PICK i \in Open(b, n - 1) : TRUE
    BY <1>7
  <2>2. i \in 1 .. n - 1 /\ IsA("seed", b, i) /\ ~Between("timezone", b, i, n)
    BY <1>0, <2>1 DEF Open
  <2>3. n \notin Open(b, n)
    BY <1>4, <2>2
  <2>4. \A j \in 1 .. n : j \in 1 .. n - 1 \/ j = n
    BY <1>0
  <2> QED  BY <1>3, <1>5, <1>7, <1>8, <2>3, <2>4
<1> QED  BY <1>6, <1>7

LEMMA ZoneCloses ==
  ASSUME NEW b \in Bundles, NEW n \in 1 .. Len(b), IsA("timezone", b, n)
  PROVE  Open(b, n) = {}
<1> SUFFICES ASSUME NEW i \in Open(b, n) PROVE FALSE
  OBVIOUS
<1>1. i \in 1 .. n /\ IsA("seed", b, i) /\ ~Between("timezone", b, i, n + 1) /\ n \in Nat
  BY BundleType DEF Open
<1>2. i # n
  BY <1>1 DEF IsA
<1>3. n \in i + 1 .. (n + 1) - 1
  BY <1>1, <1>2
<1> QED  BY <1>1, <1>3 DEF Between

LEMMA OthersLeaveOpen ==
  ASSUME NEW b \in Bundles, NEW n \in 1 .. Len(b),
         ~IsA("timezone", b, n), ~IsA("seed", b, n)
  PROVE  Open(b, n) = Open(b, n - 1)
<1>0. n \in Nat /\ n - 1 \in Nat /\ (n - 1) + 1 = n /\ n + 1 \in Nat /\ Len(b) \in Nat
  BY BundleType
<1>2. \A i \in 1 .. n - 1 : Between("timezone", b, i, n + 1) <=> Between("timezone", b, i, n)
  <2> SUFFICES ASSUME NEW i \in 1 .. n - 1
               PROVE  Between("timezone", b, i, n + 1) <=> Between("timezone", b, i, n)
    OBVIOUS
  <2>1. i + 1 .. (n + 1) - 1 = (i + 1 .. n - 1) \cup {n}
    BY <1>0
  <2> QED  BY <2>1 DEF Between
<1>3. \A i \in 1 .. n - 1 : i \in Open(b, n) <=> i \in Open(b, n - 1)
  BY <1>0, <1>2 DEF Open
<1>4. n \notin Open(b, n)
  BY DEF Open
<1>5. Open(b, n) \subseteq 1 .. n /\ Open(b, n - 1) \subseteq 1 .. n - 1
  BY DEF Open
<1>6. Open(b, n - 1) \subseteq 1 .. n
  BY <1>0, <1>5
<1>7. \A j \in 1 .. n : j \in 1 .. n - 1 \/ j = n
  BY <1>0
<1> QED  BY <1>3, <1>4, <1>5, <1>6, <1>7

\* A time zone closes a pair with the seed in hand, and no other.
LEMMA ZonePairs ==
  ASSUME NEW b \in Bundles, NEW n \in 1 .. Len(b), IsA("timezone", b, n), NEW i \in DOMAIN b
  PROVE  IsPair(b, i, n) <=> i \in Open(b, n - 1)
<1>0. n \in Nat /\ n - 1 \in Nat /\ (n - 1) + 1 = n /\ Len(b) \in Nat /\ i \in 1 .. Len(b)
  BY BundleType
<1>1. i < n <=> i \in 1 .. n - 1
  BY <1>0
<1> QED  BY <1>0, <1>1 DEF IsPair, Open

\* Pairs that are closed lie before the seed in hand.
LEMMA EarlierPairs ==
  ASSUME NEW b \in Bundles, NEW n \in 0 .. Len(b), NEW i \in Open(b, n),
         NEW h \in DOMAIN b, NEW j \in DOMAIN b, j <= n, IsPair(b, h, j)
  PROVE  h < i
<1>0. n \in Nat /\ Len(b) \in Nat /\ h \in Nat /\ j \in Nat /\ i \in 1 .. n /\ h < j
      /\ IsA("timezone", b, j) /\ IsA("seed", b, i) /\ ~Between("timezone", b, i, n + 1)
  BY BundleType DEF IsPair, Open
<1>1. j # i
  BY <1>0 DEF IsA
<1>2. ~(j \in i + 1 .. (n + 1) - 1)
  BY <1>0 DEF Between
<1> QED  BY <1>0, <1>1, <1>2

\* How the pairs grow.
LEMMA PairsGrow ==
  ASSUME NEW b \in Bundles, NEW n \in 1 .. Len(b), NEW tz
  PROVE  PairedBy(tz, b, n) =
           IF /\ IsA("timezone", b, n) /\ Open(b, n - 1) # {} /\ tz = b[n].value
              /\ tz # Empty /\ SeedInHand(b, n - 1) # Empty
           THEN PairedBy(tz, b, n - 1) \cup {Greatest(Open(b, n - 1))}
           ELSE PairedBy(tz, b, n - 1)
<1>0. n \in Nat /\ n - 1 \in Nat /\ n - 1 \in 0 .. Len(b) /\ Len(b) \in Nat /\ DOMAIN b = 1 .. Len(b)
      /\ n \in DOMAIN b
  BY BundleType
<1>1. \A j \in DOMAIN b : j <= n <=> (j <= n - 1 \/ j = n)
  BY <1>0
<1>2. \A i \in DOMAIN b : i \in PairedBy(tz, b, n) <=>
         \/ i \in PairedBy(tz, b, n - 1)
         \/ b[i].value # Empty /\ IsPair(b, i, n) /\ b[n].value = tz /\ tz # Empty
  BY <1>0, <1>1 DEF PairedBy
<1>3. CASE IsA("timezone", b, n) /\ Open(b, n - 1) # {}
  <2>1. PICK i \in Open(b, n - 1) : TRUE
    BY <1>3
  <2>2. Open(b, n - 1) = {i} /\ Greatest(Open(b, n - 1)) = i
    BY <1>0, <2>1, OneOpen
  <2>3. \A k \in DOMAIN b : IsPair(b, k, n) <=> k = i
    BY <1>3, <2>2, ZonePairs
  <2>4. i \in DOMAIN b
    BY <1>0, <2>1 DEF Open
  <2>5. SeedInHand(b, n - 1) = b[i].value
    BY <1>3, <2>2 DEF SeedInHand
  <2>6. \A k \in DOMAIN b : k \in PairedBy(tz, b, n) <=>
           \/ k \in PairedBy(tz, b, n - 1)
           \/ k = i /\ b[i].value # Empty /\ b[n].value = tz /\ tz # Empty
    BY <1>2, <2>3
  <2>7. PairedBy(tz, b, n) \subseteq DOMAIN b /\ PairedBy(tz, b, n - 1) \subseteq DOMAIN b
    BY DEF PairedBy
  <2> QED  BY <1>3, <2>2, <2>4, <2>5, <2>6, <2>7
<1>4. CASE ~(IsA("timezone", b, n) /\ Open(b, n - 1) # {})
  <2>1. \A k \in DOMAIN b : ~IsPair(b, k, n)
    <3>1. CASE IsA("timezone", b, n)
      BY <1>4, <3>1, ZonePairs
    <3>2. CASE ~IsA("timezone", b, n)
      BY <3>2 DEF IsPair
    <3> QED  BY <3>1, <3>2
  <2>2. \A k \in DOMAIN b : k \in PairedBy(tz, b, n) <=> k \in PairedBy(tz, b, n - 1)
    BY <1>2, <2>1
  <2>3. PairedBy(tz, b, n) \subseteq DOMAIN b /\ PairedBy(tz, b, n - 1) \subseteq DOMAIN b
    BY DEF PairedBy
  <2> QED  BY <1>4, <2>2, <2>3
<1> QED  BY <1>3, <1>4

\* A pattern does to the seed in hand and the pairs what Pass says.
LEMMA PassIsRight ==
  ASSUME NEW b \in Bundles, NEW known, NEW n \in 1 .. Len(b)
  PROVE  [seed |-> SeedInHand(b, n), all |-> AllAfter(b, known, n)] =
           Pass([seed |-> SeedInHand(b, n - 1), all |-> AllAfter(b, known, n - 1)], b[n])
<1> DEFINE i == Greatest(Open(b, n - 1))
           seed == SeedInHand(b, n - 1)
           all == AllAfter(b, known, n - 1)
           s == [seed |-> seed, all |-> all]
           tz == b[n].value
<1>0. n \in Nat /\ n - 1 \in Nat /\ n - 1 \in 0 .. Len(b) /\ n \in 0 .. Len(b)
      /\ Len(b) \in Nat /\ DOMAIN b = 1 .. Len(b) /\ n \in DOMAIN b
  BY BundleType
<1>1. s.seed = seed /\ s.all = all
  OBVIOUS
<1>2. \A k \in DOMAIN b : IsA("seed", b, k) => b[k].value # None
  BY CredentialsAssumption DEF IsA
<1>3. seed = None <=> Open(b, n - 1) = {}
  <2>1. CASE Open(b, n - 1) = {}
    BY <2>1 DEF SeedInHand
  <2>2. CASE Open(b, n - 1) # {}
    <3>1. PICK k \in Open(b, n - 1) : TRUE
      BY <2>2
    <3>2. i = k /\ k \in DOMAIN b /\ IsA("seed", b, k)
      <4>1. k \in 1 .. n - 1 /\ IsA("seed", b, k)
        BY <3>1 DEF Open
      <4> QED  BY <1>0, <4>1, OneOpen
    <3> QED  BY <1>2, <2>2, <3>2 DEF SeedInHand
  <2> QED  BY <2>1, <2>2
<1>4. IsA("seed", b, n) <=> b[n].kind = "seed"
  BY DEF IsA
<1>5. IsA("timezone", b, n) <=> b[n].kind = "timezone"
  BY DEF IsA
<1>6. ASSUME ~(IsA("timezone", b, n) /\ seed # None /\ Empty \notin {seed, tz})
      PROVE  AllAfter(b, known, n) = all
  <2>1. \A z : PairedBy(z, b, n) = PairedBy(z, b, n - 1)
    BY <1>3, <1>6, PairsGrow
  <2>2. Zones(b, n) = Zones(b, n - 1)
    BY <2>1 DEF Zones
  <2> QED  BY <2>1, <2>2 DEF AllAfter
<1>7. CASE IsA("seed", b, n)
  <2>0. ~IsA("timezone", b, n)
    BY <1>7 DEF IsA
  <2>1. AllAfter(b, known, n) = all
    BY <1>6, <2>0
  <2>2. Open(b, n) = IF Open(b, n - 1) = {} THEN {n} ELSE Open(b, n - 1)
    BY <1>7, SeedOpens
  <2>3. CASE Open(b, n - 1) = {}
    <3>1. n \in Open(b, n)
      BY <2>2, <2>3
    <3>2. Greatest(Open(b, n)) = n /\ Open(b, n) # {}
      BY <1>0, <3>1, OneOpen
    <3>3. SeedInHand(b, n) = tz
      BY <3>2 DEF SeedInHand
    <3>4. Pass(s, b[n]) = [s EXCEPT !.seed = tz]
      BY <1>1, <1>3, <1>4, <1>7, <2>3 DEF Pass
    <3>5. [s EXCEPT !.seed = tz] = [seed |-> tz, all |-> all]
      OBVIOUS
    <3> QED  BY <2>1, <3>3, <3>4, <3>5
  <2>4. CASE Open(b, n - 1) # {}
    <3>1. SeedInHand(b, n) = seed
      BY <2>2, <2>4 DEF SeedInHand
    <3>2. Pass(s, b[n]) = s
      BY <1>1, <1>3, <1>5, <2>0, <2>4 DEF Pass
    <3> QED  BY <2>1, <3>1, <3>2
  <2> QED  BY <2>3, <2>4
<1>8. CASE IsA("timezone", b, n)
  <2>0. SeedInHand(b, n) = None
    BY <1>8, ZoneCloses DEF SeedInHand
  <2>1. ~IsA("seed", b, n)
    BY <1>8 DEF IsA
  <2>2. CASE seed = None
    <3>1. Pass(s, b[n]) = s
      BY <1>1, <1>4, <2>1, <2>2 DEF Pass
    <3>2. AllAfter(b, known, n) = all
      BY <1>6, <2>2
    <3> QED  BY <2>0, <2>2, <3>1, <3>2
  <2>3. CASE seed # None /\ Empty \in {seed, tz}
    <3>1. Pass(s, b[n]) = [seed |-> None, all |-> all]
      BY <1>1, <1>4, <1>5, <1>8, <2>1, <2>3 DEF Pass
    <3>2. AllAfter(b, known, n) = all
      BY <1>6, <2>3
    <3> QED  BY <2>0, <3>1, <3>2
  <2>4. CASE seed # None /\ Empty \notin {seed, tz}
    <3> DEFINE grown == [z \in DOMAIN all \cup {tz} |-> IF z = tz THEN seed ELSE all[z]]
    <3>1. Pass(s, b[n]) = [seed |-> None, all |-> grown]
      BY <1>1, <1>4, <1>5, <1>8, <2>1, <2>4 DEF Pass
    <3>2. AllAfter(b, known, n) = grown
      <4>1. \A z : PairedBy(z, b, n) = IF z = tz THEN PairedBy(z, b, n - 1) \cup {i}
                                       ELSE PairedBy(z, b, n - 1)
        BY <1>3, <1>8, <2>4, PairsGrow
      <4>2. Zones(b, n) = Zones(b, n - 1) \cup {tz}
        BY <1>0, <4>1 DEF Zones
      <4>3. i \in Open(b, n - 1) /\ seed = b[i].value
        <5>1. PICK k \in Open(b, n - 1) : TRUE
          BY <1>3, <2>4
        <5> QED  BY <1>0, <1>3, <2>4, <5>1, OneOpen DEF SeedInHand
      <4>4. PairedBy(tz, b, n - 1) \cup {i} \in SUBSET (1 .. Len(b))
        <5>1. PairedBy(tz, b, n - 1) \subseteq DOMAIN b
          BY DEF PairedBy
        <5>2. i \in 1 .. n - 1
          BY <4>3 DEF Open
        <5>3. i \in 1 .. Len(b)
          <6> HIDE DEF i
          <6> QED  BY <1>0, <5>2
        <5> QED  BY <1>0, <5>1, <5>3
      <4>5. \A h \in PairedBy(tz, b, n - 1) \cup {i} : h <= i
        <5>1. \A h \in PairedBy(tz, b, n - 1) : h < i
          BY <1>0, <4>3, EarlierPairs DEF PairedBy
        <5>2. \A h \in PairedBy(tz, b, n - 1) \cup {i} : h \in 1 .. Len(b)
          BY <4>4
        <5>3. \A h \in PairedBy(tz, b, n - 1) \cup {i} : h \in Nat
          BY <1>0, <5>2
        <5> HIDE DEF i
        <5>4. ASSUME NEW h \in PairedBy(tz, b, n - 1) PROVE h <= i
          <6>1. h \in Nat /\ i \in Nat
            BY <5>3
          <6>2. h < i
            BY <5>1
          <6> QED  BY <6>1, <6>2
        <5>5. i <= i
          BY <5>3
        <5> QED  BY <5>4, <5>5
      <4>6. Greatest(PairedBy(tz, b, n - 1) \cup {i}) = i
        BY <1>0, <4>4, <4>5, GreatestIs
      <4> DEFINE val(z) == IF PairedBy(z, b, n) # {} THEN b[Greatest(PairedBy(z, b, n))].value
                           ELSE known[z]
      <4>7. val(tz) = seed
        BY <4>1, <4>3, <4>6
      <4>8. \A z \in DOMAIN all : z # tz => val(z) = all[z]
        BY <4>1 DEF AllAfter
      <4>9. DOMAIN all = DOMAIN known \cup Zones(b, n - 1)
        BY DEF AllAfter
      <4>10. AllAfter(b, known, n) = [z \in DOMAIN known \cup Zones(b, n) |-> val(z)]
        BY DEF AllAfter
      <4>11. DOMAIN known \cup Zones(b, n) = DOMAIN all \cup {tz}
        BY <4>2, <4>9
      <4> HIDE DEF val, all, seed
      <4>12. \A z \in DOMAIN all \cup {tz} : val(z) = IF z = tz THEN seed ELSE all[z]
        BY <4>7, <4>8
      <4> QED  BY <4>10, <4>11, <4>12
    <3> QED  BY <2>0, <3>1, <3>2
  <2> QED  BY <2>2, <2>3, <2>4
<1>9. CASE ~IsA("seed", b, n) /\ ~IsA("timezone", b, n)
  <2>1. Pass(s, b[n]) = s
    BY <1>4, <1>5, <1>9 DEF Pass
  <2>2. AllAfter(b, known, n) = all
    BY <1>6, <1>9
  <2>3. SeedInHand(b, n) = seed
    BY <1>9, OthersLeaveOpen DEF SeedInHand
  <2> QED  BY <2>1, <2>2, <2>3
<1> QED  BY <1>7, <1>8, <1>9

\* What scan_seeds makes of the seeds known: the last of a zone's in the bundle, if
\* it has any.
LEMMA SeedsScanned ==
  ASSUME NEW b \in Bundles, NEW known, known = [tz \in DOMAIN known |-> known[tz]]
  PROVE  scan_seeds(b, known) = AllAfter(b, known, Len(b))
<1> DEFINE Start == [seed |-> None, all |-> known]
           Body(f) == [n \in 0 .. Len(b) |-> IF n = 0 THEN Start ELSE Pass(f[n - 1], b[n])]
           Rec(f) == f = Body(f)
           after == CHOOSE f : Rec(f)
           At(n) == [seed |-> SeedInHand(b, n), all |-> AllAfter(b, known, n)]
           F == [n \in 0 .. Len(b) |-> At(n)]
<1>0. Len(b) \in Nat
  BY BundleType
<1>1. scan_seeds(b, known) = after[Len(b)].all
  BY DEF scan_seeds
<1>2. At(0) = Start
  <2>1. Open(b, 0) = {}
    BY DEF Open
  <2>2. \A z : PairedBy(z, b, 0) = {}
    BY BundleType DEF PairedBy, IsPair
  <2>3. Zones(b, 0) = {}
    BY <2>2 DEF Zones
  <2>4. AllAfter(b, known, 0) = [tz \in DOMAIN known |-> known[tz]]
    BY <2>2, <2>3 DEF AllAfter
  <2> QED  BY <2>1, <2>4 DEF SeedInHand
<1>3. \A n \in 1 .. Len(b) : At(n) = Pass(At(n - 1), b[n])
  BY PassIsRight
<1> HIDE DEF At, Start
<1>4. Rec(F)
  <2>1. \A n \in 0 .. Len(b) : F[n] = IF n = 0 THEN Start ELSE Pass(F[n - 1], b[n])
    <3> SUFFICES ASSUME NEW n \in 0 .. Len(b)
                 PROVE  F[n] = IF n = 0 THEN Start ELSE Pass(F[n - 1], b[n])
      OBVIOUS
    <3>1. CASE n = 0
      BY <1>2, <3>1
    <3>2. CASE n # 0
      <4>1. n \in 1 .. Len(b) /\ n - 1 \in 0 .. Len(b)
        BY <1>0, <3>2
      <4> QED  BY <1>3, <3>2, <4>1
    <3> QED  BY <3>1, <3>2
  <2> QED  BY <2>1
<1>5. Rec(after)
  <2> HIDE DEF Rec
  <2> QED  BY <1>4
<1>6. after[Len(b)] = F[Len(b)]
  <2> DEFINE Same == {n \in Nat : n <= Len(b) => after[n] = F[n]}
  <2>0. \A n \in 0 .. Len(b) : /\ after[n] = IF n = 0 THEN Start ELSE Pass(after[n - 1], b[n])
                               /\ F[n] = IF n = 0 THEN Start ELSE Pass(F[n - 1], b[n])
    <3> HIDE DEF after, F
    <3> QED  BY <1>4, <1>5
  <2> HIDE DEF after, F
  <2>1. 0 \in Same
    BY <1>0, <2>0
  <2>2. ASSUME NEW n \in Same PROVE n + 1 \in Same
    <3> SUFFICES ASSUME n + 1 <= Len(b) PROVE after[n + 1] = F[n + 1]
      OBVIOUS
    <3>1. n + 1 \in 0 .. Len(b) /\ n + 1 # 0 /\ (n + 1) - 1 = n /\ n <= Len(b)
      BY <1>0
    <3>2. after[n] = F[n]
      BY <3>1
    <3> QED  BY <2>0, <3>1, <3>2
  <2>3. Same \in SUBSET Nat
    OBVIOUS
  <2> HIDE DEF Same
  <2>4. Same = Nat
    BY <2>1, <2>2, <2>3, InductNat
  <2> QED  BY <1>0, <2>4 DEF Same
<1>7. F[Len(b)].all = AllAfter(b, known, Len(b))
  BY <1>0 DEF At
<1> QED  BY <1>1, <1>6, <1>7

LEMMA PairedIsSeeds ==
  ASSUME NEW b \in Bundles, NEW tz
  PROVE  PairedBy(tz, b, Len(b)) = SeedsOf(tz, b)
<1>1. \A j \in DOMAIN b : j <= Len(b)
  BY BundleType
<1> QED  BY <1>1 DEF PairedBy, SeedsOf

-----------------------------------------------------------------------------
(* The secret of a zone.                                                   *)

DecodingOf(b, tz, seed) == {i \in Anchors(b, tz) : Triple(b, i, seed) \in Decodable}

LEMMA DerivedIs ==
  ASSUME NEW b \in Bundles, NEW tz, NEW seed
  PROVE  Derived(b, tz, seed) = IF DecodingOf(b, tz, seed) = {} THEN {}
                                ELSE {Triple(b, Least(DecodingOf(b, tz, seed)), seed)}
<1> DEFINE D == DecodingOf(b, tz, seed)
<1>0. Anchors(b, tz) \subseteq Nat /\ D \subseteq Anchors(b, tz)
  BY BundleType DEF Anchors, DecodingOf
<1>1. CASE D = {}
  BY <1>1 DEF Derived, Visited, DecodingOf
<1>2. CASE D # {}
  <2>1. Least(D) \in D /\ \A j \in D : Least(D) <= j
    BY <1>0, <1>2, LeastExists
  <2>2. \A i \in D : i \in Visited(b, tz, seed) <=> i = Least(D)
    <3> SUFFICES ASSUME NEW i \in D
                 PROVE  i \in Visited(b, tz, seed) <=> i = Least(D)
      OBVIOUS
    <3>1. i \in Nat /\ Least(D) \in Nat /\ Least(D) <= i /\ i \in Anchors(b, tz)
          /\ Least(D) \in Anchors(b, tz) /\ Triple(b, Least(D), seed) \in Decodable
      BY <1>0, <2>1 DEF DecodingOf
    <3>2. i # Least(D) => i \notin Visited(b, tz, seed)
      BY <3>1 DEF Visited
    <3>3. ASSUME i = Least(D) PROVE i \in Visited(b, tz, seed)
      <4> SUFFICES ASSUME NEW j \in Anchors(b, tz), j < i
                   PROVE  Triple(b, j, seed) \notin Decodable
        BY <3>1 DEF Visited
      <4>1. j \notin D
        BY <1>0, <2>1, <3>1, <3>3
      <4> QED  BY <4>1 DEF DecodingOf
    <3> QED  BY <3>2, <3>3
  <2>3. \A i \in Visited(b, tz, seed) : Triple(b, i, seed) \in Decodable => i \in D
    BY DEF Visited, DecodingOf
  <2>4. \A i \in D : Triple(b, i, seed) \in Decodable
    BY DEF DecodingOf
  <2> HIDE DEF D
  <2>5. Derived(b, tz, seed) = {Triple(b, Least(D), seed)}
    <3>1. Triple(b, Least(D), seed) \in Derived(b, tz, seed)
      BY <2>1, <2>2, <2>4 DEF Derived
    <3>2. \A t \in Derived(b, tz, seed) : t = Triple(b, Least(D), seed)
      BY <2>2, <2>3 DEF Derived
    <3> QED  BY <3>1, <3>2
  <2> QED  BY <1>2, <2>5 DEF D
<1> QED  BY <1>1, <1>2

-----------------------------------------------------------------------------
(* What the bundles read hold, as one more comes.                          *)

SeedIn(tz, b) == b[Greatest(SeedsOf(tz, b))].value

LEMMA SeedInIs ==
  ASSUME NEW b \in Bundles, NEW tz, SeedsOf(tz, b) # {}
  PROVE  SeedIn(tz, b) # None /\ tz \in TimeZones
<1>1. SeedsOf(tz, b) \in SUBSET (1 .. Len(b)) /\ Len(b) \in Nat
  BY BundleType DEF SeedsOf
<1>2. PICK i \in SeedsOf(tz, b) : i = Greatest(SeedsOf(tz, b))
  BY <1>1, GreatestExists
<1>3. PICK j \in DOMAIN b : IsPair(b, i, j) /\ b[j].value = tz
  BY <1>2 DEF SeedsOf
<1>4. b[i].value # None
  BY <1>1, <1>2, <1>3, BundleType, CredentialsAssumption DEF IsPair, IsA
<1> QED  BY <1>2, <1>3, <1>4 DEF SeedIn, TimeZones
\* What is said of the first n bundles depends on them only.
LEMMA SamePrefix ==
  ASSUME NEW n \in Nat, NEW r, NEW q, \A m \in 1 .. n : q[m] = r[m], NEW tz
  PROVE  SeedAfter(q, tz, n) = SeedAfter(r, tz, n)
<1> DEFINE having == {m \in 1 .. n : SeedsOf(tz, r[m]) # {}}
           later  == {m \in 1 .. n : SeedsOf(tz, q[m]) # {}}
<1>1. later = having
  OBVIOUS
<1>2. SeedAfter(r, tz, n) = IF having = {} THEN None ELSE SeedIn(tz, r[Greatest(having)])
  BY DEF SeedAfter, SeedIn
<1>3. SeedAfter(q, tz, n) = IF later = {} THEN None ELSE SeedIn(tz, q[Greatest(later)])
  BY DEF SeedAfter, SeedIn
<1>4. having # {} => Greatest(having) \in 1 .. n
  BY GreatestExists
<1> HIDE DEF having, later
<1> QED  BY <1>1, <1>2, <1>3, <1>4

LEMMA SameDecoding ==
  ASSUME NEW n \in Nat, NEW r, NEW q, \A m \in 1 .. n : q[m] = r[m], NEW tz, NEW k \in 1 .. n
  PROVE  /\ SeedAfter(q, tz, k) = SeedAfter(r, tz, k)
         /\ Decoding(q, tz, k) = Decoding(r, tz, k)
<1>1. k \in Nat /\ \A m \in 1 .. k : q[m] = r[m]
  OBVIOUS
<1>2. SeedAfter(q, tz, k) = SeedAfter(r, tz, k) /\ q[k] = r[k]
  BY <1>1, SamePrefix
<1> QED  BY <1>2 DEF Decoding

LEMMA NothingRead ==
  /\ \A tz : SeedAfter(<<>>, tz, 0) = None /\ SecretAfter(<<>>, tz) = None
  /\ IdAfter(<<>>) = None /\ SecretsAfter(<<>>) = {}
<1>1. Len(<<>>) = 0 /\ 1 .. 0 = {}
  OBVIOUS
<1> QED  BY <1>1 DEF SeedAfter, SecretAfter, IdAfter, SecretsAfter

LEMMA OneMoreBundle ==
  ASSUME NEW r \in Seq(Bundles), NEW b \in Bundles, NEW tz
  PROVE  LET n    == Len(r)
             seed == IF SeedsOf(tz, b) # {} THEN SeedIn(tz, b) ELSE SeedAfter(r, tz, n)
         IN
         /\ SeedAfter(Append(r, b), tz, n + 1) = seed
         /\ SecretAfter(Append(r, b), tz) =
              IF DecodingOf(b, tz, seed) # {}
              THEN Triple(b, Least(DecodingOf(b, tz, seed)), seed) ELSE SecretAfter(r, tz)
         /\ IdAfter(Append(r, b)) = IF IdAfter(r) # None THEN IdAfter(r) ELSE scan_app_id(b)
<1> DEFINE n == Len(r)
           q == Append(r, b)
           seed == IF SeedsOf(tz, b) # {} THEN SeedIn(tz, b) ELSE SeedAfter(r, tz, n)
<1>0. /\ n \in Nat /\ n + 1 \in Nat /\ n + 1 \in 1 .. n + 1 /\ 1 .. n + 1 = (1 .. n) \cup {n + 1}
      /\ n \in 0 .. n
  BY LenProperties
<1>1. q[n + 1] = b /\ Len(q) = n + 1 /\ \A m \in 1 .. n : q[m] = r[m]
  BY <1>0, AppendProperties
<1> HIDE DEF n, q
<1>2. \A m \in 1 .. n : m <= n + 1 /\ m # n + 1
  BY <1>0
<1>3. SeedAfter(q, tz, n + 1) = seed
  <2> DEFINE having == {m \in 1 .. n : SeedsOf(tz, q[m]) # {}}
             later  == {m \in 1 .. n + 1 : SeedsOf(tz, q[m]) # {}}
  <2>1. /\ SeedAfter(q, tz, n) = IF having = {} THEN None ELSE SeedIn(tz, q[Greatest(having)])
        /\ SeedAfter(q, tz, n + 1) = IF later = {} THEN None ELSE SeedIn(tz, q[Greatest(later)])
    BY DEF SeedAfter, SeedIn
  <2>2. later = IF SeedsOf(tz, b) # {} THEN having \cup {n + 1} ELSE having
    BY <1>0, <1>1
  <2>3. SeedsOf(tz, b) # {} => Greatest(later) = n + 1
    <3> SUFFICES ASSUME SeedsOf(tz, b) # {} PROVE Greatest(later) = n + 1
      OBVIOUS
    <3>1. n + 1 \in later /\ later \in SUBSET (1 .. n + 1) /\ \A j \in later : j <= n + 1
      BY <1>0, <1>2, <2>2
    <3> HIDE DEF later
    <3> QED  BY <1>0, <3>1, GreatestIs
  <2>4. SeedAfter(q, tz, n) = SeedAfter(r, tz, n)
    BY <1>0, <1>1, SamePrefix
  <2> HIDE DEF having, later
  <2>5. CASE SeedsOf(tz, b) # {}
    <3>1. later # {}
      BY <2>2, <2>5
    <3> QED  BY <1>1, <2>1, <2>3, <2>5, <3>1
  <2>6. CASE SeedsOf(tz, b) = {}
    BY <2>1, <2>2, <2>4, <2>6
  <2> QED  BY <2>5, <2>6
<1> HIDE DEF seed
<1>4. Decoding(q, tz, n + 1) = DecodingOf(b, tz, seed)
  BY <1>1, <1>3 DEF Decoding, DecodingOf, Anchors, IsA
<1>5. SecretAfter(q, tz) = IF DecodingOf(b, tz, seed) # {}
                           THEN Triple(b, Least(DecodingOf(b, tz, seed)), seed)
                           ELSE SecretAfter(r, tz)
  <2> DEFINE having == {m \in 1 .. n : Decoding(r, tz, m) # {}}
             later  == {m \in 1 .. n + 1 : Decoding(q, tz, m) # {}}
             SR(m) == Triple(r[m], Least(Decoding(r, tz, m)), SeedAfter(r, tz, m))
             SQ(m) == Triple(q[m], Least(Decoding(q, tz, m)), SeedAfter(q, tz, m))
  <2>0. \A m \in 1 .. n : Decoding(q, tz, m) = Decoding(r, tz, m) /\ SQ(m) = SR(m)
    BY <1>0, <1>1, SameDecoding
  <2>1. /\ SecretAfter(r, tz) = IF having = {} THEN None ELSE SR(Greatest(having))
        /\ SecretAfter(q, tz) = IF later = {} THEN None ELSE SQ(Greatest(later))
    BY <1>1 DEF SecretAfter, n
  <2>2. later = IF DecodingOf(b, tz, seed) # {} THEN having \cup {n + 1} ELSE having
    BY <1>0, <1>4, <2>0
  <2>3. DecodingOf(b, tz, seed) # {} => Greatest(later) = n + 1
    <3> SUFFICES ASSUME DecodingOf(b, tz, seed) # {} PROVE Greatest(later) = n + 1
      OBVIOUS
    <3>1. n + 1 \in later /\ later \in SUBSET (1 .. n + 1) /\ \A j \in later : j <= n + 1
      BY <1>0, <1>2, <2>2
    <3> HIDE DEF later
    <3> QED  BY <1>0, <3>1, GreatestIs
  <2>4. having # {} => SQ(Greatest(having)) = SR(Greatest(having))
    <3>1. having # {} => Greatest(having) \in 1 .. n
      BY <1>0, GreatestExists
    <3> HIDE DEF having
    <3> QED  BY <2>0, <3>1
  <2>5. SQ(n + 1) = Triple(b, Least(DecodingOf(b, tz, seed)), seed)
    BY <1>1, <1>3, <1>4
  <2> HIDE DEF having, later, SR, SQ
  <2>6. CASE DecodingOf(b, tz, seed) # {}
    <3>1. later # {}
      BY <2>2, <2>6
    <3> QED  BY <2>1, <2>3, <2>5, <2>6, <3>1
  <2>7. CASE DecodingOf(b, tz, seed) = {}
    BY <2>1, <2>2, <2>4, <2>7
  <2> QED  BY <2>6, <2>7
<1>6. IdAfter(q) = IF IdAfter(r) # None THEN IdAfter(r) ELSE scan_app_id(b)
  <2> DEFINE firsts == {m \in 1 .. n : scan_app_id(r[m]) # None}
             later  == {m \in 1 .. n + 1 : scan_app_id(q[m]) # None}
  <2>1. /\ IdAfter(r) = IF firsts = {} THEN None ELSE scan_app_id(r[Least(firsts)])
        /\ IdAfter(q) = IF later = {} THEN None ELSE scan_app_id(q[Least(later)])
    BY <1>1 DEF IdAfter, n
  <2>2. later = IF scan_app_id(b) # None THEN firsts \cup {n + 1} ELSE firsts
    BY <1>0, <1>1
  <2>3. ASSUME firsts # {}
        PROVE  /\ Least(later) = Least(firsts) /\ later # {} /\ Least(firsts) \in 1 .. n
               /\ scan_app_id(r[Least(firsts)]) # None
    <3>1. firsts \in SUBSET Nat /\ later \in SUBSET Nat /\ \A j \in firsts : j <= n + 1
      BY <1>0, <1>2
    <3>2. \A j \in later : j \in firsts \/ j = n + 1
      BY <2>2
    <3>3. firsts \subseteq later
      BY <2>2
    <3>4. \A j \in firsts : j \in 1 .. n /\ scan_app_id(r[j]) # None
      OBVIOUS
    <3> HIDE DEF firsts, later
    <3>5. Least(firsts) \in firsts /\ \A j \in firsts : Least(firsts) <= j
      BY <2>3, <3>1, LeastExists
    <3>6. Least(firsts) \in later /\ \A j \in later : Least(firsts) <= j
      BY <3>1, <3>2, <3>3, <3>5
    <3> QED  BY <3>1, <3>4, <3>5, <3>6, LeastIs
  <2>4. firsts = {} /\ scan_app_id(b) # None => later = {n + 1} /\ Least(later) = n + 1
    <3>1. Least({n + 1}) = n + 1
      BY <1>0, LeastIs
    <3> HIDE DEF firsts, later
    <3> QED  BY <2>2, <3>1
  <2> HIDE DEF firsts, later
  <2>5. CASE firsts # {}
    BY <1>1, <2>1, <2>3, <2>5
  <2>6. CASE firsts = {} /\ scan_app_id(b) # None
    BY <1>1, <2>1, <2>4, <2>6
  <2>7. CASE firsts = {} /\ scan_app_id(b) = None
    BY <2>1, <2>2, <2>7
  <2> QED  BY <2>5, <2>6, <2>7
<1> QED  BY <1>3, <1>5, <1>6 DEF seed, q, n

-----------------------------------------------------------------------------
(* A turn of the loop finds what one more bundle adds.                     *)

SeedsAt(r) ==
  [tz \in {z \in TimeZones : SeedAfter(r, z, Len(r)) # None} |-> SeedAfter(r, tz, Len(r))]
SecretsAt(r) ==
  [tz \in {z \in TimeZones : SecretAfter(r, z) # None} |-> SecretAfter(r, tz)]

LEMMA SeedsGrow ==
  ASSUME NEW r \in Seq(Bundles), NEW b \in Bundles
  PROVE  scan_seeds(b, SeedsAt(r)) = SeedsAt(Append(r, b))
<1> DEFINE n == Len(r)
           q == Append(r, b)
           known == SeedsAt(r)
           new == {z \in TimeZones : SeedAfter(q, z, Len(q)) # None}
<1>0. Len(q) = n + 1 /\ Len(b) \in Nat
  BY AppendProperties, BundleType
<1>1. \A z : SeedAfter(q, z, n + 1) =
               IF SeedsOf(z, b) # {} THEN SeedIn(z, b) ELSE SeedAfter(r, z, n)
  BY OneMoreBundle
<1>2. known = [z \in DOMAIN known |-> known[z]] /\ \A z \in DOMAIN known : known[z] = SeedAfter(r, z, n)
  BY DEF SeedsAt
<1>3. DOMAIN known = {z \in TimeZones : SeedAfter(r, z, n) # None}
  BY DEF SeedsAt
<1>4. \A z : PairedBy(z, b, Len(b)) = SeedsOf(z, b)
  BY PairedIsSeeds
<1>5. \A z : SeedsOf(z, b) # {} => SeedIn(z, b) # None /\ z \in TimeZones
  BY SeedInIs
<1>6. \A z : z \in Zones(b, Len(b)) <=> SeedsOf(z, b) # {}
  <2>1. \A z : SeedsOf(z, b) # {} => z \in {b[j].value : j \in DOMAIN b}
    BY DEF SeedsOf
  <2> QED  BY <1>4, <2>1 DEF Zones
<1> HIDE DEF known, n, q
<1>7. scan_seeds(b, known) = AllAfter(b, known, Len(b))
  BY <1>2, SeedsScanned
<1>8. DOMAIN known \cup Zones(b, Len(b)) = new
  <2>1. \A z : z \in DOMAIN known \cup Zones(b, Len(b)) <=> z \in new
    BY <1>0, <1>1, <1>3, <1>5, <1>6
  <2> QED  BY <2>1
<1>9. AllAfter(b, known, Len(b)) =
        [z \in DOMAIN known \cup Zones(b, Len(b)) |->
           IF SeedsOf(z, b) # {} THEN SeedIn(z, b) ELSE known[z]]
  BY <1>4 DEF AllAfter, SeedIn
<1>10. \A z \in DOMAIN known \cup Zones(b, Len(b)) :
         (IF SeedsOf(z, b) # {} THEN SeedIn(z, b) ELSE known[z]) = SeedAfter(q, z, Len(q))
  BY <1>0, <1>1, <1>2, <1>6
<1>11. SeedsAt(q) = [z \in new |-> SeedAfter(q, z, Len(q))]
  BY DEF SeedsAt
<1> HIDE DEF new
<1>12. scan_seeds(b, known) = SeedsAt(q)
  BY <1>7, <1>8, <1>9, <1>10, <1>11
<1> QED  BY <1>12 DEF known, q

LEMMA SecretsGrow ==
  ASSUME NEW r \in Seq(Bundles), NEW b \in Bundles
  PROVE  scan_and_derive_secrets(b, SeedsAt(Append(r, b)), SecretsAt(r)) = SecretsAt(Append(r, b))
<1> DEFINE n == Len(r)
           q == Append(r, b)
           seed(z) == SeedAfter(q, z, n + 1)
           D(z) == DecodingOf(b, z, seed(z))
           known == SeedsAt(q)
           old == SecretsAt(r)
           new == {tz \in DOMAIN known : Derived(b, tz, known[tz]) # {}}
<1>0. Len(q) = n + 1
  BY AppendProperties
<1>1. \A z : SecretAfter(q, z) = IF D(z) # {} THEN Triple(b, Least(D(z)), seed(z))
                                 ELSE SecretAfter(r, z)
  <2> SUFFICES ASSUME NEW z
               PROVE  SecretAfter(q, z) = IF D(z) # {} THEN Triple(b, Least(D(z)), seed(z))
                                          ELSE SecretAfter(r, z)
    OBVIOUS
  <2> DEFINE s == IF SeedsOf(z, b) # {} THEN SeedIn(z, b) ELSE SeedAfter(r, z, n)
  <2>1. /\ SeedAfter(q, z, n + 1) = s
        /\ SecretAfter(q, z) = IF DecodingOf(b, z, s) # {}
                               THEN Triple(b, Least(DecodingOf(b, z, s)), s) ELSE SecretAfter(r, z)
    BY OneMoreBundle
  <2> HIDE DEF s
  <2> QED  BY <2>1
<1>2. DOMAIN known = {z \in TimeZones : seed(z) # None}
      /\ \A z \in DOMAIN known : known[z] = seed(z)
  BY <1>0 DEF SeedsAt
<1>3. DOMAIN old = {z \in TimeZones : SecretAfter(r, z) # None}
      /\ \A z \in DOMAIN old : old[z] = SecretAfter(r, z)
  BY DEF SecretsAt
<1>4. \A z : D(z) # {} => /\ seed(z) # None /\ z \in TimeZones
                          /\ Triple(b, Least(D(z)), seed(z)) \in Decodable
  <2> SUFFICES ASSUME NEW z, D(z) # {}
               PROVE  /\ seed(z) # None /\ z \in TimeZones
                      /\ Triple(b, Least(D(z)), seed(z)) \in Decodable
    OBVIOUS
  <2>1. D(z) \in SUBSET Nat
    BY BundleType DEF DecodingOf, Anchors
  <2>2. PICK i \in D(z) : i = Least(D(z))
    BY <2>1, LeastExists
  <2>3. i \in DOMAIN b /\ b[i].value = z /\ Triple(b, i, seed(z)) \in Decodable
    BY <2>2 DEF DecodingOf, Anchors
  <2>4. Triple(b, i, seed(z))[1] = seed(z)
    BY DEF Triple
  <2>5. seed(z) # None
    BY <2>3, <2>4, CredentialsAssumption
  <2> QED  BY <2>2, <2>3, <2>5 DEF TimeZones
<1>5. \A z : Derived(b, z, seed(z)) = IF D(z) = {} THEN {}
                                      ELSE {Triple(b, Least(D(z)), seed(z))}
  BY DerivedIs
<1> HIDE DEF n, q, seed, D, known, old
<1>6. \A z : z \in new <=> D(z) # {}
  <2>1. \A z \in DOMAIN known : Derived(b, z, known[z]) # {} <=> D(z) # {}
    BY <1>2, <1>5
  <2> QED  BY <1>2, <1>4, <2>1
<1>7. \A z \in new : (CHOOSE t \in Derived(b, z, known[z]) : TRUE) = SecretAfter(q, z)
  <2> SUFFICES ASSUME NEW z \in new
               PROVE  (CHOOSE t \in Derived(b, z, known[z]) : TRUE) = SecretAfter(q, z)
    OBVIOUS
  <2>1. Derived(b, z, known[z]) = {SecretAfter(q, z)}
    <3>1. known[z] = seed(z) /\ D(z) # {}
      BY <1>2, <1>6
    <3> QED  BY <1>1, <1>5, <3>1
  <2> QED  BY <2>1
<1>8. \A z : z \in DOMAIN old \cup new <=> z \in TimeZones /\ SecretAfter(q, z) # None
  <2>1. None \notin Decodable
    BY CredentialsAssumption
  <2>2. \A z : D(z) # {} => SecretAfter(q, z) # None /\ z \in TimeZones
    BY <1>1, <1>4, <2>1
  <2>3. \A z : D(z) = {} => SecretAfter(q, z) = SecretAfter(r, z)
    BY <1>1
  <2>4. \A z : z \in DOMAIN old <=> z \in TimeZones /\ SecretAfter(r, z) # None
    BY <1>3
  <2> QED  BY <1>6, <2>2, <2>3, <2>4
<1>9. \A z \in DOMAIN old \cup new :
        (IF z \in new THEN CHOOSE t \in Derived(b, z, known[z]) : TRUE ELSE old[z])
          = SecretAfter(q, z)
  BY <1>1, <1>3, <1>6, <1>7
<1>10. scan_and_derive_secrets(b, known, old) =
         [z \in DOMAIN old \cup new |->
            IF z \in new THEN CHOOSE t \in Derived(b, z, known[z]) : TRUE ELSE old[z]]
  BY DEF scan_and_derive_secrets
<1> HIDE DEF new
<1>11. DOMAIN old \cup new = {z \in TimeZones : SecretAfter(q, z) # None}
  BY <1>8
<1>12. scan_and_derive_secrets(b, known, old) = SecretsAt(q)
  BY <1>9, <1>10, <1>11 DEF SecretsAt
<1> QED  BY <1>12 DEF known, old, q

LEMMA SecretsAreThere ==
  ASSUME NEW r
  PROVE  /\ SecretsAfter(r) = {SecretsAt(r)[tz] : tz \in DOMAIN SecretsAt(r)}
         /\ SecretsAfter(r) = {} <=> DOMAIN SecretsAt(r) = {}
<1>1. DOMAIN SecretsAt(r) = {z \in TimeZones : SecretAfter(r, z) # None}
      /\ \A z \in DOMAIN SecretsAt(r) : SecretsAt(r)[z] = SecretAfter(r, z)
  BY DEF SecretsAt
<1>2. SecretsAfter(r) = {SecretAfter(r, tz) : tz \in DOMAIN SecretsAt(r)}
  BY <1>1 DEF SecretsAfter
<1> QED  BY <1>1, <1>2

-----------------------------------------------------------------------------
(* The result.                                                             *)

\* While the search lasts, what it has found is what the bundles hold that came.
Held ==
  /\ read \in Seq(Bundles)
  /\ pc \in {"page", "bundles", "scanned"} =>
       /\ app_id = IdAfter(read) /\ seeds = SeedsAt(read) /\ secrets = SecretsAt(read)
       /\ \A n \in DOMAIN read : ~Breaks(read, n)

\* A bundle that came breaks the search or not, whatever comes after it.
LEMMA BreaksStay ==
  ASSUME NEW r \in Seq(Bundles), NEW b \in Bundles, NEW n \in DOMAIN r
  PROVE  Breaks(Append(r, b), n) <=> Breaks(r, n)
<1> DEFINE q == Append(r, b)
<1>1. n \in 1 .. Len(r) /\ Len(r) \in Nat /\ \A m \in 1 .. Len(r) : q[m] = r[m]
  BY LenProperties, AppendProperties
<1> HIDE DEF q
<1>2. q[n] = r[n]
  BY <1>1
<1>3. \A tz : SeedAfter(q, tz, n) = SeedAfter(r, tz, n) /\ Decoding(q, tz, n) = Decoding(r, tz, n)
  BY <1>1, SameDecoding
<1>4. Breaks(q, n) <=> Breaks(r, n)
  BY <1>2, <1>3 DEF Breaks
<1> QED  BY <1>4 DEF q

\* The search panics in the bundle that breaks it.
LEMMA PanicsBreaks ==
  ASSUME NEW r \in Seq(Bundles), NEW b \in Bundles, seeds = SeedsAt(r)
  PROVE  Panics(b) <=> Breaks(Append(r, b), Len(r) + 1)
<1> DEFINE q == Append(r, b)
           n == Len(r) + 1
           all == SeedsAt(q)
           seed(z) == SeedAfter(q, z, n)
<1>1. Len(q) = n /\ q[n] = b
  BY AppendProperties, LenProperties
<1>2. scan_seeds(b, seeds) = all
  BY SeedsGrow
<1>3. DOMAIN all = {z \in TimeZones : seed(z) # None} /\ \A z \in DOMAIN all : all[z] = seed(z)
  BY <1>1 DEF SeedsAt
<1> HIDE DEF q, n, all
<1>4. DOMAIN b = 1 .. Len(b) /\ Len(b) \in Nat
  BY BundleType
<1>5. \A z : Decoding(q, z, n) = DecodingOf(b, z, seed(z)) /\ DecodingOf(b, z, seed(z)) \subseteq DOMAIN b
  BY <1>1 DEF Decoding, DecodingOf, Anchors, IsA
<1>6. ASSUME NEW z, NEW i
      PROVE  i \in Visited(b, z, seed(z)) <=>
               /\ i \in DOMAIN b /\ IsA("anchor", b, i) /\ b[i].value = z
               /\ \A j \in Decoding(q, z, n) : i <= j
  <2>1. i \in Visited(b, z, seed(z)) <=>
          i \in Anchors(b, z) /\ \A j \in DecodingOf(b, z, seed(z)) : ~(j < i)
    BY DEF Visited, DecodingOf
  <2>2. ASSUME i \in DOMAIN b
        PROVE  (\A j \in DecodingOf(b, z, seed(z)) : ~(j < i))
                 <=> \A j \in Decoding(q, z, n) : i <= j
    <3>1. i \in Nat /\ \A j \in DOMAIN b : j \in Nat
      BY <1>4, <2>2
    <3>2. \A j \in DecodingOf(b, z, seed(z)) : ~(j < i) <=> i <= j
      BY <1>5, <3>1
    <3> QED  BY <1>5, <3>2
  <2> QED  BY <2>1, <2>2 DEF Anchors, IsA
<1>7. Panics(b) <=> \E tz \in DOMAIN all : \E i \in Visited(b, tz, all[tz]) :
                      Cuts(b, i) \/ Triple(b, i, all[tz]) \in Split
  BY <1>2 DEF Panics
<1>8. Breaks(q, n) <=>
        \E tz \in TimeZones : \E i \in DOMAIN b :
          /\ seed(tz) # None /\ IsA("anchor", b, i) /\ b[i].value = tz
          /\ \A j \in Decoding(q, tz, n) : i <= j
          /\ Cuts(b, i) \/ Triple(b, i, seed(tz)) \in Split
  BY <1>1 DEF Breaks
<1> HIDE DEF seed
<1>9. Panics(b) <=> Breaks(q, n)
  BY <1>3, <1>6, <1>7, <1>8
<1> QED  BY <1>9 DEF q, n

\* So none of the bundles does that came without a panic.
LEMMA NoneBreaks ==
  ASSUME Held, pc = "bundles", NEW b \in Bundles, read' = Append(read, b), ~Panics(b)
  PROVE  \A n \in DOMAIN read' : ~Breaks(read', n)
<1>1. read \in Seq(Bundles) /\ seeds = SeedsAt(read) /\ \A n \in DOMAIN read : ~Breaks(read, n)
  BY DEF Held
<1>2. ~Breaks(read', Len(read) + 1)
  BY <1>1, PanicsBreaks
<1>3. \A n \in DOMAIN read' : n \in DOMAIN read \/ n = Len(read) + 1
  <2>1. /\ Len(read) \in Nat /\ DOMAIN read = 1 .. Len(read)
        /\ read' \in Seq(Bundles) /\ Len(read') = Len(read) + 1
    BY <1>1, AppendProperties, LenProperties
  <2>2. DOMAIN read' = 1 .. Len(read) + 1
    BY <2>1, LenProperties
  <2> QED  BY <2>1, <2>2
<1>4. \A n \in DOMAIN read : Breaks(read', n) <=> Breaks(read, n)
  BY <1>1, BreaksStay
<1> QED  BY <1>1, <1>2, <1>3, <1>4

LEMMA ScanKeepsHeld ==
  ASSUME Held, pc = "bundles", NEW b \in Bundles, read' = Append(read, b), ~Panics(b), Scan(b)
  PROVE  /\ Held' /\ app_id' = IdAfter(read') /\ secrets' = SecretsAt(read')
         /\ pc' = IF app_id' # None /\ DOMAIN secrets' # {} THEN "scanned" ELSE "bundles"
<1>1. read \in Seq(Bundles) /\ read' \in Seq(Bundles)
  BY AppendProperties DEF Held
<1>2. app_id = IdAfter(read) /\ seeds = SeedsAt(read) /\ secrets = SecretsAt(read)
  BY DEF Held
<1>3. app_id' = IdAfter(read')
  <2>1. IdAfter(read') = IF IdAfter(read) # None THEN IdAfter(read) ELSE scan_app_id(b)
    BY <1>1, OneMoreBundle
  <2> QED  BY <1>2, <2>1 DEF Scan
<1>4. seeds' = SeedsAt(read')
  BY <1>1, <1>2, SeedsGrow DEF Scan
<1>5. secrets' = SecretsAt(read')
  BY <1>1, <1>2, <1>4, SecretsGrow DEF Scan
<1>6. \A n \in DOMAIN read' : ~Breaks(read', n)
  BY NoneBreaks
<1> QED  BY <1>1, <1>3, <1>4, <1>5, <1>6 DEF Held, Scan, Complete

LEMMA HeldInductive ==
  /\ Init => Held
  /\ Held /\ [Next]_vars => Held'
<1>1. Init => Held
  <2> SUFFICES ASSUME Init PROVE Held
    OBVIOUS
  <2>1. SeedsAt(<<>>) = Nothing /\ SecretsAt(<<>>) = Nothing
    <3>1. {z \in TimeZones : SeedAfter(<<>>, z, Len(<<>>)) # None} = {}
          /\ {z \in TimeZones : SecretAfter(<<>>, z) # None} = {}
      BY NothingRead
    <3> QED  BY <3>1 DEF SeedsAt, SecretsAt, Nothing
  <2>2. DOMAIN <<>> = {}
    OBVIOUS
  <2> QED  BY <2>1, <2>2, NothingRead DEF Init, Held
<1>2. ASSUME Held, [Next]_vars PROVE Held'
  <2>1. CASE \E b \in Bundles : BundleComes(b)
    BY <1>2, <2>1, ScanKeepsHeld DEF BundleComes, Requests
  <2>2. CASE \E b \in Bundles : BundlePanics(b)
    BY <1>2, <2>2, AppendProperties DEF BundlePanics, Requests, Held
  <2>3. CASE GetPage
    BY <1>2, <2>3 DEF GetPage, Held
  <2>4. CASE PageFails
    BY <1>2, <2>4 DEF PageFails, Held
  <2>5. CASE SkipForeign
    BY <1>2, <2>5 DEF SkipForeign, Held
  <2>6. CASE BundleFails
    BY <1>2, <2>6 DEF BundleFails, Requests, Held
  <2>7. CASE Finish
    BY <1>2, <2>7 DEF Finish, Held
  <2>8. CASE UNCHANGED vars
    BY <1>2, <2>8 DEF vars, Held
  <2> QED  BY <1>2, <2>1, <2>2, <2>3, <2>4, <2>5, <2>6, <2>7, <2>8 DEF Next
<1> QED  BY <1>1, <1>2

LEMMA FinishIsRight ==
  ASSUME Held, Finish
  PROVE  ResultIsWhatTheyHold'
<1>1. /\ app_id = IdAfter(read) /\ secrets = SecretsAt(read) /\ read' = read
      /\ \A n \in DOMAIN read : ~Breaks(read, n)
  BY DEF Finish, Held
<1>2. /\ SecretsAfter(read) = {secrets[tz] : tz \in DOMAIN secrets}
      /\ SecretsAfter(read) = {} <=> DOMAIN secrets = {}
  BY <1>1, SecretsAreThere
<1>3. {Ok(app_id, secrets[tz]) : tz \in DOMAIN secrets}
        = {Ok(IdAfter(read), s) : s \in SecretsAfter(read)}
  BY <1>1, <1>2
<1>4. result' \in IF SecretsAfter(read) = {} THEN {Err("no app secret found")}
                  ELSE IF IdAfter(read) = None THEN {Err("no app id found")}
                  ELSE {Ok(IdAfter(read), s) : s \in SecretsAfter(read)}
  BY <1>1, <1>2, <1>3 DEF Finish
<1> QED  BY <1>1, <1>4 DEF ResultIsWhatTheyHold

\* ResultIsWhatTheyHold: whatever the page, the bundles and the requests that fail,
\* fetch_app_credentials ends with the id and a secret that the bundles hold which
\* came, or says truly which of the two they lack, or panics where, and only where,
\* a bundle makes a slice end inside a character.
THEOREM ResultIsRight == Spec => []ResultIsWhatTheyHold
<1>1. Init => ResultIsWhatTheyHold
  BY DEF Init, ResultIsWhatTheyHold
<1>2. Held /\ ResultIsWhatTheyHold /\ [Next]_vars => ResultIsWhatTheyHold'
  <2> SUFFICES ASSUME Held, ResultIsWhatTheyHold, [Next]_vars PROVE ResultIsWhatTheyHold'
    OBVIOUS
  <2>1. CASE \E b \in Bundles : BundleComes(b)
    BY <2>1, ScanKeepsHeld DEF BundleComes, Requests, ResultIsWhatTheyHold
  <2>2. ASSUME NEW b \in Bundles, BundlePanics(b) PROVE ResultIsWhatTheyHold'
    <3>1. /\ read' = Append(read, b) /\ Panics(b) /\ result' = Err("panic")
          /\ read \in Seq(Bundles) /\ seeds = SeedsAt(read)
      BY <2>2 DEF BundlePanics, Requests, Held
    <3>2. Breaks(read', Len(read) + 1) /\ Len(read) + 1 \in DOMAIN read'
      <4>1. /\ Len(read) \in Nat /\ read' \in Seq(Bundles) /\ Len(read') = Len(read) + 1
        BY <3>1, AppendProperties, LenProperties
      <4>2. DOMAIN read' = 1 .. Len(read')
        BY <4>1, LenProperties
      <4> QED  BY <3>1, <4>1, <4>2, PanicsBreaks
    <3> QED  BY <3>1, <3>2 DEF ResultIsWhatTheyHold
  <2>3. CASE GetPage
    BY <2>3 DEF GetPage, ResultIsWhatTheyHold
  <2>4. CASE PageFails
    BY <2>4 DEF PageFails, ResultIsWhatTheyHold
  <2>5. CASE SkipForeign
    BY <2>5 DEF SkipForeign, ResultIsWhatTheyHold
  <2>6. CASE BundleFails
    BY <2>6 DEF BundleFails, Requests, ResultIsWhatTheyHold
  <2>7. CASE Finish
    BY <2>7, FinishIsRight
  <2>8. CASE UNCHANGED vars
    BY <2>8 DEF vars, ResultIsWhatTheyHold
  <2> QED  BY <2>1, <2>2, <2>3, <2>4, <2>5, <2>6, <2>7, <2>8 DEF Next
<1> QED  BY <1>1, <1>2, HeldInductive, PTL DEF Spec

-----------------------------------------------------------------------------
(* The URLs of a page, in order.                                           *)

URLs == [scheme : {"http", "https"}, host : Nat, path : Nat]
Sorted(s) == \A i, j \in DOMAIN s : i < j => Before(s[i], s[j])

LEMMA URLOrder ==
  /\ \A u \in URLs : ~Before(u, u)
  /\ \A u, v \in URLs : u = v \/ Before(u, v) \/ Before(v, u)
  /\ \A u, v, w \in URLs : Before(u, v) /\ Before(v, w) => Before(u, w)
<1>1. \A u \in URLs : u.scheme \in {"http", "https"} /\ u.host \in Nat /\ u.path \in Nat
  BY DEF URLs
<1>2. \A u, v \in URLs : u.scheme = v.scheme /\ u.host = v.host /\ u.path = v.path => u = v
  BY DEF URLs
<1> QED  BY <1>1, <1>2 DEF Before

\* A finite set of URLs that is not empty has a last one.
LEMMA LastURL ==
  ASSUME NEW S \in SUBSET URLs, IsFiniteSet(S), S # {}
  PROVE  \E u \in S : \A v \in S : v = u \/ Before(v, u)
<1> DEFINE Last(T) == \E u \in T : \A v \in T : v = u \/ Before(v, u)
           Good == {n \in Nat : \A T \in SUBSET URLs :
                      IsFiniteSet(T) /\ Cardinality(T) = n /\ T # {} => Last(T)}
<1>1. 0 \in Good
  BY FS_EmptySet
<1>2. ASSUME NEW n \in Good PROVE n + 1 \in Good
  <2> SUFFICES ASSUME NEW T \in SUBSET URLs, IsFiniteSet(T), Cardinality(T) = n + 1, T # {}
               PROVE  Last(T)
    OBVIOUS
  <2>1. PICK t \in T : TRUE
    OBVIOUS
  <2> DEFINE R == T \ {t}
  <2>2. R \in SUBSET URLs /\ IsFiniteSet(R) /\ Cardinality(R) = n
    <3>1. IsFiniteSet(R) /\ Cardinality(R) = (n + 1) - 1
      BY <2>1, FS_RemoveElement
    <3> QED  BY <3>1
  <2>3. T = R \cup {t}
    BY <2>1
  <2>4. CASE R = {}
    BY <2>1, <2>3, <2>4
  <2>5. CASE R # {}
    <3>1. Last(R)
      BY <2>2, <2>5
    <3>2. PICK u \in R : \A v \in R : v = u \/ Before(v, u)
      BY <3>1
    <3>3. u \in URLs /\ t \in URLs /\ u \in T
      BY <2>1, <3>2
    <3>4. CASE u = t \/ Before(t, u)
      <4>1. \A v \in T : v = u \/ Before(v, u)
        BY <2>3, <3>2, <3>4
      <4> QED  BY <3>3, <4>1
    <3>5. CASE Before(u, t)
      <4>1. \A v \in R : Before(v, t)
        BY <2>2, <3>2, <3>3, <3>5, URLOrder
      <4>2. \A v \in T : v = t \/ Before(v, t)
        BY <2>3, <4>1
      <4> QED  BY <2>1, <4>2
    <3> QED  BY <3>3, <3>4, <3>5, URLOrder
  <2> QED  BY <2>4, <2>5
<1> HIDE DEF Good, Last
<1>3. Good = Nat
  <2>1. Good \in SUBSET Nat
    BY DEF Good
  <2> QED  BY <1>1, <1>2, <2>1, InductNat
<1>4. Cardinality(S) \in Nat
  BY FS_CardinalityType
<1>5. Last(S)
  BY <1>3, <1>4 DEF Good
<1> QED  BY <1>5 DEF Last

LEMMA SortedExists ==
  ASSUME NEW S \in SUBSET URLs, IsFiniteSet(S)
  PROVE  \E s \in [1 .. Cardinality(S) -> S] : Sorted(s)
<1> DEFINE Lists(T) == \E s \in [1 .. Cardinality(T) -> T] : Sorted(s)
           Good == {n \in Nat : \A T \in SUBSET URLs :
                      IsFiniteSet(T) /\ Cardinality(T) = n => Lists(T)}
<1>1. 0 \in Good
  <2> SUFFICES ASSUME NEW T, Cardinality(T) = 0 PROVE Lists(T)
    OBVIOUS
  <2>1. 1 .. Cardinality(T) = {}
    OBVIOUS
  <2>2. [i \in {} |-> i] \in [{} -> T] /\ Sorted([i \in {} |-> i])
    BY DEF Sorted
  <2> QED  BY <2>1, <2>2
<1>2. ASSUME NEW n \in Good PROVE n + 1 \in Good
  <2> SUFFICES ASSUME NEW T \in SUBSET URLs, IsFiniteSet(T), Cardinality(T) = n + 1
               PROVE  Lists(T)
    OBVIOUS
  <2>0. T # {} /\ n \in Nat
    BY FS_EmptySet
  <2>1. PICK t \in T : \A v \in T : v = t \/ Before(v, t)
    BY <2>0, LastURL
  <2> DEFINE R == T \ {t}
  <2>2. R \in SUBSET URLs /\ IsFiniteSet(R) /\ Cardinality(R) = n
    <3>1. IsFiniteSet(R) /\ Cardinality(R) = (n + 1) - 1
      BY <2>1, FS_RemoveElement
    <3> QED  BY <3>1
  <2>3. Lists(R)
    BY <2>2
  <2>4. PICK s \in [1 .. n -> R] : Sorted(s)
    BY <2>2, <2>3
  <2> DEFINE l == [i \in 1 .. n + 1 |-> IF i = n + 1 THEN t ELSE s[i]]
  <2>5. \A i \in 1 .. n + 1 : i = n + 1 \/ (i \in 1 .. n /\ i # n + 1)
    <3>1. n \in Nat
      BY <2>0
    <3> QED  BY ONLY <3>1
  <2>6. l \in [1 .. n + 1 -> T]
    BY <2>1, <2>5
  <2>7. Sorted(l)
    <3> SUFFICES ASSUME NEW i \in 1 .. n + 1, NEW j \in 1 .. n + 1, i < j
                 PROVE  Before(l[i], l[j])
      BY DEF Sorted
    <3>1. i \in 1 .. n /\ l[i] = s[i] /\ s[i] \in R
      BY <2>0, <2>5
    <3>2. CASE j = n + 1
      BY <2>1, <3>1, <3>2
    <3>3. CASE j # n + 1
      <4>1. j \in 1 .. n /\ l[j] = s[j]
        BY <2>5, <3>3
      <4> QED  BY <2>4, <3>1, <4>1 DEF Sorted
    <3> QED  BY <3>2, <3>3
  <2> HIDE DEF l
  <2> QED  BY <2>6, <2>7
<1> HIDE DEF Good, Lists
<1>3. Good = Nat
  <2>1. Good \in SUBSET Nat
    BY DEF Good
  <2> QED  BY <1>1, <1>2, <2>1, InductNat
<1>4. Cardinality(S) \in Nat
  BY FS_CardinalityType
<1>5. Lists(S)
  BY <1>3, <1>4 DEF Good
<1> QED  BY <1>5 DEF Lists

Found(html) == {absolutize(html[i].url) : i \in {j \in DOMAIN html : IsScript(html[j])}}

LEMMA FoundIs ==
  ASSUME NEW html \in Pages
  PROVE  Found(html) \in SUBSET URLs /\ IsFiniteSet(Found(html))
<1> DEFINE J == {j \in DOMAIN html : IsScript(html[j])}
           f == [j \in J |-> absolutize(html[j].url)]
<1>1. Len(html) \in Nat /\ DOMAIN html = 1 .. Len(html)
  <2>1. IsSequence(html)
    BY CredentialsAssumption
  <2> QED  BY <2>1, LenProperties DEF IsSequence
<1>2. IsFiniteSet(J)
  <2>1. IsFiniteSet(1 .. Len(html))
    BY <1>1, FS_Interval
  <2>2. J \in SUBSET (1 .. Len(html))
    BY <1>1
  <2> QED  BY <2>1, <2>2, FS_Subset
<1>3. f \in Surjection(J, Found(html))
  BY DEF Surjection, Found
<1>4. IsFiniteSet(Found(html))
  <2> HIDE DEF f, J
  <2> QED  BY <1>2, <1>3, FS_Surjection
<1>5. \A j \in J : absolutize(html[j].url) \in URLs
  <2> SUFFICES ASSUME NEW j \in J PROVE absolutize(html[j].url) \in URLs
    OBVIOUS
  <2>1. /\ html[j].url.scheme \in {"http", "https"}
        /\ html[j].url.host \in Nat /\ html[j].url.path \in Nat /\ PlayQobuz \in Nat
    BY CredentialsAssumption DEF IsScript
  <2> QED  BY <2>1 DEF absolutize, URLs
<1> QED  BY <1>4, <1>5 DEF Found

LEMMA ScriptURLs ==
  ASSUME NEW html \in Pages
  PROVE  LET s == extract_script_urls(html) IN
         /\ s \in Seq(URLs) /\ Sorted(s)
         /\ \A u : u \in Found(html) <=> \E i \in DOMAIN s : u = s[i]
<1> DEFINE S == Found(html)
           n == Cardinality(S)
           s == extract_script_urls(html)
<1>1. S \in SUBSET URLs /\ IsFiniteSet(S)
  BY FoundIs
<1>2. n \in Nat
  BY <1>1, FS_CardinalityType
<1>3. \E l \in [1 .. n -> S] : Sorted(l)
  BY <1>1, SortedExists
<1>4. s = CHOOSE l \in [1 .. n -> S] : Sorted(l)
  BY DEF extract_script_urls, Found, Sorted
<1> HIDE DEF S, s
<1>5. s \in [1 .. n -> S] /\ Sorted(s)
  BY <1>3, <1>4
<1>6. s \in Seq(URLs)
  <2>1. s \in [1 .. n -> URLs]
    BY <1>1, <1>5
  <2> HIDE DEF n
  <2> QED  BY <1>2, <2>1, IsASeq
<1>7. s \in Injection(1 .. n, S)
  <2>1. \A i, j \in 1 .. n : i # j => s[i] # s[j]
    <3> SUFFICES ASSUME NEW i \in 1 .. n, NEW j \in 1 .. n, i < j PROVE s[i] # s[j]
      BY <1>2
    <3>1. Before(s[i], s[j]) /\ s[i] \in URLs
      BY <1>1, <1>5 DEF Sorted
    <3> QED  BY <3>1, URLOrder
  <2>2. \A i, j \in 1 .. n : s[i] = s[j] => i = j
    BY <2>1
  <2> HIDE DEF n
  <2>3. s \in [1 .. n -> S] /\ DOMAIN s = 1 .. n
    BY <1>5
  <2> QED  BY <2>2, <2>3 DEF Injection, IsInjective
<1>8. s \in Surjection(1 .. n, S)
  <2>1. Cardinality(1 .. n) = n
    <3>1. Cardinality(1 .. n) = IF 1 > n THEN 0 ELSE (n - 1) + 1
      BY <1>2, FS_Interval
    <3> QED  BY <1>2, <3>1
  <2> QED  BY <1>1, <1>7, <2>1, FS_Injection
<1>9. \A u : u \in S <=> \E i \in DOMAIN s : u = s[i]
  BY <1>5, <1>8 DEF Surjection
<1> QED  BY <1>5, <1>6, <1>9 DEF S, s

-----------------------------------------------------------------------------
(* The bundles asked for.                                                  *)

\* What was asked for comes before what is left; together they are what is wanted,
\* up to foreign scripts that are left.
Left == {urls[i] : i \in DOMAIN urls}
Asking ==
  /\ page \in Pages /\ urls \in Seq(URLs) /\ asked \in Seq(URLs)
  /\ pc = "page" => asked = <<>> /\ read = <<>>
  /\ pc \in {"bundles", "scanned"} =>
       /\ Sorted(urls) /\ \A u \in Asked, v \in Left : Before(u, v)
       /\ Wanted \subseteq Asked \cup Left /\ Asked \subseteq Wanted
       /\ \A v \in Left : IsPlayer(v) => v \in Wanted
  /\ pc = "bundles" => app_id = None \/ DOMAIN secrets = {}
  /\ pc = "scanned" => app_id # None /\ DOMAIN secrets # {}

LEMMA SortedTail ==
  ASSUME NEW s \in Seq(URLs), Sorted(s), s # <<>>
  PROVE  /\ Head(s) \in URLs /\ Tail(s) \in Seq(URLs) /\ Sorted(Tail(s))
         /\ \A i \in DOMAIN Tail(s) : i + 1 \in DOMAIN s /\ Tail(s)[i] = s[i + 1]
         /\ \A i \in DOMAIN s : s[i] = Head(s) \/ \E j \in DOMAIN Tail(s) : s[i] = Tail(s)[j]
         /\ \A i \in DOMAIN s : s[i] = Head(s) \/ Before(Head(s), s[i])
         /\ \A j \in DOMAIN Tail(s) : Before(Head(s), Tail(s)[j])
         /\ 1 \in DOMAIN s /\ Head(s) = s[1]
<1> DEFINE t == Tail(s)
           n == Len(s)
<1>1. /\ n \in Nat /\ n >= 1 /\ DOMAIN s = 1 .. n /\ Head(s) = s[1] /\ Head(s) \in URLs
      /\ t \in Seq(URLs) /\ Len(t) = n - 1 /\ DOMAIN t = 1 .. n - 1
  BY HeadTailProperties, LenProperties, EmptySeq
<1>2. \A i \in 1 .. n - 1 : t[i] = s[i + 1]
  BY <1>1, HeadTailProperties
<1> HIDE DEF t, n
<1>3. \A i \in 1 .. n - 1 : i + 1 \in 1 .. n /\ i + 1 > 1
  BY <1>1
<1>4. \A i \in 1 .. n : i = 1 \/ (i - 1 \in 1 .. n - 1 /\ (i - 1) + 1 = i /\ 1 < i)
  BY <1>1
<1>5. Sorted(t)
  <2>1. \A i, j \in 1 .. n - 1 : i < j => i + 1 < j + 1
    BY <1>1
  <2> QED  BY <1>1, <1>2, <1>3, <2>1 DEF Sorted
<1>6. \A i \in 1 .. n : s[i] = s[1] \/ \E j \in 1 .. n - 1 : s[i] = t[j]
  BY <1>2, <1>4
<1>7. 1 \in 1 .. n
  BY <1>1
<1>8. \A i \in 1 .. n : s[i] = s[1] \/ Before(s[1], s[i])
  BY <1>1, <1>4, <1>7 DEF Sorted
<1>9. \A j \in 1 .. n - 1 : Before(s[1], t[j])
  BY <1>1, <1>2, <1>3, <1>7 DEF Sorted
<1> QED  BY <1>1, <1>2, <1>3, <1>5, <1>6, <1>7, <1>8, <1>9 DEF t

\* A script leaves the list, asked for or foreign.
LEMMA NextURL ==
  ASSUME Asking, pc = "bundles", urls # <<>>, urls' = Tail(urls), page' = page
  PROVE  /\ urls' \in Seq(URLs) /\ Sorted(urls') /\ Head(urls) \in URLs
         /\ Left = Left' \cup {Head(urls)} /\ Wanted' = Wanted
         /\ \A v \in Left' : Before(Head(urls), v)
         /\ Head(urls) \notin Asked
<1>1. urls \in Seq(URLs) /\ Sorted(urls)
  BY DEF Asking
<1> DEFINE u == Head(urls)
           s == urls
           t == Tail(urls)
<1>2. /\ u \in URLs /\ t \in Seq(URLs) /\ Sorted(t)
      /\ \A i \in DOMAIN t : i + 1 \in DOMAIN s /\ t[i] = s[i + 1]
      /\ \A i \in DOMAIN s : s[i] = u \/ \E j \in DOMAIN t : s[i] = t[j]
      /\ \A j \in DOMAIN t : Before(u, t[j])
      /\ 1 \in DOMAIN s /\ u = s[1]
  BY <1>1, SortedTail
<1>3. Left = {s[i] : i \in DOMAIN s} /\ Left' = {t[i] : i \in DOMAIN t}
  BY DEF Left
<1> HIDE DEF u, t
<1>4. Left = Left' \cup {u}
  <2>1. \A v \in Left : v \in Left' \cup {u}
    BY <1>2, <1>3
  <2>2. \A v \in Left' \cup {u} : v \in Left
    BY <1>2, <1>3
  <2> QED  BY <2>1, <2>2
<1>5. u \notin Asked
  <2>1. \A v \in Asked : Before(v, u)
    BY <1>4 DEF Asking
  <2> QED  BY <1>2, <2>1, URLOrder
<1>6. Wanted' = Wanted
  BY DEF Wanted
<1> QED  BY <1>2, <1>3, <1>4, <1>5, <1>6 DEF u, t

LEMMA AskedGrows ==
  ASSUME asked \in Seq(URLs), NEW u \in URLs, asked' = Append(asked, u)
  PROVE  asked' \in Seq(URLs) /\ asked'[Len(asked')] = u /\ Asked' = Asked \cup {u}
<1> DEFINE n == Len(asked)
<1>1. /\ n \in Nat /\ asked' \in Seq(URLs) /\ Len(asked') = n + 1 /\ asked'[n + 1] = u
      /\ \A i \in 1 .. n : asked'[i] = asked[i]
  BY AppendProperties, LenProperties
<1>2. DOMAIN asked = 1 .. n /\ DOMAIN asked' = 1 .. n + 1
  BY <1>1, LenProperties
<1> HIDE DEF n
<1>3. 1 .. n + 1 = (1 .. n) \cup {n + 1}
  BY <1>1
<1>4. Asked' = {asked'[i] : i \in 1 .. n + 1}
  BY <1>2 DEF Asked
<1>5. \A v : v \in Asked' <=> v \in Asked \/ v = u
  BY <1>1, <1>2, <1>3, <1>4 DEF Asked
<1> QED  BY <1>1, <1>5

LEMMA RequestsKeep ==
  ASSUME Asking, Requests
  PROVE  /\ page' \in Pages /\ urls' \in Seq(URLs) /\ asked' \in Seq(URLs)
         /\ Sorted(urls') /\ \A u \in Asked', v \in Left' : Before(u, v)
         /\ Wanted' \subseteq Asked' \cup Left' /\ Asked' \subseteq Wanted'
         /\ \A v \in Left' : IsPlayer(v) => v \in Wanted'
<1> DEFINE u == Head(urls)
<1>1. /\ pc = "bundles" /\ urls # <<>> /\ urls' = Tail(urls) /\ page' = page
      /\ IsPlayer(u) /\ asked' = Append(asked, u)
  BY DEF Requests
<1>2. /\ urls' \in Seq(URLs) /\ Sorted(urls') /\ u \in URLs
      /\ Left = Left' \cup {u} /\ Wanted' = Wanted
      /\ \A v \in Left' : Before(u, v)
  BY <1>1, NextURL
<1> HIDE DEF u
<1>3. asked' \in Seq(URLs) /\ Asked' = Asked \cup {u}
  BY <1>1, <1>2, AskedGrows DEF Asking
<1> QED  BY <1>1, <1>2, <1>3 DEF Asking

LEMMA AskingInductive ==
  /\ Init => Asking
  /\ Held /\ Asking /\ [Next]_vars => Asking'
<1>1. Init => Asking
  BY EmptySeq DEF Init, Asking
<1>2. ASSUME Held, Asking, [Next]_vars PROVE Asking'
  <2>1. ASSUME NEW b \in Bundles, BundleComes(b) PROVE Asking'
    <3>1. pc = "bundles" /\ read' = Append(read, b) /\ ~Panics(b) /\ Scan(b) /\ Requests
      BY <2>1 DEF BundleComes, Requests
    <3>2. pc' = IF app_id' # None /\ DOMAIN secrets' # {} THEN "scanned" ELSE "bundles"
      BY <1>2, <3>1, ScanKeepsHeld
    <3> QED  BY <1>2, <3>1, <3>2, RequestsKeep DEF Asking
  <2>2. ASSUME NEW b \in Bundles, BundlePanics(b) PROVE Asking'
    BY <1>2, <2>2, RequestsKeep DEF BundlePanics, Asking
  <2>3. CASE GetPage
    <3>1. /\ pc = "page" /\ pc' = "bundles" /\ urls' = extract_script_urls(page)
          /\ page' = page /\ asked' = asked /\ app_id' = app_id /\ secrets' = secrets
          /\ read = <<>> /\ page \in Pages /\ asked = <<>>
      BY <1>2, <2>3 DEF GetPage, Asking
    <3>2. /\ urls' \in Seq(URLs) /\ Sorted(urls')
          /\ \A u : u \in Found(page) <=> \E i \in DOMAIN urls' : u = urls'[i]
      BY <3>1, ScriptURLs
    <3>3. Left' = Found(page)
      <4>1. \A u : u \in Left' <=> \E i \in DOMAIN urls' : u = urls'[i]
        BY DEF Left
      <4> QED  BY <3>2, <4>1
    <3>4. Wanted' = {u \in Found(page) : IsPlayer(u)}
      BY <3>1 DEF Wanted, Found
    <3>5. Asked' = {} /\ asked' \in Seq(URLs)
      BY <3>1, EmptySeq DEF Asked
    <3>6. app_id' = None
      BY <1>2, <3>1, NothingRead DEF Held
    <3> QED  BY <3>1, <3>2, <3>3, <3>4, <3>5, <3>6 DEF Asking
  <2>4. CASE PageFails
    BY <1>2, <2>4 DEF PageFails, Asking
  <2>5. CASE SkipForeign
    <3>1. /\ pc = "bundles" /\ pc' = "bundles" /\ urls # <<>> /\ urls' = Tail(urls)
          /\ page' = page /\ ~IsPlayer(Head(urls)) /\ asked' = asked
          /\ app_id' = app_id /\ secrets' = secrets
      BY <2>5 DEF SkipForeign
    <3>2. /\ urls' \in Seq(URLs) /\ Sorted(urls') /\ Head(urls) \in URLs
          /\ Left = Left' \cup {Head(urls)} /\ Wanted' = Wanted
      BY <1>2, <3>1, NextURL
    <3>3. Asked' = Asked
      BY <3>1 DEF Asked
    <3>4. Head(urls) \notin Wanted
      BY <3>1 DEF Wanted
    <3> QED  BY <1>2, <3>1, <3>2, <3>3, <3>4 DEF Asking
  <2>6. CASE BundleFails
    <3>1. pc' = pc /\ app_id' = app_id /\ secrets' = secrets /\ Requests /\ pc = "bundles"
      BY <2>6 DEF BundleFails, Requests
    <3> QED  BY <1>2, <3>1, RequestsKeep DEF Asking
  <2>7. CASE Finish
    BY <1>2, <2>7 DEF Finish, Asking
  <2>8. CASE UNCHANGED vars
    BY <1>2, <2>8 DEF vars, Asking, Asked, Left, Wanted
  <2> QED  BY <1>2, <2>1, <2>2, <2>3, <2>4, <2>5, <2>6, <2>7, <2>8 DEF Next
<1> QED  BY <1>1, <1>2

\* AsksForWhatIsMissing: for every page, each bundle of the player is asked for at
\* most once, in order, only while the bundles that came lack an id or a secret; and
\* the search is given up only when all were asked for, whichever failed.
THEOREM AsksInOrder == Spec => AsksForWhatIsMissing
<1> DEFINE Step ==
      /\ asked' # asked =>
           LET u == asked'[Len(asked')] IN
           /\ u \in Wanted \ Asked /\ \A v \in Wanted \ Asked : v = u \/ Before(u, v)
           /\ IdAfter(read) = None \/ SecretsAfter(read) = {}
      /\ result' # result /\ result' \in {Err("no app secret found"), Err("no app id found")}
           => Asked = Wanted
<1>1. Held /\ Asking /\ [Next]_vars => Step
  <2> SUFFICES ASSUME Held, Asking, [Next]_vars PROVE Step
    OBVIOUS
  <2>1. CASE Requests /\ (result' = result \/ result' = Err("panic"))
    <3> DEFINE u == Head(urls)
    <3>1. /\ pc = "bundles" /\ urls # <<>> /\ urls' = Tail(urls) /\ page' = page
          /\ IsPlayer(u) /\ asked' = Append(asked, u)
      BY <2>1 DEF Requests
    <3>2. /\ u \in URLs /\ Left = Left' \cup {u} /\ \A v \in Left' : Before(u, v)
          /\ u \notin Asked
      BY <3>1, NextURL
    <3> HIDE DEF u
    <3>3. asked'[Len(asked')] = u
      BY <3>1, <3>2, AskedGrows DEF Asking
    <3>4. u \in Wanted \ Asked /\ \A v \in Wanted \ Asked : v = u \/ Before(u, v)
      BY <3>1, <3>2 DEF Asking
    <3>5. IdAfter(read) = None \/ SecretsAfter(read) = {}
      BY <3>1, SecretsAreThere DEF Asking, Held
    <3>6. Err("panic") \notin {Err("no app secret found"), Err("no app id found")}
      BY DEF Err
    <3> QED  BY <2>1, <3>3, <3>4, <3>5, <3>6
  <2>2. CASE Finish
    <3>1. asked' = asked
      BY <2>2 DEF Finish
    <3>2. ASSUME result' \in {Err("no app secret found"), Err("no app id found")}
          PROVE  Asked = Wanted
      <4>1. DOMAIN secrets = {} \/ app_id = None
        <5> SUFFICES ASSUME DOMAIN secrets # {}, app_id # None PROVE FALSE
          OBVIOUS
        <5>1. PICK tz \in DOMAIN secrets : result' = Ok(app_id, secrets[tz])
          BY <2>2 DEF Finish
        <5>2. DOMAIN result' = {"app_id", "app_secret"}
          BY <5>1 DEF Ok
        <5>3. \A why : DOMAIN Err(why) = {"err"}
          BY DEF Err
        <5> QED  BY <3>2, <5>2, <5>3
      <4>2. pc = "bundles" /\ urls = <<>>
        BY <2>2, <4>1 DEF Finish, Asking
      <4>3. Left = {}
        BY <4>2 DEF Left
      <4> QED  BY <4>2, <4>3 DEF Asking
    <3> QED  BY <3>1, <3>2
  <2>3. CASE GetPage \/ SkipForeign \/ UNCHANGED vars
    BY <2>3 DEF GetPage, SkipForeign, vars
  <2>4. CASE PageFails
    <3>1. Err("request failed") \notin {Err("no app secret found"), Err("no app id found")}
      BY DEF Err
    <3> QED  BY <2>4, <3>1 DEF PageFails
  <2>5. CASE \E b \in Bundles : BundleComes(b)
    BY <2>1, <2>5 DEF BundleComes, Scan
  <2>6. CASE \E b \in Bundles : BundlePanics(b)
    BY <2>1, <2>6 DEF BundlePanics
  <2>7. CASE BundleFails
    BY <2>1, <2>7 DEF BundleFails
  <2> QED  BY <2>2, <2>3, <2>4, <2>5, <2>6, <2>7 DEF Next
<1>2. Spec => [][Step]_vars
  <2> HIDE DEF Step
  <2> QED  BY <1>1, HeldInductive, AskingInductive, PTL DEF Spec
<1> QED  BY <1>2 DEF AsksForWhatIsMissing
=============================================================================
