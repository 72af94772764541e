--------------------------- MODULE SequenceLemmas ---------------------------
(* Facts about numbers, finite sets and folds that the proofs of other      *)
(* modules cite.  Induction is over sets, as a set of counterexamples that  *)
(* is not empty has a smallest element; what FoldLeft computes follows.     *)
EXTENDS Integers, SequencesExt, FiniteSetsExt, FiniteSetTheorems, SequenceTheorems,
        WellFoundedInduction, TLAPS

\* Induction over natural numbers.
LEMMA NatSets ==
  ASSUME NEW S, 0 \in S, \A n \in Nat : n \in S => n + 1 \in S
  PROVE  Nat \subseteq S
<1> DEFINE C == Nat \ S
<1> SUFFICES ASSUME C # {} PROVE FALSE
  OBVIOUS
<1>1. PICK x \in C : \A y \in C : ~(<<y, x>> \in OpToRel(<, Nat))
  <2>1. C \subseteq Nat
    OBVIOUS
  <2> HIDE DEF C
  <2>2. QED
    BY <2>1, NatLessThanWellFounded, WFMin
<1>2. x # 0 /\ x - 1 \in Nat /\ x - 1 \notin S
  OBVIOUS
<1>3. <<x - 1, x>> \in OpToRel(<, Nat)
  BY <1>2 DEF OpToRel
<1>4. QED
  BY <1>1, <1>2, <1>3

\* Induction over an interval.
LEMMA UpTo ==
  ASSUME NEW n \in Nat, NEW S, 0 \in S, \A k \in 1..n : k - 1 \in S => k \in S
  PROVE  0..n \subseteq S
<1> DEFINE T == S \cup {k \in Nat : k > n}
<1>1. 0 \in T
  OBVIOUS
<1>2. ASSUME NEW k \in Nat, k \in T PROVE k + 1 \in T
  <2>1. CASE k + 1 > n
    BY <2>1
  <2>2. CASE k + 1 <= n
    <3>1. k + 1 \in 1..n /\ k = (k + 1) - 1 /\ k \in S
      BY <2>2, <1>2
    <3>2. QED
      BY <3>1
  <2>3. QED
    BY <2>1, <2>2
<1>3. Nat \subseteq T
  <2> HIDE DEF T
  <2>1. QED
    BY <1>1, <1>2, NatSets
<1>4. QED
  BY <1>3

\* Induction over the subsets of a finite set.
LEMMA SubsetInduction ==
  ASSUME NEW S, IsFiniteSet(S), NEW C,
         \A T \in SUBSET S : (\A U \in SUBSET T : U # T => U \in C) => T \in C
  PROVE  SUBSET S \subseteq C
<1> DEFINE B == (SUBSET S) \ C
<1> SUFFICES ASSUME B # {} PROVE FALSE
  OBVIOUS
<1>1. FiniteSubsetsOf(S) = SUBSET S
  BY FS_FiniteSubsetsOfFinite
<1>2. PICK x \in B : \A y \in B : ~(<<y, x>> \in StrictSubsetOrdering(S))
  <2>1. B \subseteq FiniteSubsetsOf(S)
    BY <1>1
  <2> HIDE DEF B
  <2>2. QED
    BY <2>1, FS_StrictSubsetOrderingWellFounded, WFMin
<1>3. \A U \in SUBSET x : U # x => <<U, x>> \in StrictSubsetOrdering(S)
  BY DEF StrictSubsetOrdering
<1>5. x \in SUBSET S /\ x \notin C
  OBVIOUS
<1>4. ASSUME NEW U \in SUBSET x, U # x PROVE U \in C
  <2>1. U \in SUBSET S /\ U \notin B
    BY <1>2, <1>3, <1>4, <1>5
  <2>2. QED
    BY <2>1
<1>6. QED
  BY <1>4, <1>5

-----------------------------------------------------------------------------
\* A finite set of integers has a greatest and a least element.
LEMMA MaxIsThere ==
  ASSUME NEW S \in SUBSET Int, IsFiniteSet(S), S # {}
  PROVE  Max(S) \in S /\ \A x \in S : Max(S) >= x
<1> DEFINE C == {T \in SUBSET S : T # {} => \E m \in T : \A x \in T : m >= x}
<1>1. ASSUME NEW T \in SUBSET S, \A U \in SUBSET T : U # T => U \in C
      PROVE  T \in C
  <2> SUFFICES ASSUME T # {} PROVE \E m \in T : \A x \in T : m >= x
    OBVIOUS
  <2>1. PICK t \in T : TRUE
    OBVIOUS
  <2>2. CASE T = {t}
    BY <2>2
  <2>3. CASE T # {t}
    <3>1. PICK m \in T \ {t} : \A x \in T \ {t} : m >= x
      <4>1. T \ {t} \in SUBSET T /\ T \ {t} # T /\ T \ {t} # {}
        BY <2>1, <2>3
      <4>2. QED
        BY <1>1, <4>1
    <3>2. CASE m >= t
      BY <3>1, <3>2
    <3>3. CASE m < t
      <4>1. \A x \in T : t >= x
        BY <3>1, <3>3
      <4>2. QED
        BY <4>1
    <3>4. QED
      BY <3>2, <3>3
  <2>4. QED
    BY <2>2, <2>3
<1>2. SUBSET S \subseteq C
  <2> HIDE DEF C
  <2>1. QED
    BY <1>1, SubsetInduction
<1>3. \E m \in S : \A x \in S : m >= x
  BY <1>2
<1>4. QED
  BY <1>3 DEF Max

\* The greatest of 1..k, and what is left without it.
LEMMA MaxOfUpTo ==
  ASSUME NEW k \in Nat \ {0}
  PROVE  Max(1..k) = k /\ (1..k) \ {k} = 1..(k - 1)
<1>1. IsFiniteSet(1..k)
  BY FS_Interval
<1>a. 1..k # {} /\ 1..k \in SUBSET Int
  <2>1. k \in 1..k
    OBVIOUS
  <2>2. QED
    BY <2>1
<1>2. Max(1..k) \in 1..k /\ \A x \in 1..k : Max(1..k) >= x
  BY <1>1, <1>a, MaxIsThere
<1>3. QED
  BY <1>2

-----------------------------------------------------------------------------
(* Sequences without their first element, and with one more.                *)

\* A sequence without its first element.
LEMMA Tails ==
  ASSUME NEW E, NEW q \in Seq(E), q # <<>>
  PROVE  /\ Len(q) \in Nat \ {0} /\ DOMAIN q = 1..Len(q)
         /\ Head(q) = q[1] /\ Head(q) \in E
         /\ Tail(q) \in Seq(E) /\ Len(Tail(q)) = Len(q) - 1 /\ DOMAIN Tail(q) = 1..(Len(q) - 1)
         /\ \A i \in 1..(Len(q) - 1) : Tail(q)[i] = q[i + 1] /\ i + 1 \in DOMAIN q
         /\ Tail(q) = <<>> <=> Len(q) = 1
<1>1. Len(q) \in Nat \ {0} /\ DOMAIN q = 1..Len(q) /\ Head(q) = q[1] /\ Head(q) \in E
  OBVIOUS
<1>2. Tail(q) \in Seq(E) /\ Len(Tail(q)) = Len(q) - 1
  OBVIOUS
<1>3. DOMAIN Tail(q) = 1..(Len(q) - 1) /\ \A i \in 1..(Len(q) - 1) : Tail(q)[i] = q[i + 1] /\ i + 1 \in DOMAIN q
  BY <1>1, <1>2
<1>4. Tail(q) = <<>> <=> Len(q) = 1
  <2>1. Tail(q) = <<>> <=> Len(Tail(q)) = 0
    BY <1>2, EmptySeq
  <2>2. QED
    BY <1>1, <1>2, <2>1
<1>5. QED
  BY <1>1, <1>2, <1>3, <1>4

\* A sequence with one element more.
LEMMA Appended ==
  ASSUME NEW E, NEW q \in Seq(E), NEW e \in E
  PROVE  /\ Append(q, e) \in Seq(E) /\ Len(q) \in Nat /\ DOMAIN q = 1..Len(q)
         /\ Len(Append(q, e)) = Len(q) + 1 /\ DOMAIN Append(q, e) = 1..(Len(q) + 1)
         /\ Append(q, e)[Len(q) + 1] = e
         /\ \A i \in 1..Len(q) : Append(q, e)[i] = q[i] /\ i \in DOMAIN Append(q, e)
<1>1. Append(q, e) \in Seq(E) /\ Len(q) \in Nat /\ DOMAIN q = 1..Len(q) /\ Len(Append(q, e)) = Len(q) + 1
  OBVIOUS
<1>2. Append(q, e)[Len(q) + 1] = e /\ \A i \in 1..Len(q) : Append(q, e)[i] = q[i]
  BY <1>1
<1>3. DOMAIN Append(q, e) = 1..(Len(q) + 1)
  BY <1>1
<1>4. QED
  BY <1>1, <1>2, <1>3

\* A sequence of all that is in a finite set, once each.
LEMMA SeqsOfSet ==
  ASSUME NEW S, IsFiniteSet(S), NEW q \in SetToSeqs(S)
  PROVE  /\ q \in Seq(S) /\ Len(q) = Cardinality(S) /\ DOMAIN q = 1..Len(q) /\ Len(q) \in Nat
         /\ \A i, j \in DOMAIN q : q[i] = q[j] => i = j
         /\ \A x \in S : \E i \in DOMAIN q : q[i] = x
<1> DEFINE n == Cardinality(S)
<1>1. n \in Nat
  BY FS_CardinalityType
<1>2. IsFiniteSet(1..n)
  BY <1>1, FS_Interval
<1>3. Cardinality(1..n) = n
  BY <1>1, FS_Interval
<1>4. q \in [1..n -> S] /\ \A i, j \in 1..n : i # j => q[i] # q[j]
  BY DEF SetToSeqs
<1> HIDE DEF n
<1>5. q \in Seq(S) /\ Len(q) = n /\ DOMAIN q = 1..n
  BY <1>1, <1>4
<1>6. q \in Injection(1..n, S)
  BY <1>4 DEF Injection, IsInjective
<1>7. q \in Surjection(1..n, S)
  BY <1>3, <1>6, FS_Injection DEF n
<1>8. \A x \in S : \E i \in 1..n : q[i] = x
  BY <1>7 DEF Surjection
<1>9. QED
  BY <1>1, <1>4, <1>5, <1>8 DEF n

-----------------------------------------------------------------------------
(* Folds.  FoldLeft is a function of the sets of indices, of which it takes *)
(* away the greatest.                                                       *)

\* A step of a fold over n things, from b0 on, within B.
IsStep(n, B, b0, G) == n \in Nat /\ b0 \in B /\ G \in [(1..n) \X B -> B]

\* What the fold is for every set of indices.
Unwound(c, n, B, b0, G) ==
  /\ c \in [SUBSET (1..n) -> B] /\ c[{}] = b0
  /\ \A t \in SUBSET (1..n) : t # {} => c[t] = G[<<Max(t), c[t \ {Max(t)}]>>]

\* c does on sets of indices what G does, as long as it stays in B.
Unwinds(c, n, B, b0, G) ==
  /\ c[{}] = b0
  /\ \A t \in SUBSET (1..n) :
       t # {} /\ c[t \ {Max(t)}] \in B => c[t] = G[<<Max(t), c[t \ {Max(t)}]>>]

\* h is what is computed from left to right.
Runs(h, n, B, b0, G) ==
  /\ h \in [0..n -> B] /\ h[0] = b0
  /\ \A k \in 1..n : h[k] = G[<<k, h[k - 1]>>]

\* The greatest element of the domain of a sequence, as MapThenFoldSet chooses it.
LEMMA Greatest ==
  ASSUME NEW n \in Nat, NEW t \in SUBSET (1..n), t # {}
  PROVE  Max(t) \in t /\ (\A x \in t : Max(t) >= x) /\ t \ {Max(t)} \in SUBSET t /\ t \ {Max(t)} # t
<1>1. IsFiniteSet(1..n)
  BY FS_Interval
<1>2. IsFiniteSet(t)
  BY <1>1, FS_Subset
<1>3. t \in SUBSET Int
  OBVIOUS
<1>4. QED
  BY <1>2, <1>3, MaxIsThere

\* Whatever unwinds computes what runs from left to right.
LEMMA UnwindsToRun ==
  ASSUME NEW n, NEW B, NEW b0, NEW G, IsStep(n, B, b0, G),
         NEW c, Unwinds(c, n, B, b0, G)
  PROVE  \E h : Runs(h, n, B, b0, G) /\ c[1..n] = h[n]
<1> DEFINE h == [k \in 0..n |-> c[1..k]]
           S == {k \in 0..n : h[k] \in B}
<1>0. n \in Nat /\ b0 \in B /\ G \in [(1..n) \X B -> B]
  BY DEF IsStep
<1> USE <1>0
<1>1. 1..0 = {}
  OBVIOUS
<1>2. h[0] = b0
  BY <1>1 DEF Unwinds
<1>3. ASSUME NEW k \in 1..n, k - 1 \in S
      PROVE  k \in S /\ h[k] = G[<<k, h[k - 1]>>]
  <2>1. 1..k \in SUBSET (1..n) /\ 1..k # {}
    OBVIOUS
  <2>2. Max(1..k) = k /\ (1..k) \ {k} = 1..(k - 1)
    BY MaxOfUpTo
  <2>3. c[1..(k - 1)] \in B /\ h[k - 1] = c[1..(k - 1)] /\ h[k] = c[1..k]
    BY <1>3
  <2>4. c[1..k] = G[<<k, c[1..(k - 1)]>>]
    BY <2>1, <2>2, <2>3 DEF Unwinds
  <2>5. G[<<k, c[1..(k - 1)]>>] \in B
    BY <2>3
  <2>6. QED
    BY <2>3, <2>4, <2>5
<1>4. 0 \in S
  BY <1>2
<1>5. 0..n \subseteq S
  <2> HIDE DEF S
  <2>1. QED
    BY <1>3, <1>4, UpTo
<1>6. h \in [0..n -> B]
  BY <1>5
<1>7. ASSUME NEW k \in 1..n PROVE h[k] = G[<<k, h[k - 1]>>]
  <2>1. k - 1 \in S
    BY <1>5
  <2> HIDE DEF h, S
  <2>2. QED
    BY <1>3, <2>1
<1>8. h[n] = c[1..n]
  OBVIOUS
<1> HIDE DEF h, S
<1>9. QED
  BY <1>2, <1>6, <1>7, <1>8 DEF Runs

\* Something unwinds.
LEMMA UnwindingExists ==
  ASSUME NEW n, NEW B, NEW b0, NEW G, IsStep(n, B, b0, G)
  PROVE  \E c : Unwound(c, n, B, b0, G)
<1> DEFINE Good(c, T) == /\ c \in [SUBSET T -> B] /\ c[{}] = b0
                         /\ \A t \in SUBSET T : t # {} => c[t] = G[<<Max(t), c[t \ {Max(t)}]>>]
           C == {k \in 0..n : \E c : Good(c, 1..k)}
<1>0. n \in Nat /\ b0 \in B /\ G \in [(1..n) \X B -> B]
  BY DEF IsStep
<1> USE <1>0
<1>1. 0 \in C
  <2>1. SUBSET (1..0) = {{}}
    OBVIOUS
  <2>2. Good([t \in SUBSET (1..0) |-> b0], 1..0)
    BY <2>1
  <2> HIDE DEF Good
  <2>3. QED
    BY <2>2
<1>2. ASSUME NEW k \in 1..n, k - 1 \in C PROVE k \in C
  <2>1. PICK c : Good(c, 1..(k - 1))
    BY <1>2
  <2> DEFINE d == [t \in SUBSET (1..k) |->
                     IF k \in t THEN G[<<k, c[t \ {k}]>>] ELSE c[t]]
  <2>2. ASSUME NEW t \in SUBSET (1..k), k \in t
        PROVE  Max(t) = k /\ t \ {k} \in SUBSET (1..(k - 1))
    <3>1. Max(t) \in t /\ \A x \in t : Max(t) >= x
      <4>1. t # {} /\ k \in Nat
        BY <2>2
      <4>2. QED
        BY <4>1, Greatest
    <3>2. t \in SUBSET (1..k) /\ k \in t
      BY <2>2
    <3>3. Max(t) \in 1..k /\ Max(t) >= k
      BY <3>1, <3>2
    <3>4. Max(t) = k
      BY <3>3
    <3>5. QED
      BY <3>2, <3>4
  <2>3. ASSUME NEW t \in SUBSET (1..k), k \notin t
        PROVE  t \in SUBSET (1..(k - 1))
    BY <2>3
  <2>4. \A t \in SUBSET (1..(k - 1)) : c[t] \in B
    BY <2>1
  <2>5. d \in [SUBSET (1..k) -> B]
    <3>1. ASSUME NEW t \in SUBSET (1..k) PROVE d[t] \in B
      <4>1. CASE k \in t
        <5>1. c[t \ {k}] \in B /\ k \in 1..n
          BY <2>2, <2>4, <4>1
        <5>2. G[<<k, c[t \ {k}]>>] \in B
          BY <5>1
        <5>3. QED
          BY <4>1, <5>2
      <4>2. CASE k \notin t
        BY <2>3, <2>4, <4>2
      <4>3. QED
        BY <4>1, <4>2
    <3>2. QED
      BY <3>1
  <2>6. d[{}] = b0
    BY <2>1
  <2>7. ASSUME NEW t \in SUBSET (1..k), t # {}
        PROVE  d[t] = G[<<Max(t), d[t \ {Max(t)}]>>]
    <3>1. CASE k \in t
      <4>1. Max(t) = k /\ k \notin t \ {k} /\ t \ {k} \in SUBSET (1..k)
        BY <2>2, <3>1
      <4>2. d[t \ {k}] = c[t \ {k}]
        BY <4>1
      <4>3. QED
        BY <3>1, <4>1, <4>2
    <3>2. CASE k \notin t
      <4>1. t \in SUBSET (1..(k - 1)) /\ k - 1 \in Nat
        BY <2>3, <3>2
      <4>2. /\ t \ {Max(t)} \in SUBSET (1..(k - 1)) /\ t \ {Max(t)} \in SUBSET (1..k)
            /\ k \notin t \ {Max(t)}
        BY <3>2, <4>1
      <4>3. d[t \ {Max(t)}] = c[t \ {Max(t)}] /\ d[t] = c[t]
        BY <3>2, <4>2
      <4>4. c[t] = G[<<Max(t), c[t \ {Max(t)}]>>]
        BY <2>1, <2>7, <4>1
      <4>5. QED
        BY <4>3, <4>4
    <3>3. QED
      BY <3>1, <3>2
  <2>8. Good(d, 1..k)
    <3> HIDE DEF d
    <3>1. QED
      BY <2>5, <2>6, <2>7
  <2> HIDE DEF d, Good
  <2>9. QED
    BY <2>8
<1>3. 0..n \subseteq C
  <2> HIDE DEF C
  <2>1. QED
    BY <1>1, <1>2, UpTo
<1>4. n \in C
  <2> HIDE DEF C
  <2>1. QED
    BY <1>3
<1>5. QED
  BY <1>4 DEF Unwound
=============================================================================
