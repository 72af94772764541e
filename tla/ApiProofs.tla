------------------------------ MODULE ApiProofs ------------------------------
(***************************************************************************)
(* Theorems about ArchiverApi, for any workers, loads, streams and DOTs:   *)
(* types, which range and which streams are read, where the ranges of an   *)
(* answer come from and what they let through, what an answer has, and     *)
(* when the archiver goes down.                                            *)
(*                                                                         *)
(* Lemmas about ranges, chains, series and times come first.  Each action  *)
(* of a worker is then shown to be one of a few kinds of steps from job to *)
(* job, JobStep, so that what is kept is proved about those; what workers  *)
(* and others do to the world around is summed up in Touches and Grows.    *)
(***************************************************************************)
EXTENDS ArchiverApi, SequenceLemmas, TimeProofs

-----------------------------------------------------------------------------
(* Ranges: what is merged, narrowed and masked.                             *)

LEMMA MergeType ==
  ASSUME NEW rs \in Seq(TimeRange), NEW r \in TimeRange
  PROVE  Merge(rs, r) \in Seq(TimeRange)
<1> DEFINE hit == {i \in DOMAIN rs : ~IsDisjoint(r, rs[i])}
           i == CHOOSE j \in hit : \A k \in hit : j <= k
<1>1. CASE hit = {}
  BY <1>1 DEF Merge
<1>2. CASE hit # {}
  <2>1. rs \in [1..Len(rs) -> TimeRange] /\ DOMAIN rs = 1..Len(rs)
    OBVIOUS
  <2>2. Merge(rs, r) = [rs EXCEPT ![i] = MergeFrom(@, r)]
    BY <1>2 DEF Merge
  <2>3. \A x \in TimeRange : MergeFrom(x, r) \in TimeRange
    BY DEF MergeFrom, TimeRange, Early, Late
  <2>4. CASE i \in DOMAIN rs
    BY <2>1, <2>2, <2>3, <2>4, ExceptSeq
  <2>5. CASE i \notin DOMAIN rs
    <3> HIDE DEF i, hit
    <3>1. Merge(rs, r) = rs
      BY <2>1, <2>2, <2>5
    <3>2. QED
      BY <3>1
  <2>6. QED
    BY <2>4, <2>5
<1>3. QED
  BY <1>1, <1>2

\* What is merged is a list of ranges.
LEMMA MergeAllType ==
  ASSUME NEW s \in Seq(TimeRange), NEW b0 \in Seq(TimeRange)
  PROVE  MergeAll(b0, s) \in Seq(TimeRange)
<1> DEFINE B == Seq(TimeRange)
           n == Len(s)
           G == [p \in (1..n) \X B |-> Merge(p[2], s[p[1]])]
<1>1. n \in Nat /\ DOMAIN s = 1..n /\ \A i \in 1..n : s[i] \in TimeRange
  OBVIOUS
<1>2. IsStep(n, B, b0, G)
  BY <1>1, MergeType DEF IsStep
<1>3. PICK it : Unwound(it, n, B, b0, G)
  BY <1>2, UnwindingExists
<1>4. it = [t \in SUBSET DOMAIN s |->
              IF t = {} THEN b0 ELSE Merge(it[t \ {Max(t)}], s[Max(t)])]
  <2>1. ASSUME NEW t \in SUBSET (1..n), t # {}
        PROVE  it[t] = Merge(it[t \ {Max(t)}], s[Max(t)])
    <3>1. Max(t) \in 1..n /\ t \ {Max(t)} \in SUBSET (1..n)
      BY <1>1, <2>1, Greatest
    <3>2. it[t \ {Max(t)}] \in B /\ it[t] = G[<<Max(t), it[t \ {Max(t)}]>>]
      BY <1>3, <2>1, <3>1 DEF Unwound
    <3>3. QED
      BY <3>1, <3>2
  <2> HIDE DEF G, B
  <2>2. QED
    BY <1>1, <1>3, <2>1 DEF Unwound
<1>5. PICK c : /\ c = [t \in SUBSET DOMAIN s |->
                         IF t = {} THEN b0 ELSE Merge(c[t \ {Max(t)}], s[Max(t)])]
               /\ MergeAll(b0, s) = c[DOMAIN s]
  BY <1>4 DEF MergeAll, FoldLeft, MapThenFoldSet
<1>6. Unwinds(c, n, B, b0, G)
  <2>1. c[{}] = b0
    BY <1>5
  <2>2. ASSUME NEW t \in SUBSET (1..n), t # {}, c[t \ {Max(t)}] \in B
        PROVE  c[t] = G[<<Max(t), c[t \ {Max(t)}]>>]
    <3>1. Max(t) \in 1..n
      BY <1>1, <2>2, Greatest
    <3>2. c[t] = Merge(c[t \ {Max(t)}], s[Max(t)])
      BY <1>1, <1>5, <2>2
    <3>3. QED
      BY <2>2, <3>1, <3>2
  <2>3. QED
    BY <2>1, <2>2 DEF Unwinds
<1>7. PICK h : Runs(h, n, B, b0, G) /\ c[1..n] = h[n]
  <2> HIDE DEF B, n, G
  <2>1. QED
    BY <1>2, <1>6, UnwindsToRun
<1>8. h[n] \in B
  BY <1>1, <1>7 DEF Runs
<1>9. QED
  BY <1>1, <1>5, <1>7, <1>8

\* What a chain comes to is a range.
LEMMA IntersectionType ==
  ASSUME NEW rs \in Seq(TimeRange), rs # <<>>
  PROVE  Intersection(rs) \in TimeRange
<1> DEFINE s == Tail(rs)
           b0 == Head(rs)
<1>a. s \in Seq(TimeRange) /\ b0 \in TimeRange
  BY Tails
<1>b. Intersection(rs) = FoldLeft(LAMBDA acc, r : [Start |-> Late(acc.Start, r.Start), End |-> Early(acc.End, r.End)], b0, s)
  BY DEF Intersection
<1> USE <1>a
<1> HIDE DEF s, b0
<1> SUFFICES FoldLeft(LAMBDA acc, r : [Start |-> Late(acc.Start, r.Start), End |-> Early(acc.End, r.End)], b0, s) \in TimeRange
  BY <1>b
<1> DEFINE B == TimeRange
           n == Len(s)
           G == [p \in (1..n) \X B |-> [Start |-> Late(p[2].Start, s[p[1]].Start), End |-> Early(p[2].End, s[p[1]].End)]]
<1>1. n \in Nat /\ DOMAIN s = 1..n /\ \A i \in 1..n : s[i] \in TimeRange
  OBVIOUS
<1>2. IsStep(n, B, b0, G)
  BY <1>1 DEF IsStep, TimeRange, Late, Early
<1>3. PICK it : Unwound(it, n, B, b0, G)
  BY <1>2, UnwindingExists
<1>4. it = [t \in SUBSET DOMAIN s |->
              IF t = {} THEN b0 ELSE [Start |-> Late(it[t \ {Max(t)}].Start, s[Max(t)].Start), End |-> Early(it[t \ {Max(t)}].End, s[Max(t)].End)]]
  <2>1. ASSUME NEW t \in SUBSET (1..n), t # {}
        PROVE  it[t] = [Start |-> Late(it[t \ {Max(t)}].Start, s[Max(t)].Start), End |-> Early(it[t \ {Max(t)}].End, s[Max(t)].End)]
    <3>1. Max(t) \in 1..n /\ t \ {Max(t)} \in SUBSET (1..n)
      BY <1>1, <2>1, Greatest
    <3>2. it[t \ {Max(t)}] \in B /\ it[t] = G[<<Max(t), it[t \ {Max(t)}]>>]
      BY <1>3, <2>1, <3>1 DEF Unwound
    <3>3. QED
      BY <3>1, <3>2
  <2> HIDE DEF G, B
  <2>2. QED
    BY <1>1, <1>3, <2>1 DEF Unwound
<1>5. PICK c : /\ c = [t \in SUBSET DOMAIN s |->
                         IF t = {} THEN b0 ELSE [Start |-> Late(c[t \ {Max(t)}].Start, s[Max(t)].Start), End |-> Early(c[t \ {Max(t)}].End, s[Max(t)].End)]]
               /\ FoldLeft(LAMBDA acc, r : [Start |-> Late(acc.Start, r.Start), End |-> Early(acc.End, r.End)], b0, s) = c[DOMAIN s]
  BY <1>4 DEF FoldLeft, MapThenFoldSet
<1>6. Unwinds(c, n, B, b0, G)
  <2>1. c[{}] = b0
    BY <1>5
  <2>2. ASSUME NEW t \in SUBSET (1..n), t # {}, c[t \ {Max(t)}] \in B
        PROVE  c[t] = G[<<Max(t), c[t \ {Max(t)}]>>]
    <3>1. Max(t) \in 1..n
      BY <1>1, <2>2, Greatest
    <3>2. c[t] = [Start |-> Late(c[t \ {Max(t)}].Start, s[Max(t)].Start), End |-> Early(c[t \ {Max(t)}].End, s[Max(t)].End)]
      BY <1>1, <1>5, <2>2
    <3>3. QED
      BY <2>2, <3>1, <3>2
  <2>3. QED
    BY <2>1, <2>2 DEF Unwinds
<1>7. PICK h : Runs(h, n, B, b0, G) /\ c[1..n] = h[n]
  <2> HIDE DEF B, n, G
  <2>1. QED
    BY <1>2, <1>6, UnwindsToRun
<1>8. h[n] \in B
  BY <1>1, <1>7 DEF Runs
<1>9. QED
  BY <1>1, <1>5, <1>7, <1>8

-----------------------------------------------------------------------------
(* Chains.                                                                   *)

\* There are finitely many functions on 1..m into a finite set.
LEMMA FinitelyMany ==
  ASSUME NEW S, IsFiniteSet(S), NEW m \in Nat
  PROVE  IsFiniteSet([1..m -> S])
<1>1. CASE S = {}
  <2>1. ASSUME NEW c \in [1..m -> S] PROVE c = <<>>
    <3>1. 1 \notin 1..m
      BY <1>1
    <3>2. m = 0
      BY <3>1
    <3>3. c \in Seq(S) /\ Len(c) = 0
      BY <3>2
    <3>4. QED
      BY <3>3, EmptySeq
  <2>2. [1..m -> S] \subseteq {<<>>}
    BY <2>1
  <2>3. QED
    BY <2>2, FS_Singleton, FS_Subset
<1>2. CASE S # {}
  <2> DEFINE P == SUBSET ((1..m) \X S)
             Of(g) == [i \in 1..m |-> IF \E s \in S : <<i, s>> \in g
                                      THEN CHOOSE s \in S : <<i, s>> \in g ELSE CHOOSE s \in S : TRUE]
             f == [g \in P |-> Of(g)]
  <2>1. IsFiniteSet(P)
    <3>1. IsFiniteSet(1..m)
      BY FS_Interval
    <3>2. IsFiniteSet((1..m) \X S)
      BY <3>1, FS_Product
    <3>3. QED
      BY <3>2, FS_SUBSET
  <2>2. \A g \in P : Of(g) \in [1..m -> S]
    BY <1>2
  <2>3. ASSUME NEW c \in [1..m -> S] PROVE \E g \in P : f[g] = c
    <3>1. PICK g : g = {<<i, c[i]>> : i \in 1..m}
      OBVIOUS
    <3>2. g \in P
      BY <3>1
    <3>3. \A i \in 1..m : \A s \in S : <<i, s>> \in g <=> s = c[i]
      BY <3>1
    <3>4. Of(g) = c
      BY <3>3
    <3>5. QED
      BY <3>2, <3>4
  <2>4. f \in Surjection(P, [1..m -> S])
    <3> HIDE DEF P, Of
    <3>1. QED
      BY <2>2, <2>3 DEF Surjection
  <2>5. QED
    <3> HIDE DEF P, f
    <3>1. QED
      BY <2>1, <2>4, FS_Surjection
<1>3. QED
  BY <1>1, <1>2

\* A chain is a sequence of DOTs, there are finitely many, and each comes to a range.
LEMMA ChainsAre ==
  ASSUME NEW kind, NEW u, NEW reg \in SUBSET DOTs
  PROVE  /\ IsFiniteSet(Chains(kind, u, reg))
         /\ \A c \in Chains(kind, u, reg) : ChainRange(c) \in TimeRange
<1> DEFINE usable == {d \in reg : d.kind = kind /\ u \in d.on}
           n == Cardinality(usable)
<1>1. IsFiniteSet(usable) /\ n \in Nat
  <2>1. usable \subseteq DOTs /\ IsFiniteSet(DOTs)
    BY DOTAssumption
  <2>2. QED
    BY <2>1, FS_Subset, FS_CardinalityType
<1>2. Chains(kind, u, reg) \subseteq SeqOf(usable, n)
  BY DEF Chains
<1>3. IsFiniteSet(SeqOf(usable, n))
  <2> DEFINE F == {[1..m -> usable] : m \in 0..n}
             g == [m \in 0..n |-> [1..m -> usable]]
  <2> HIDE DEF usable, n
  <2>1. g \in Surjection(0..n, F)
    BY DEF Surjection
  <2>2. IsFiniteSet(0..n)
    BY <1>1, FS_Interval
  <2>a. IsFiniteSet(F)
    <3> HIDE DEF F, g
    <3>1. QED
      BY <2>1, <2>2, FS_Surjection
  <2>3. \A T \in F : IsFiniteSet(T)
    <3>1. ASSUME NEW m \in 0..n PROVE IsFiniteSet([1..m -> usable])
      BY <1>1, <3>1, FinitelyMany
    <3>2. QED
      BY <3>1
  <2>4. IsFiniteSet(UNION F)
    BY <2>a, <2>3, FS_UNION
  <2>5. QED
    BY <2>4 DEF SeqOf
<1>4. IsFiniteSet(Chains(kind, u, reg))
  BY <1>2, <1>3, FS_Subset
<1>5. ASSUME NEW c \in Chains(kind, u, reg) PROVE ChainRange(c) \in TimeRange
  <2>1. PICK m \in 0..n : c \in [1..m -> usable]
    BY <1>2 DEF SeqOf
  <2>2. c # <<>> /\ m \in Nat
    BY <1>1 DEF Chains
  <2>3. PICK r : r = [i \in DOMAIN c |-> c[i].rng]
    OBVIOUS
  <2>4. \A d \in usable : d.rng \in TimeRange
    BY DOTAssumption
  <2>5. r \in [1..m -> TimeRange] /\ m > 0
    BY <2>1, <2>2, <2>3, <2>4
  <2>6. r \in Seq(TimeRange) /\ r # <<>>
    BY <2>2, <2>5
  <2>7. QED
    BY <2>3, <2>6, IntersectionType DEF ChainRange
<1>6. QED
  BY <1>4, <1>5

\* What is found are lists of ranges.
LEMMA FoundType ==
  ASSUME NEW before \in Seq(TimeRange), NEW kind, NEW u, NEW reg \in SUBSET DOTs
  PROVE  Found(before, kind, u, reg) \subseteq Seq(TimeRange)
<1> SUFFICES ASSUME NEW cs \in SetToSeqs(Chains(kind, u, reg))
             PROVE  MergeAll(before, [i \in DOMAIN cs |-> ChainRange(cs[i])]) \in Seq(TimeRange)
  BY DEF Found
<1>1. cs \in Seq(Chains(kind, u, reg)) /\ DOMAIN cs = 1..Len(cs) /\ Len(cs) \in Nat
  BY ChainsAre, SeqsOfSet
<1>2. PICK rs : rs = [i \in DOMAIN cs |-> ChainRange(cs[i])]
  OBVIOUS
<1>3. rs \in [1..Len(cs) -> TimeRange]
  BY <1>1, <1>2, ChainsAre
<1>4. rs \in Seq(TimeRange)
  BY <1>1, <1>3
<1>5. QED
  BY <1>2, <1>4, MergeAllType
-----------------------------------------------------------------------------
(* What is left of a range asked for.                                       *)

Inside(rng, r) == r.Start <= rng.Start /\ rng.End <= r.End
InOneOf(rng, s) == \E r \in Range(s) : Inside(rng, r)

\* How far the loop of GetOverlap is: what is left is in what was asked for, and what it
\* counted is in one of the ranges.
OverlapType(s, rng) ==
  {a \in [rng : TimeRange, n : Nat] : Inside(a.rng, rng) /\ (a.n > 0 => InOneOf(a.rng, s))}

LEMMA OverlapStep ==
  ASSUME NEW s \in Seq(TimeRange), NEW rng \in TimeRange, NEW a \in OverlapType(s, rng), NEW k \in DOMAIN s
  PROVE  Overlap(a, s[k]) \in OverlapType(s, rng)
<1>1. PICK r, o : r = a.rng /\ o = s[k] /\ r \in TimeRange /\ o \in TimeRange /\ a.n \in Nat
  BY DEF OverlapType
<1>2. o \in Range(s)
  BY <1>1 DEF Range
<1>3. CASE IsDisjoint(r, o)
  BY <1>1, <1>3 DEF Overlap
<1>4. CASE ~IsDisjoint(r, o)
  <2>1. PICK i : i = [Start |-> Late(r.Start, o.Start), End |-> Early(r.End, o.End)]
    OBVIOUS
  <2>2. i \in TimeRange /\ Inside(i, o) /\ Inside(i, rng)
    BY <1>1, <2>1 DEF TimeRange, Late, Early, Inside, OverlapType
  <2>3. PICK m : m = IF a.n = 0 \/ IsDisjoint(i, i) THEN a.n + 1 ELSE a.n
    OBVIOUS
  <2>4. m \in Nat /\ Overlap(a, o) = [rng |-> i, n |-> m]
    BY <1>1, <1>4, <2>1, <2>3 DEF Overlap, Intersect
  <2>5. QED
    BY <1>1, <1>2, <2>2, <2>4 DEF OverlapType, InOneOf
<1>5. QED
  BY <1>3, <1>4

\* What GetOverlap leaves of a range, if anything, is in one of the valid ranges; of a
\* single valid range, all that both have.
LEMMA OverlapIs ==
  ASSUME NEW s \in Seq(TimeRange), NEW rng \in TimeRange, NEW b0, b0 = [rng |-> rng, n |-> 0]
  PROVE  LET o == FoldLeft(Overlap, b0, s)
         IN  /\ o.rng \in TimeRange /\ o.n \in Nat /\ Inside(o.rng, rng)
             /\ o.n > 0 => InOneOf(o.rng, s)
             /\ Len(s) = 1 /\ IsDisjoint(rng, s[1]) => o.rng = rng /\ o.n = 0
             /\ Len(s) = 1 /\ ~IsDisjoint(rng, s[1]) =>
                  o.rng = [Start |-> Late(rng.Start, s[1].Start), End |-> Early(rng.End, s[1].End)] /\ o.n = 1
<1> DEFINE B == OverlapType(s, rng)
           n == Len(s)
           G == [p \in (1..n) \X B |-> Overlap(p[2], s[p[1]])]
<1>1. n \in Nat /\ DOMAIN s = 1..n /\ \A i \in 1..n : s[i] \in TimeRange
  OBVIOUS
<1>2. IsStep(n, B, b0, G)
  <2>1. b0 \in B
    BY DEF OverlapType, Inside, TimeRange
  <2>2. \A k \in 1..n : \A a \in B : Overlap(a, s[k]) \in B
    BY <1>1, OverlapStep
  <2> HIDE DEF B
  <2>3. QED
    BY <1>1, <2>1, <2>2 DEF IsStep
<1>3. PICK it : Unwound(it, n, B, b0, G)
  BY <1>2, UnwindingExists
<1>4. it = [t \in SUBSET DOMAIN s |->
              IF t = {} THEN b0 ELSE Overlap(it[t \ {Max(t)}], s[Max(t)])]
  <2>1. ASSUME NEW t \in SUBSET (1..n), t # {}
        PROVE  it[t] = Overlap(it[t \ {Max(t)}], s[Max(t)])
    <3>1. Max(t) \in 1..n /\ t \ {Max(t)} \in SUBSET (1..n)
      BY <1>1, <2>1, Greatest
    <3>2. it[t \ {Max(t)}] \in B /\ it[t] = G[<<Max(t), it[t \ {Max(t)}]>>]
      BY <1>3, <2>1, <3>1 DEF Unwound
    <3>3. QED
      BY <3>1, <3>2
  <2> HIDE DEF G, B
  <2>2. QED
    BY <1>1, <1>3, <2>1 DEF Unwound
<1>5. PICK c : /\ c = [t \in SUBSET DOMAIN s |->
                         IF t = {} THEN b0 ELSE Overlap(c[t \ {Max(t)}], s[Max(t)])]
               /\ FoldLeft(Overlap, b0, s) = c[DOMAIN s]
  BY <1>4 DEF FoldLeft, MapThenFoldSet
<1>6. Unwinds(c, n, B, b0, G)
  <2>1. c[{}] = b0
    BY <1>5
  <2>2. ASSUME NEW t \in SUBSET (1..n), t # {}, c[t \ {Max(t)}] \in B
        PROVE  c[t] = G[<<Max(t), c[t \ {Max(t)}]>>]
    <3>1. Max(t) \in 1..n
      BY <1>1, <2>2, Greatest
    <3>2. c[t] = Overlap(c[t \ {Max(t)}], s[Max(t)])
      BY <1>1, <1>5, <2>2
    <3>3. QED
      BY <2>2, <3>1, <3>2
  <2>3. QED
    BY <2>1, <2>2 DEF Unwinds
<1>7. PICK h : Runs(h, n, B, b0, G) /\ c[1..n] = h[n]
  <2> HIDE DEF B, n, G
  <2>1. QED
    BY <1>2, <1>6, UnwindsToRun
<1>8. ASSUME NEW k \in 1..n PROVE h[k] = Overlap(h[k - 1], s[k])
  <2>1. h \in [0..n -> B] /\ h[k] = G[<<k, h[k - 1]>>]
    BY <1>7 DEF Runs
  <2>2. h[k - 1] \in B
    <3> HIDE DEF G, B
    <3>1. n \in Nat /\ k - 1 \in 0..n
      BY <1>1
    <3>2. QED
      BY <2>1, <3>1
  <2>3. QED
    BY <2>1, <2>2
<1>9. PICK o : o = FoldLeft(Overlap, b0, s) /\ o \in B /\ o = h[n] /\ h[0] = b0
  BY <1>1, <1>5, <1>7 DEF Runs
<1>10. ASSUME Len(s) = 1 PROVE o = Overlap(b0, s[1])
  <2>1. n = 1 /\ 1 \in 1..n /\ 1 - 1 = 0
    BY <1>10
  <2>2. h[1] = Overlap(h[1 - 1], s[1])
    BY <1>8, <2>1
  <2> HIDE DEF B, G
  <2>3. QED
    BY <1>9, <2>1, <2>2
<1>11. Len(s) = 1 /\ IsDisjoint(rng, s[1]) => o = b0
  BY <1>10 DEF Overlap
<1>12. Len(s) = 1 /\ ~IsDisjoint(rng, s[1]) =>
         o = [rng |-> [Start |-> Late(rng.Start, s[1].Start), End |-> Early(rng.End, s[1].End)], n |-> 1]
  BY <1>10 DEF Overlap, Intersect
<1>13. o.rng \in TimeRange /\ o.n \in Nat /\ Inside(o.rng, rng) /\ (o.n > 0 => InOneOf(o.rng, s))
  BY <1>9 DEF OverlapType
<1> HIDE DEF B, G
<1>14. QED
  BY <1>9, <1>11, <1>12, <1>13

-----------------------------------------------------------------------------
(* What is left of readings that were found.                                *)

\* Readings of recs until the end of one of the ranges.
MaskedType(recs, s) == {a \in Seq(Int) : \A i \in DOMAIN a : a[i] \in Range(recs) /\ \E r \in Range(s) : a[i] <= r.End}

LEMMA MaskedAppend ==
  ASSUME NEW recs \in Seq(Int), NEW s \in Seq(TimeRange), NEW a \in MaskedType(recs, s),
         NEW k \in DOMAIN recs, NEW r \in Range(s), recs[k] <= r.End
  PROVE  Append(a, recs[k]) \in MaskedType(recs, s)
<1>1. a \in Seq(Int) /\ recs[k] \in Int /\ recs[k] \in Range(recs)
  BY DEF MaskedType, Range
<1>2. PICK b : b = Append(a, recs[k])
  OBVIOUS
<1>3. /\ b \in Seq(Int) /\ Len(a) \in Nat /\ DOMAIN a = 1..Len(a) /\ DOMAIN b = 1..(Len(a) + 1)
      /\ b[Len(a) + 1] = recs[k] /\ \A i \in 1..Len(a) : b[i] = a[i]
  BY <1>1, <1>2, Appended
<1>4. ASSUME NEW i \in DOMAIN b PROVE b[i] \in Range(recs) /\ \E x \in Range(s) : b[i] <= x.End
  <2>1. CASE i \in 1..Len(a)
    BY <1>3, <2>1 DEF MaskedType
  <2>2. CASE i = Len(a) + 1
    BY <1>1, <1>3, <2>2
  <2>3. QED
    BY <1>3, <1>4, <2>1, <2>2
<1>5. QED
  BY <1>2, <1>3, <1>4 DEF MaskedType

LEMMA UntilIs ==
  ASSUME NEW s \in Seq(Int), NEW ranges \in Seq(TimeRange), NEW b0 \in MaskedType(s, ranges),
         NEW r \in Range(ranges)
  PROVE  Until(b0, s, r.End) \in MaskedType(s, ranges)
<1> DEFINE B == MaskedType(s, ranges)
           n == Len(s)
           G == [p \in (1..n) \X B |-> (IF s[p[1]] <= r.End THEN Append(p[2], s[p[1]]) ELSE p[2])]
<1>1. n \in Nat /\ DOMAIN s = 1..n /\ \A i \in 1..n : s[i] \in Int
  OBVIOUS
<1>2. IsStep(n, B, b0, G)
  <2>1. \A k \in 1..n : \A a \in B : (IF s[k] <= r.End THEN Append(a, s[k]) ELSE a) \in B
    BY <1>1, MaskedAppend
  <2>2. b0 \in B
    OBVIOUS
  <2> HIDE DEF B
  <2>3. QED
    BY <1>1, <2>1, <2>2 DEF IsStep
<1>3. PICK it : Unwound(it, n, B, b0, G)
  BY <1>2, UnwindingExists
<1>4. it = [t \in SUBSET DOMAIN s |->
              IF t = {} THEN b0 ELSE (IF s[Max(t)] <= r.End THEN Append(it[t \ {Max(t)}], s[Max(t)]) ELSE it[t \ {Max(t)}])]
  <2>1. ASSUME NEW t \in SUBSET (1..n), t # {}
        PROVE  it[t] = (IF s[Max(t)] <= r.End THEN Append(it[t \ {Max(t)}], s[Max(t)]) ELSE it[t \ {Max(t)}])
    <3>1. Max(t) \in 1..n /\ t \ {Max(t)} \in SUBSET (1..n)
      BY <1>1, <2>1, Greatest
    <3>2. it[t \ {Max(t)}] \in B /\ it[t] = G[<<Max(t), it[t \ {Max(t)}]>>]
      BY <1>3, <2>1, <3>1 DEF Unwound
    <3>3. QED
      BY <3>1, <3>2
  <2> HIDE DEF G, B
  <2>2. QED
    BY <1>1, <1>3, <2>1 DEF Unwound
<1>5. PICK c : /\ c = [t \in SUBSET DOMAIN s |->
                         IF t = {} THEN b0 ELSE (IF s[Max(t)] <= r.End THEN Append(c[t \ {Max(t)}], s[Max(t)]) ELSE c[t \ {Max(t)}])]
               /\ Until(b0, s, r.End) = c[DOMAIN s]
  BY <1>4 DEF Until, FoldLeft, MapThenFoldSet
<1>6. Unwinds(c, n, B, b0, G)
  <2>1. c[{}] = b0
    BY <1>5
  <2>2. ASSUME NEW t \in SUBSET (1..n), t # {}, c[t \ {Max(t)}] \in B
        PROVE  c[t] = G[<<Max(t), c[t \ {Max(t)}]>>]
    <3>1. Max(t) \in 1..n
      BY <1>1, <2>2, Greatest
    <3>2. c[t] = (IF s[Max(t)] <= r.End THEN Append(c[t \ {Max(t)}], s[Max(t)]) ELSE c[t \ {Max(t)}])
      BY <1>1, <1>5, <2>2
    <3>3. QED
      BY <2>2, <3>1, <3>2
  <2>3. QED
    BY <2>1, <2>2 DEF Unwinds
<1>7. PICK h : Runs(h, n, B, b0, G) /\ c[1..n] = h[n]
  <2> HIDE DEF B, n, G
  <2>1. QED
    BY <1>2, <1>6, UnwindsToRun
<1>8. h[n] \in B
  BY <1>1, <1>7 DEF Runs
<1>9. QED
  BY <1>1, <1>5, <1>7, <1>8

\* What is sent of a series that was found was found, and is not behind all of its ranges.
LEMMA MaskedIs ==
  ASSUME NEW recs \in Seq(Int), NEW s \in Seq(TimeRange)
  PROVE  Masked(recs, s) \in MaskedType(recs, s)
<1> DEFINE B == MaskedType(recs, s)
           n == Len(s)
           G == [p \in (1..n) \X B |-> Until(p[2], recs, s[p[1]].End)]
<1>1. n \in Nat /\ DOMAIN s = 1..n /\ \A i \in 1..n : s[i] \in TimeRange
  OBVIOUS
<1>2. IsStep(n, B, <<>>, G)
  <2>1. \A k \in 1..n : \A a \in B : Until(a, recs, s[k].End) \in B
    <3>1. \A k \in 1..n : s[k] \in Range(s)
      BY <1>1 DEF Range
    <3>2. QED
      BY <3>1, UntilIs
  <2>2. <<>> \in B
    BY DEF MaskedType
  <2> HIDE DEF B
  <2>3. QED
    BY <1>1, <2>1, <2>2 DEF IsStep
<1>3. PICK it : Unwound(it, n, B, <<>>, G)
  BY <1>2, UnwindingExists
<1>4. it = [t \in SUBSET DOMAIN s |->
              IF t = {} THEN <<>> ELSE Until(it[t \ {Max(t)}], recs, s[Max(t)].End)]
  <2>1. ASSUME NEW t \in SUBSET (1..n), t # {}
        PROVE  it[t] = Until(it[t \ {Max(t)}], recs, s[Max(t)].End)
    <3>1. Max(t) \in 1..n /\ t \ {Max(t)} \in SUBSET (1..n)
      BY <1>1, <2>1, Greatest
    <3>2. it[t \ {Max(t)}] \in B /\ it[t] = G[<<Max(t), it[t \ {Max(t)}]>>]
      BY <1>3, <2>1, <3>1 DEF Unwound
    <3>3. QED
      BY <3>1, <3>2
  <2> HIDE DEF G, B
  <2>2. QED
    BY <1>1, <1>3, <2>1 DEF Unwound
<1>5. PICK c : /\ c = [t \in SUBSET DOMAIN s |->
                         IF t = {} THEN <<>> ELSE Until(c[t \ {Max(t)}], recs, s[Max(t)].End)]
               /\ Masked(recs, s) = c[DOMAIN s]
  BY <1>4 DEF Masked, FoldLeft, MapThenFoldSet
<1>6. Unwinds(c, n, B, <<>>, G)
  <2>1. c[{}] = <<>>
    BY <1>5
  <2>2. ASSUME NEW t \in SUBSET (1..n), t # {}, c[t \ {Max(t)}] \in B
        PROVE  c[t] = G[<<Max(t), c[t \ {Max(t)}]>>]
    <3>1. Max(t) \in 1..n
      BY <1>1, <2>2, Greatest
    <3>2. c[t] = Until(c[t \ {Max(t)}], recs, s[Max(t)].End)
      BY <1>1, <1>5, <2>2
    <3>3. QED
      BY <2>2, <3>1, <3>2
  <2>3. QED
    BY <2>1, <2>2 DEF Unwinds
<1>7. PICK h : Runs(h, n, B, <<>>, G) /\ c[1..n] = h[n]
  <2> HIDE DEF B, n, G
  <2>1. QED
    BY <1>2, <1>6, UnwindsToRun
<1>8. h[n] \in B
  BY <1>1, <1>7 DEF Runs
<1>9. QED
  BY <1>1, <1>5, <1>7, <1>8
-----------------------------------------------------------------------------
(* Series of times.                                                          *)

InOrderOfTime(s) == \A i \in 2..Len(s) : s[i - 1] < s[i]

\* A finite set of times can be put in order.
LEMMA OrderExists ==
  ASSUME NEW S \in SUBSET Int, IsFiniteSet(S)
  PROVE  \E s \in SetToSeqs(S) : InOrderOfTime(s)
<1> DEFINE C == {T \in SUBSET S : \E s \in SetToSeqs(T) : InOrderOfTime(s)}
<1>1. ASSUME NEW T \in SUBSET S, \A U \in SUBSET T : U # T => U \in C
      PROVE  \E s \in SetToSeqs(T) : InOrderOfTime(s)
  <2>0. IsFiniteSet(T)
    BY FS_Subset
  <2>1. CASE T = {}
    <3>1. Cardinality(T) = 0
      BY <2>1, FS_EmptySet
    <3>2. <<>> \in SetToSeqs(T) /\ InOrderOfTime(<<>>)
      BY <2>1, <3>1 DEF SetToSeqs, InOrderOfTime
    <3>3. QED
      BY <3>2
  <2>2. CASE T # {}
    <3>1. PICK m \in T : \A x \in T : m >= x
      BY <2>0, <2>2, MaxIsThere
    <3>2. PICK U : U = T \ {m}
      OBVIOUS
    <3>3. U \in SUBSET T /\ U # T /\ IsFiniteSet(U)
      BY <2>0, <3>2, FS_Subset
    <3>4. PICK s \in SetToSeqs(U) : InOrderOfTime(s)
      BY <1>1, <3>3
    <3>5. Cardinality(T) = Cardinality(U) + 1 /\ Cardinality(U) \in Nat
      BY <2>0, <3>2, <3>3, FS_RemoveElement, FS_CardinalityType
    <3>6. PICK n \in Nat : n = Cardinality(U)
      BY <3>5
    <3>7. s \in Seq(U) /\ Len(s) = n /\ DOMAIN s = 1..n /\ \A i, j \in 1..n : s[i] = s[j] => i = j
      BY <3>3, <3>4, <3>6, SeqsOfSet
    <3>8. PICK t : t = Append(s, m)
      OBVIOUS
    <3>9. /\ t \in Seq(T) /\ Len(t) = n + 1 /\ DOMAIN t = 1..(n + 1) /\ t[n + 1] = m
          /\ \A i \in 1..n : t[i] = s[i] /\ s[i] \in U
      <4>0. U \subseteq T /\ s \in Seq(U)
        BY <3>3, <3>7
      <4>1. s \in Seq(T)
        BY <4>0, SeqMonotonic
      <4>a. \A i \in 1..n : s[i] \in U
        BY <3>7, <4>0, ElementOfSeq
      <4>2. QED
        BY <3>7, <3>8, <4>1, <4>a, Appended
    <3>10. ASSUME NEW i \in 1..(n + 1), NEW j \in 1..(n + 1), i # j PROVE t[i] # t[j]
      <4>1. CASE i \in 1..n /\ j \in 1..n
        BY <3>7, <3>9, <3>10, <4>1
      <4>2. CASE i = n + 1 /\ j \in 1..n
        BY <3>2, <3>9, <4>2
      <4>3. CASE i \in 1..n /\ j = n + 1
        BY <3>2, <3>9, <4>3
      <4>4. QED
        BY <3>10, <4>1, <4>2, <4>3
    <3>11. t \in SetToSeqs(T)
      <4>1. t \in [1..(n + 1) -> T]
        BY <3>9
      <4>2. QED
        BY <3>5, <3>6, <3>10, <4>1 DEF SetToSeqs
    <3>12. ASSUME NEW i \in 2..(n + 1) PROVE t[i - 1] < t[i]
      <4>1. CASE i \in 2..n
        BY <3>4, <3>7, <3>9, <4>1 DEF InOrderOfTime
      <4>2. CASE i = n + 1
        <5>1. n \in 1..n /\ i - 1 = n
          BY <4>2, <3>12
        <5>2. t[n] \in T /\ t[n] # m /\ t[n] \in Int /\ m \in Int
          BY <3>2, <3>3, <3>9, <5>1
        <5>3. QED
          BY <3>1, <3>9, <4>2, <5>1, <5>2
      <4>3. QED
        BY <3>12, <4>1, <4>2
    <3>13. InOrderOfTime(t)
      BY <3>9, <3>12 DEF InOrderOfTime
    <3>14. QED
      BY <3>11, <3>13
  <2>3. QED
    BY <2>1, <2>2
<1>2. SUBSET S \subseteq C
  <2>1. \A T \in SUBSET S : (\A U \in SUBSET T : U # T => U \in C) => T \in C
    BY <1>1
  <2> HIDE DEF C
  <2>2. QED
    BY <2>1, SubsetInduction
<1>3. QED
  BY <1>2

\* A series has the times of the set, and no other.
LEMMA SeriesIs ==
  ASSUME NEW S \in SUBSET Int, IsFiniteSet(S)
  PROVE  Series(S) \in Seq(S) /\ Range(Series(S)) = S
<1>1. PICK s : s = Series(S) /\ s \in SetToSeqs(S)
  BY OrderExists DEF Series, InOrderOfTime
<1>2. /\ s \in Seq(S) /\ \A x \in S : \E i \in DOMAIN s : s[i] = x
      /\ \A i \in DOMAIN s : s[i] \in S
  BY <1>1, SeqsOfSet
<1>3. QED
  BY <1>1, <1>2 DEF Range

\* A sequence has finitely many values.
LEMMA FiniteRange ==
  ASSUME NEW E, NEW s \in Seq(E)
  PROVE  IsFiniteSet(Range(s)) /\ Range(s) \subseteq E
<1>1. IsFiniteSet(DOMAIN s) /\ s \in Surjection(DOMAIN s, Range(s))
  <2>1. DOMAIN s = 1..Len(s) /\ Len(s) \in Nat
    OBVIOUS
  <2>2. IsFiniteSet(1..Len(s))
    BY <2>1, FS_Interval
  <2>3. s \in [DOMAIN s -> Range(s)]
    BY <2>1 DEF Range
  <2>4. QED
    BY <2>1, <2>2, <2>3 DEF Surjection, Range
<1>2. QED
  BY <1>1, FS_Surjection DEF Range

\* A finite set of integers has a least element.
LEMMA MinIsThere ==
  ASSUME NEW S \in SUBSET Int, IsFiniteSet(S), S # {}
  PROVE  Min(S) \in S /\ \A x \in S : Min(S) <= x
<1>1. PICK s \in SetToSeqs(S) : InOrderOfTime(s)
  BY OrderExists
<1>2. /\ s \in Seq(S) /\ DOMAIN s = 1..Len(s) /\ Len(s) \in Nat
      /\ \A x \in S : \E i \in DOMAIN s : s[i] = x
  BY SeqsOfSet
<1>3. PICK n \in Nat : n = Len(s)
  BY <1>2
<1>a. \A i \in 1..n : s[i] \in S /\ s[i] \in Int
  <2>1. ASSUME NEW i \in 1..n PROVE s[i] \in S
    BY <1>2, <1>3, ElementOfSeq
  <2>2. QED
    BY <2>1
<1> DEFINE P == {k \in 0..n : k > 0 => s[1] <= s[k]}
<1>4. ASSUME NEW k \in 1..n, k - 1 \in P PROVE k \in P
  <2>1. CASE k = 1
    <3>1. s[1] \in Int
      BY <1>a, <2>1
    <3>2. QED
      BY <2>1, <3>1
  <2>2. CASE k # 1
    <3>1. k \in 2..n /\ k - 1 \in 1..n /\ k - 1 > 0
      BY <2>2
    <3>2. s[k - 1] < s[k] /\ s[1] <= s[k - 1]
      BY <1>1, <1>3, <1>4, <3>1 DEF InOrderOfTime
    <3>3. s[k - 1] \in Int /\ s[k] \in Int /\ s[1] \in Int
      BY <1>a, <3>1
    <3>4. QED
      BY <3>2, <3>3
  <2>3. QED
    BY <2>1, <2>2
<1>5. 0..n \subseteq P
  <2>1. 0 \in P
    OBVIOUS
  <2> HIDE DEF P
  <2>2. QED
    BY <1>4, <2>1, UpTo
<1>6. \A k \in 1..n : s[1] <= s[k]
  BY <1>5
<1>7. n > 0 /\ s[1] \in S
  <2>1. PICK x \in S : TRUE
    OBVIOUS
  <2>2. PICK i \in 1..n : s[i] = x
    BY <1>2, <1>3, <2>1
  <2>3. 1 \in 1..n
    BY <2>2
  <2>4. QED
    BY <1>2, <1>3, <2>3
<1>8. \A x \in S : s[1] <= x
  BY <1>2, <1>3, <1>6
<1>9. \E m \in S : \A x \in S : m <= x
  BY <1>7, <1>8
<1>10. QED
  BY <1>9 DEF Min
-----------------------------------------------------------------------------
(* What a query is parsed to.                                                *)

\* What a conversion returns.
Returned == [val : Int, err : BOOLEAN]

LEMMA ValueType ==
  ASSUME NEW n \in Int, NEW b \in BOOLEAN
  PROVE  Value(n, b) \in Returned
BY DEF Value, Returned

LEMMA ReturnedIs ==
  /\ Value(0, TRUE) \in Returned /\ Value(0, FALSE) \in Returned
  /\ \A n \in Int : Value(n, TRUE) \in Returned /\ Value(n, FALSE) \in Returned
  /\ \A v \in Returned : v.val \in Int /\ v.err \in BOOLEAN
BY DEF Value, Returned

LEMMA WrapType ==
  ASSUME NEW n \in Int
  PROVE  Wrap(n) \in Int
<1>1. MaxInt \in Nat
  BY UnitAssumption
<1>2. 2 * MaxInt + 2 \in Nat \ {0}
  BY <1>1
<1>3. (n + MaxInt + 1) % (2 * MaxInt + 2) \in Int
  BY <1>1, <1>2
<1>4. QED
  BY <1>1, <1>3 DEF Wrap

LEMMA Int64IsInt == Int64 \subseteq Int /\ 0 \in Int64
BY UnitAssumption DEF Int64

LEMMA StoredIs == Stored \subseteq Nat /\ Stored \subseteq Int /\ Stored \subseteq Int64
BY UnitAssumption DEF Int64, Stored

\* To a finer unit, or to seconds, what comes out is a number.
LEMMA ConvertType ==
  ASSUME NEW t \in Int, NEW from \in UnitOfTime, NEW to \in UnitOfTime, to = UOT_NS \/ from = UOT_S \/ to = UOT_S
  PROVE  ConvertTime(t, from, to) \in Returned
<1>1. CASE from = to
  <2>1. ~(to < from)
    BY <1>1 DEF UnitOfTime, UOT_NS, UOT_US, UOT_MS, UOT_S
  <2>2. ConvertTime(t, from, to) = Value(t, FALSE)
    BY <1>1, <2>1 DEF ConvertTime
  <2>3. QED
    BY <2>2, ReturnedIs
<1>2. CASE to < from
  <2>1. unitmultiplier[to] \div unitmultiplier[from] \in Int
    <3>1. unitmultiplier[to] \in Nat \ {0} /\ unitmultiplier[from] \in Nat \ {0}
      BY Factors
    <3>2. QED
      BY <3>1
  <2>2. PICK r \in Int : r = Wrap(t * (unitmultiplier[to] \div unitmultiplier[from]))
    BY <2>1, WrapType
  <2>3. from # to
    BY <1>2 DEF UnitOfTime, UOT_NS, UOT_US, UOT_MS, UOT_S
  <2>4. ConvertTime(t, from, to) = IF r < t THEN Value(t, TRUE) ELSE Value(r, FALSE)
    BY <1>2, <2>2, <2>3 DEF ConvertTime
  <2>5. QED
    BY <2>4, ReturnedIs
<1>3. CASE from < to
  <2>1. to = UOT_S
    BY <1>3 DEF UnitOfTime, UOT_NS, UOT_US, UOT_MS, UOT_S
  <2>2. PICK d \in Nat \ {0} : d = unitmultiplier[from] \div unitmultiplier[to]
    <3>1. unitmultiplier[from] \div unitmultiplier[UOT_S] = unitmultiplier[from] /\ unitmultiplier[from] \in Nat \ {0}
      BY Factors
    <3>2. QED
      BY <2>1, <3>1
  <2>3. PICK r \in Int : r = Quot(t, d)
    <3>1. t >= 0 => t \div d \in Int
      OBVIOUS
    <3>2. ~(t >= 0) => -((-t) \div d) \in Int
      OBVIOUS
    <3>3. QED
      BY <3>1, <3>2 DEF Quot
  <2>4. from # to /\ ~(to < from)
    BY <1>3 DEF UnitOfTime, UOT_NS, UOT_US, UOT_MS, UOT_S
  <2>5. ConvertTime(t, from, to) = IF r > t THEN Value(t, TRUE) ELSE Value(r, FALSE)
    BY <2>2, <2>3, <2>4 DEF ConvertTime
  <2>6. QED
    BY <2>5, ReturnedIs
<1>4. QED
  BY <1>1, <1>2, <1>3 DEF UnitOfTime, UOT_NS, UOT_US, UOT_MS, UOT_S

LEMMA ParseIntType ==
  ASSUME NEW n
  PROVE  ParseInt(n) \in Returned
<1>1. \A i \in Int64 : i \in Int
  BY UnitAssumption DEF Int64
<1>2. CASE n \in Int64
  BY <1>1, <1>2, ReturnedIs DEF ParseInt
<1>3. CASE n \notin Int64
  BY <1>3, ReturnedIs DEF ParseInt
<1>4. QED
  BY <1>2, <1>3

LEMMA ParseAbsTimeType ==
  ASSUME NEW num, NEW unit
  PROVE  ParseAbsTime(num, unit) \in Returned
<1>1. CASE ~(num \in Int64 /\ unit \in UnitOfTime)
  BY <1>1, ReturnedIs DEF ParseAbsTime
<1>2. CASE num \in Int64 /\ unit \in UnitOfTime
  <2>1. num \in Int
    BY <1>2, UnitAssumption DEF Int64
  <2>2. UOT_S \in UnitOfTime /\ UOT_NS \in UnitOfTime
    BY DEF UnitOfTime
  <2>3. PICK sec \in Returned : sec = ConvertTime(num, unit, UOT_S)
    BY <1>2, <2>1, <2>2, ConvertType
  <2>4. PICK tmp \in Returned : tmp = ConvertTime(sec.val, UOT_S, unit)
    BY <1>2, <2>2, ConvertType DEF Returned
  <2>5. PICK rest \in Returned : rest = ConvertTime(Wrap(num - tmp.val), unit, UOT_NS)
    <3>1. num - tmp.val \in Int
      BY <2>1 DEF Returned
    <3>2. QED
      BY <1>2, <2>2, <3>1, WrapType, ConvertType
  <2>6. Unix(sec.val, rest.val) \in Int
    <3>1. unitmultiplier[UOT_NS] \in Int
      BY <2>2, Factors
    <3>2. QED
      BY <3>1 DEF Unix, Returned
  <2>7. (sec.err \/ tmp.err \/ rest.err) \in BOOLEAN
    BY ReturnedIs
  <2>8. ParseAbsTime(num, unit) = Value(Unix(sec.val, rest.val), sec.err \/ tmp.err \/ rest.err)
    BY <1>2, <2>3, <2>4, <2>5 DEF ParseAbsTime, WithRest
  <2>9. QED
    BY <2>6, <2>7, <2>8, ValueType
<1>3. QED
  BY <1>1, <1>2

LEMMA ParseReltimeType ==
  ASSUME NEW num, NEW unit
  PROVE  ParseReltime(num, unit) \in Returned
<1>1. CASE ~(num \in Int64 /\ unit \in DurationUnits)
  BY <1>1, ReturnedIs DEF ParseReltime
<1>2. CASE num \in Int64 /\ unit \in DurationUnits
  <2>1. num \in Int
    BY <1>2, UnitAssumption DEF Int64
  <2>2. unitmultiplier[UOT_NS] \in Int /\ Base \in Int /\ Base * Base \in Int
    BY Factors, BaseFacts DEF UnitOfTime
  <2>3. unit \in {"m", "h", "d"} => SecondsOf[unit] \in Nat
    BY UnitAssumption
  <2>4. PICK m \in Int : m = unitmultiplier[UOT_NS]
    BY <2>2
  <2>5. Nanoseconds(unit) \in Int
    BY <1>2, <2>2, <2>3, <2>4 DEF Nanoseconds, DurationUnits
  <2>6. num * Nanoseconds(unit) \in Int
    BY <2>1, <2>5
  <2>7. QED
    BY <1>2, <2>6, WrapType, ValueType DEF ParseReltime
<1>3. QED
  BY <1>1, <1>2

\* A sum of durations.
LEMMA SumType ==
  ASSUME NEW a \in Returned, NEW b \in Returned
  PROVE  Sum(a, b) \in Returned
<1>1. a.val + b.val \in Int /\ (a.err \/ b.err) \in BOOLEAN
  BY DEF Returned
<1>2. QED
  BY <1>1, WrapType, ValueType DEF AddDurations, Sum

\* How durations are added.
LEMMA reltimeRuns ==
  ASSUME NEW s \in Seq(Durations)
  PROVE  \E h : /\ h \in [0..Len(s) -> Returned] /\ h[0] = Value(0, FALSE) /\ reltime(s) = h[Len(s)]
                /\ \A k \in 1..Len(s) : h[k] = Sum(h[k - 1], ParseReltime(s[k].num, s[k].unit))
<1> DEFINE B == Returned
           b0 == Value(0, FALSE)
           n == Len(s)
           G == [p \in (1..n) \X B |-> Sum(p[2], ParseReltime(s[p[1]].num, s[p[1]].unit))]
<1>1. n \in Nat /\ DOMAIN s = 1..n /\ \A i \in 1..n : s[i] \in Durations
  OBVIOUS
<1>0. b0 \in Returned
  BY ReturnedIs
<1> HIDE DEF b0
<1>2. IsStep(n, B, b0, G)
  <2>1. b0 \in B
    BY <1>0
  <2>2. \A k \in 1..n : \A a \in B : Sum(a, ParseReltime(s[k].num, s[k].unit)) \in B
    BY ParseReltimeType, SumType
  <2> HIDE DEF B
  <2>3. QED
    BY <1>1, <2>1, <2>2 DEF IsStep
<1>3. PICK it : Unwound(it, n, B, b0, G)
  BY <1>2, UnwindingExists
<1>4. it = [t \in SUBSET DOMAIN s |->
              IF t = {} THEN b0 ELSE Sum(it[t \ {Max(t)}], ParseReltime(s[Max(t)].num, s[Max(t)].unit))]
  <2>1. ASSUME NEW t \in SUBSET (1..n), t # {}
        PROVE  it[t] = Sum(it[t \ {Max(t)}], ParseReltime(s[Max(t)].num, s[Max(t)].unit))
    <3>1. Max(t) \in 1..n /\ t \ {Max(t)} \in SUBSET (1..n)
      BY <1>1, <2>1, Greatest
    <3>2. it[t \ {Max(t)}] \in B /\ it[t] = G[<<Max(t), it[t \ {Max(t)}]>>]
      BY <1>3, <2>1, <3>1 DEF Unwound
    <3>3. QED
      BY <3>1, <3>2
  <2> HIDE DEF G, B
  <2>2. QED
    BY <1>1, <1>3, <2>1 DEF Unwound
<1>5. PICK c : /\ c = [t \in SUBSET DOMAIN s |->
                         IF t = {} THEN b0 ELSE Sum(c[t \ {Max(t)}], ParseReltime(s[Max(t)].num, s[Max(t)].unit))]
               /\ FoldLeft(LAMBDA sum, r : Sum(sum, ParseReltime(r.num, r.unit)), b0, s) = c[DOMAIN s]
  BY <1>4 DEF FoldLeft, MapThenFoldSet
<1>6. Unwinds(c, n, B, b0, G)
  <2>1. c[{}] = b0
    BY <1>5
  <2>2. ASSUME NEW t \in SUBSET (1..n), t # {}, c[t \ {Max(t)}] \in B
        PROVE  c[t] = G[<<Max(t), c[t \ {Max(t)}]>>]
    <3>1. Max(t) \in 1..n
      BY <1>1, <2>2, Greatest
    <3>2. c[t] = Sum(c[t \ {Max(t)}], ParseReltime(s[Max(t)].num, s[Max(t)].unit))
      BY <1>1, <1>5, <2>2
    <3>3. QED
      BY <2>2, <3>1, <3>2
  <2>3. QED
    BY <2>1, <2>2 DEF Unwinds
<1>7. PICK h : Runs(h, n, B, b0, G) /\ c[1..n] = h[n]
  <2> HIDE DEF B, n, G
  <2>1. QED
    BY <1>2, <1>6, UnwindsToRun
<1>8. ASSUME NEW k \in 1..n PROVE h[k] = Sum(h[k - 1], ParseReltime(s[k].num, s[k].unit))
  <2>1. k - 1 \in 0..n
    BY <1>1
  <2>2. h[k - 1] \in B /\ h[k] = G[<<k, h[k - 1]>>]
    BY <1>7, <2>1 DEF Runs
  <2> HIDE DEF B
  <2>3. QED
    BY <2>2
<1>9. h \in [0..n -> B] /\ h[0] = b0
  BY <1>7 DEF Runs
<1>10. FoldLeft(LAMBDA sum, r : Sum(sum, ParseReltime(r.num, r.unit)), b0, s) = h[n]
  BY <1>1, <1>5, <1>7
<1>11. reltime(s) = h[n]
  BY <1>10 DEF b0, reltime
<1>12. QED
  BY <1>8, <1>9, <1>11 DEF b0

LEMMA reltimeType ==
  ASSUME NEW s \in Seq(Durations)
  PROVE  reltime(s) \in Returned
<1>1. PICK h : h \in [0..Len(s) -> Returned] /\ reltime(s) = h[Len(s)]
  BY reltimeRuns
<1>2. Len(s) \in 0..Len(s)
  OBVIOUS
<1>3. QED
  BY <1>1, <1>2

LEMMA reltimeEmpty == reltime(<<>>) = Value(0, FALSE)
<1>1. <<>> \in Seq(Durations) /\ Len(<<>>) = 0
  OBVIOUS
<1>2. PICK h : h[0] = Value(0, FALSE) /\ reltime(<<>>) = h[0]
  BY <1>1, reltimeRuns
<1>3. QED
  BY <1>2

LEMMA abstimeType ==
  ASSUME NEW a, a.is = "string" => a.time \in Int
  PROVE  abstime(a).val \in Int
<1>1. \A n \in Int : Unix(n, 0) \in Int
  <2>1. unitmultiplier[UOT_NS] \in Int
    BY Factors DEF UnitOfTime
  <2>2. QED
    BY <2>1 DEF Unix
<1>2. CASE a.is = "unit"
  BY <1>2, ParseAbsTimeType DEF abstime, Returned
<1>3. CASE a.is = "number"
  <2>1. PICK n \in Returned : n = ParseInt(a.num)
    BY ParseIntType
  <2>2. n.val \in Int /\ [n EXCEPT !.val = Unix(@, 0)].val = Unix(n.val, 0)
    BY DEF Returned
  <2>3. abstime(a) = [n EXCEPT !.val = Unix(@, 0)]
    BY <1>3, <2>1 DEF abstime
  <2>4. QED
    BY <1>1, <2>2, <2>3
<1>4. CASE a.is = "string"
  BY <1>4 DEF abstime, Value
<1>5. CASE a.is = "now"
  BY <1>5, QueryAssumption DEF abstime, Value
<1>6. CASE a.is \notin {"unit", "number", "string", "now"}
  BY <1>6, QueryAssumption DEF abstime, Value
<1>7. QED
  BY <1>2, <1>3, <1>4, <1>5, <1>6

LEMMA timerefType ==
  ASSUME NEW t, IsTime(t)
  PROVE  timeref(t).val \in Int
<1>1. abstime(t.abs).val \in Int
  BY abstimeType DEF IsTime
<1>2. reltime(t.rel) \in Returned
  BY reltimeType DEF IsTime
<1>3. abstime(t.abs).val + reltime(t.rel).val \in Int
  BY <1>1, <1>2 DEF Returned
<1>4. QED
  BY <1>1, <1>3 DEF timeref, Value

\* What is kept of a data clause.
IsData(d) ==
  /\ {"Dtype", "Start", "End", "Limit", "Streamlimit", "Timeconv", "IsStatistical", "PointWidth",
      "IsWindow", "Width"} \subseteq DOMAIN d
  /\ d.Start \in Int /\ d.End \in Int /\ d.Limit \in Int /\ d.Streamlimit \in Int
  /\ d.PointWidth \in Int /\ d.Width \in Nat
  /\ d.Dtype \in {"in", "before", "after", "changed"}

LEMMA DataQueryIs ==
  /\ IsData(DataQuery)
  /\ \A from, to \in Int : IsData([DataQuery EXCEPT !.Start = from, !.End = to])
  /\ \A start \in Int : \A of \in {"before", "after"} : IsData([DataQuery EXCEPT !.Dtype = of, !.Start = start])
BY QueryAssumption DEF IsData, DataQuery

LEMMA LimitedIs ==
  ASSUME NEW c, NEW d, IsData(d), NEW parts
  PROVE  IsData(Limited(c, d, parts).val) /\ Limited(c, d, parts).err \in BOOLEAN
<1>1. PICK l, conv : l = limit(c.limit) /\ conv = timeconv(c.as)
  OBVIOUS
<1>2. l.Limit.val \in Int /\ l.Streamlimit.val \in Int
  BY <1>1, ParseIntType, ReturnedIs DEF limit
<1>3. PICK e : e = [d EXCEPT !.Limit = l.Limit.val, !.Streamlimit = l.Streamlimit.val, !.Timeconv = conv.val]
  OBVIOUS
<1>4. IsData(e)
  BY <1>2, <1>3 DEF IsData
<1>5. Limited(c, d, parts) = Value(e, Failed({l.Limit, l.Streamlimit, conv} \cup parts))
  BY <1>1, <1>3 DEF Limited
<1>6. Failed({l.Limit, l.Streamlimit, conv} \cup parts) \in BOOLEAN
  BY DEF Failed
<1>7. QED
  BY <1>4, <1>5, <1>6 DEF Value

LEMMA dataClauseIs ==
  ASSUME NEW c, IsClause(c)
  PROVE  IsData(dataClause(c).val) /\ dataClause(c).err \in BOOLEAN
<1>1. CASE c.of \in {"in", "statistical", "window"}
  <2>1. PICK from, to : from = timeref(c.from) /\ to = timeref(c.to)
    OBVIOUS
  <2>2. from.val \in Int /\ to.val \in Int
    BY <1>1, <2>1, timerefType DEF IsClause
  <2>3. PICK in : in = Limited(c, [DataQuery EXCEPT !.Start = from.val, !.End = to.val], {from, to})
    OBVIOUS
  <2>4. IsData(in.val) /\ in.err \in BOOLEAN
    BY <2>2, <2>3, DataQueryIs, LimitedIs
  <2>5. PICK d : d = in.val
    OBVIOUS
  <2>6. dataClause(c) = dataIn(c)
    BY <1>1 DEF dataClause
  <2>7. CASE c.of = "in"
    <3>1. dataIn(c) = in
      BY <2>1, <2>3, <2>7 DEF dataIn
    <3>2. QED
      BY <2>4, <2>6, <3>1
  <2>8. CASE c.of = "statistical"
    <3>1. PICK n : n = ParseInt(c.n)
      OBVIOUS
    <3>2. dataIn(c) = Value([d EXCEPT !.IsStatistical = TRUE, !.PointWidth = n.val], in.err \/ n.err)
      BY <2>1, <2>3, <2>5, <2>8, <3>1 DEF dataIn
    <3>3. IsData([d EXCEPT !.IsStatistical = TRUE, !.PointWidth = n.val])
      BY <2>4, <2>5, <3>1, ParseIntType, ReturnedIs DEF IsData
    <3>4. (in.err \/ n.err) \in BOOLEAN
      BY <2>4, <3>1, ParseIntType, ReturnedIs
    <3>5. QED
      BY <2>6, <3>2, <3>3, <3>4 DEF Value
  <2>9. CASE c.of = "window"
    <3>1. PICK n : n = ParseReltime(c.n, c.unit)
      OBVIOUS
    <3>2. PICK m \in Nat : m = n.val % (2 * MaxInt + 2)
      <4>1. n.val \in Int /\ 2 * MaxInt + 2 \in Nat \ {0}
        BY <3>1, ParseReltimeType, ReturnedIs, UnitAssumption
      <4>2. n.val % (2 * MaxInt + 2) \in Nat
        BY <4>1
      <4>3. QED
        BY <4>2
    <3>3. dataIn(c) = Value([d EXCEPT !.IsWindow = TRUE, !.Width = m], in.err \/ n.err)
      BY <2>1, <2>3, <2>5, <2>9, <3>1, <3>2 DEF dataIn
    <3>4. IsData([d EXCEPT !.IsWindow = TRUE, !.Width = m])
      BY <2>4, <2>5, <3>2 DEF IsData
    <3>5. (in.err \/ n.err) \in BOOLEAN
      BY <2>4, <3>1, ParseReltimeType, ReturnedIs
    <3>6. QED
      BY <2>6, <3>3, <3>4, <3>5 DEF Value
  <2>10. QED
    BY <1>1, <2>7, <2>8, <2>9
<1>2. CASE c.of \in {"before", "after"}
  <2>1. PICK start : start = timeref(c.from)
    OBVIOUS
  <2>2. start.val \in Int
    BY <1>2, <2>1, timerefType DEF IsClause
  <2>3. dataClause(c) = Limited(c, [DataQuery EXCEPT !.Dtype = c.of, !.Start = start.val], {start})
    BY <1>2, <2>1 DEF dataClause, dataNearest
  <2>4. QED
    BY <1>2, <2>2, <2>3, DataQueryIs, LimitedIs
<1>3. CASE c.of = "changed"
  <2>1. PICK e : e = [DataQuery EXCEPT !.Dtype = "changed", !.IsChangedRanges = TRUE,
                       !.FromGen = ParseInt(c.fromgen).val, !.ToGen = ParseInt(c.togen).val,
                       !.Resolution = ParseInt8(c.n).val]
    OBVIOUS
  <2>2. IsData(e)
    BY <2>1, QueryAssumption DEF IsData, DataQuery
  <2>3. dataClause(c) = Value(e, Failed({ParseInt(c.fromgen), ParseInt(c.togen), ParseInt8(c.n)}))
    BY <1>3, <2>1 DEF dataClause, dataChanged
  <2>4. Failed({ParseInt(c.fromgen), ParseInt(c.togen), ParseInt8(c.n)}) \in BOOLEAN
    BY DEF Failed
  <2>5. QED
    BY <2>2, <2>3, <2>4 DEF Value
<1>4. QED
  BY <1>1, <1>2, <1>3 DEF IsClause

DataKinds == {"in", "stat", "changed", "before", "after"}

HasNumbers(params) ==
  /\ params.Begin \in Int64 /\ params.End \in Int64
  /\ params.StreamLimit \in Int /\ params.DataLimit \in Int
  /\ params.PointWidth \in Int /\ params.Width \in Nat

LEMMA NumbersAre ==
  ASSUME NEW p, IsData(p.Data)
  PROVE  HasNumbers(GetParams(p))
BY WrapIsSame DEF IsData, GetParams, UnixNano, HasNumbers

\* A query is parsed to one of a few kinds, and one for data has its numbers.
LEMMA ParsedRight ==
  ASSUME NEW q, IsQuery(q), NEW p, p = Parse(q)
  PROVE  /\ p.Err \in BOOLEAN /\ KindOf(p) \in DataKinds \cup {"none", "tags", "distinct"}
         /\ HasNumbers(GetParams(p))
<1>1. PICK wh : wh = IF q.where = <<>> THEN NoDict ELSE whereList(q.where)
  OBVIOUS
<1> DEFINE p0 == [QueryType |-> q.type, Target |-> <<>>, Distinct |-> FALSE, Data |-> DataQuery,
                  Where |-> wh, Err |-> FALSE]
<1>2. CASE q.type = "select"
  <2>1. p = [p0 EXCEPT !.Target = q.tags, !.Distinct = q.distinct]
    BY <1>1, <1>2 DEF Parse
  <2>2. p.Err = FALSE /\ p.Data = DataQuery /\ p.QueryType = "select"
    BY <1>2, <2>1
  <2>3. KindOf(p) \in {"tags", "distinct"}
    BY <2>2 DEF KindOf
  <2>4. HasNumbers(GetParams(p))
    BY <2>2, DataQueryIs, NumbersAre
  <2>5. QED
    BY <2>2, <2>3, <2>4
<1>3. CASE q.type \in {"data", "delete"}
  <2>1. PICK d : d = dataClause(q.clause)
    OBVIOUS
  <2>2. IsData(d.val) /\ d.err \in BOOLEAN
    BY <1>3, <2>1, dataClauseIs DEF IsQuery
  <2>3. p = [p0 EXCEPT !.Data = d.val, !.Err = d.err]
    BY <1>1, <1>3, <2>1 DEF Parse
  <2>4. p.Err = d.err /\ p.Data = d.val /\ p.QueryType = q.type
    BY <2>3
  <2>5. KindOf(p) \in DataKinds \cup {"none"}
    BY <1>3, <2>2, <2>4 DEF KindOf, IsData, DataKinds
  <2>6. QED
    BY <2>2, <2>4, <2>5, NumbersAre
<1>4. CASE q.type \in {"delete tags", "syntax error"}
  <2>1. p = p0 \/ p = [p0 EXCEPT !.Err = TRUE]
    BY <1>1, <1>4 DEF Parse
  <2>2. p.Err \in BOOLEAN /\ p.Data = DataQuery /\ p.QueryType = q.type
    <3>1. /\ p0.Err \in BOOLEAN /\ p0.Data = DataQuery /\ p0.QueryType = q.type
          /\ [p0 EXCEPT !.Err = TRUE].Err \in BOOLEAN /\ [p0 EXCEPT !.Err = TRUE].Data = DataQuery
          /\ [p0 EXCEPT !.Err = TRUE].QueryType = q.type
      OBVIOUS
    <3> HIDE DEF p0
    <3>2. QED
      BY <2>1, <3>1
  <2>3. KindOf(p) = "none"
    BY <1>4, <2>2 DEF KindOf
  <2>4. QED
    BY <2>2, <2>3, DataQueryIs, NumbersAre
<1>5. QED
  BY <1>2, <1>3, <1>4 DEF IsQuery

\* A query for data has a clause, which is what it is about.
LEMMA ParsedWhere ==
  ASSUME NEW q, IsQuery(q), NEW p, p = Parse(q), KindOf(p) \in DataKinds
  PROVE  /\ IsWhere(q.where) /\ GetParams(p).Where = whereList(q.where)
         /\ IsClause(q.clause) /\ p.Data = dataClause(q.clause).val /\ p.Err = dataClause(q.clause).err
<1>1. PICK wh : wh = IF q.where = <<>> THEN NoDict ELSE whereList(q.where)
  OBVIOUS
<1>2. PICK p0 : /\ p0 = [QueryType |-> q.type, Target |-> <<>>, Distinct |-> FALSE, Data |-> DataQuery,
                         Where |-> wh, Err |-> FALSE]
                /\ p0.QueryType = q.type /\ p0.Where = wh /\ {"Data", "Err"} \subseteq DOMAIN p0
  <2>1. PICK p1 : p1 = [QueryType |-> q.type, Target |-> <<>>, Distinct |-> FALSE, Data |-> DataQuery,
                        Where |-> wh, Err |-> FALSE]
    OBVIOUS
  <2>2. p1.QueryType = q.type /\ p1.Where = wh /\ {"Data", "Err"} \subseteq DOMAIN p1
    BY <2>1
  <2>3. QED
    BY <2>1, <2>2
<1>3. p.QueryType = "data"
  BY DEF KindOf, DataKinds
<1>4. CASE q.type = "select"
  <2>1. p = [p0 EXCEPT !.Target = q.tags, !.Distinct = q.distinct]
    BY <1>1, <1>2, <1>4 DEF Parse
  <2>2. p.QueryType = "select"
    BY <1>2, <1>4, <2>1
  <2>3. QED
    BY <1>3, <2>2
<1>5. CASE q.type \in {"data", "delete"}
  <2>1. IsWhere(q.where) /\ q.where # <<>> /\ IsClause(q.clause)
    BY <1>5 DEF IsQuery, IsWhere
  <2>2. p = [p0 EXCEPT !.Data = dataClause(q.clause).val, !.Err = dataClause(q.clause).err]
    BY <1>1, <1>2, <1>5 DEF Parse
  <2>3. p.Where = whereList(q.where) /\ p.Data = dataClause(q.clause).val /\ p.Err = dataClause(q.clause).err
    BY <1>1, <1>2, <2>1, <2>2
  <2>4. QED
    BY <2>1, <2>3 DEF GetParams
<1>6. CASE q.type \in {"delete tags", "syntax error"}
  <2>1. p = p0 \/ p = [p0 EXCEPT !.Err = TRUE]
    BY <1>1, <1>2, <1>6 DEF Parse
  <2>2. p.QueryType = q.type
    BY <1>2, <2>1
  <2>3. QED
    BY <1>3, <1>6, <2>2
<1>7. QED
  BY <1>4, <1>5, <1>6 DEF IsQuery
-----------------------------------------------------------------------------
(* The instants of a query are what is written.                             *)

\* The units of the grammar have their lengths.
LEMMA LengthsAre ==
  /\ NanosecondsIn["ns"] = 1 /\ NanosecondsIn["us"] = Base /\ NanosecondsIn["ms"] = Base * Base
  /\ NanosecondsIn["s"] = second /\ second \in Nat /\ second = unitmultiplier[UOT_NS]
  /\ \A u \in {"m", "h", "d"} : NanosecondsIn[u] = SecondsOf[u] * second /\ SecondsOf[u] \in Nat
  /\ \A u \in DurationUnits : NanosecondsIn[u] \in Int /\ Nanoseconds(u) = NanosecondsIn[u]
<1>1. second \in Nat /\ second = unitmultiplier[UOT_NS] /\ Base \in Nat /\ Base * Base \in Nat
  BY BaseFacts, Multipliers DEF second
<1>2. \A u \in {"m", "h", "d"} : NanosecondsIn[u] = SecondsOf[u] * second /\ SecondsOf[u] \in Nat
  BY UnitAssumption DEF NanosecondsIn
<1>3. /\ NanosecondsIn["ns"] = 1 /\ NanosecondsIn["us"] = Base /\ NanosecondsIn["ms"] = Base * Base
      /\ NanosecondsIn["s"] = second
  BY DEF NanosecondsIn
<1>4. ASSUME NEW u \in DurationUnits PROVE NanosecondsIn[u] \in Int /\ Nanoseconds(u) = NanosecondsIn[u]
  <2>1. CASE u \in {"m", "h", "d"}
    <3>1. PICK n, k \in Nat : n = SecondsOf[u] /\ k = second
      BY <1>1, <1>2, <2>1
    <3>2. NanosecondsIn[u] = n * k
      BY <1>2, <2>1, <3>1
    <3>3. Nanoseconds(u) = n * k
      BY <1>1, <2>1, <3>1 DEF Nanoseconds
    <3>4. QED
      BY <3>2, <3>3
  <2>2. CASE u = "s"
    BY <1>1, <1>3, <2>2 DEF Nanoseconds
  <2>3. CASE u \in {"ns", "us", "ms"}
    BY <1>1, <1>3, <2>3 DEF Nanoseconds
  <2>4. QED
    BY <2>1, <2>2, <2>3 DEF DurationUnits
<1>5. QED
  BY <1>1, <1>2, <1>3, <1>4

LEMMA UnitIs ==
  ASSUME NEW unit, ParseUOT(unit) \in UnitOfTime
  PROVE  PerUnit(ParseUOT(unit)) = NanosecondsIn[unit] /\ NanosecondsIn[unit] \in Int
<1>1. unit \in {"ns", "us", "ms", "s"}
  BY DEF ParseUOT, UnitOfTime, UOT_NS, UOT_US, UOT_MS, UOT_S
<1>2. NanosecondsIn[unit] \in Int
  BY <1>1, LengthsAre DEF DurationUnits
<1>3. PICK b, c, d \in Nat : b = Base /\ c = Base * Base /\ d = second
  BY LengthsAre, BaseFacts
<1>4. PerUnit(UOT_NS) = 1 /\ PerUnit(UOT_US) = b /\ PerUnit(UOT_MS) = c /\ PerUnit(UOT_S) = d
  BY <1>3 DEF PerUnit, second, UOT_NS, UOT_US, UOT_MS, UOT_S
<1>5. /\ ParseUOT("ns") = UOT_NS /\ ParseUOT("us") = UOT_US
      /\ ParseUOT("ms") = UOT_MS /\ ParseUOT("s") = UOT_S
  BY DEF ParseUOT
<1>6. QED
  BY <1>1, <1>2, <1>3, <1>4, <1>5, LengthsAre

LEMMA abstimeIs ==
  ASSUME NEW a, a.is = "string" => a.time \in Int, ~abstime(a).err
  PROVE  abstime(a).val = Instant(a) /\ Instant(a) \in Int
<1>1. abstime(a).val \in Int
  BY abstimeType
<1>2. CASE a.is = "unit"
  <2>1. abstime(a) = ParseAbsTime(a.num, ParseUOT(a.unit))
    BY <1>2 DEF abstime
  <2>2. /\ ParseUOT(a.unit) \in UnitOfTime
        /\ abstime(a).val = a.num * PerUnit(ParseUOT(a.unit))
    BY <2>1, WrittenOrRefused
  <2>3. Instant(a) = a.num * NanosecondsIn[a.unit]
    BY <1>2 DEF Instant
  <2>4. QED
    BY <1>1, <2>2, <2>3, UnitIs
<1>3. CASE a.is = "number"
  <2>1. PICK n : n = ParseInt(a.num)
    OBVIOUS
  <2>2. abstime(a) = [n EXCEPT !.val = Unix(@, 0)]
    BY <1>3, <2>1 DEF abstime
  <2>3. n = IF a.num \in Int64 THEN Value(a.num, FALSE) ELSE Value(0, TRUE)
    BY <2>1 DEF ParseInt
  <2>4. a.num \in Int64 /\ n = Value(a.num, FALSE)
    <3>1. CASE a.num \notin Int64
      BY <2>2, <2>3, <3>1 DEF Value
    <3>2. QED
      BY <2>3, <3>1
  <2>5. abstime(a).val = Unix(a.num, 0)
    BY <2>2, <2>4 DEF Value
  <2>6. PICK k, l \in Int : k = a.num /\ l = second /\ l = unitmultiplier[UOT_NS]
    BY <2>4, LengthsAre, BaseFacts DEF Int64
  <2>7. Unix(a.num, 0) = k * l
    BY <2>6 DEF Unix
  <2>8. Instant(a) = k * l
    BY <1>3, <2>6 DEF Instant
  <2>9. QED
    BY <1>1, <2>5, <2>7, <2>8
<1>4. CASE a.is = "string"
  BY <1>1, <1>4 DEF abstime, Instant, Value
<1>5. CASE a.is = "now"
  BY <1>1, <1>5 DEF abstime, Instant, Value
<1>6. CASE a.is \notin {"unit", "number", "string", "now"}
  BY <1>6 DEF abstime, Value
<1>7. QED
  BY <1>2, <1>3, <1>4, <1>5, <1>6

\* A duration without error is what is written, but for what does not fit.
LEMMA ParseReltimeIs ==
  ASSUME NEW num, NEW unit, ~ParseReltime(num, unit).err
  PROVE  /\ unit \in DurationUnits /\ num * NanosecondsIn[unit] \in Int
         /\ ParseReltime(num, unit).val \in Int /\ Same(ParseReltime(num, unit).val, num * NanosecondsIn[unit])
<1>1. num \in Int64 /\ unit \in DurationUnits
  BY DEF ParseReltime, Value
<1>2. PICK n, l \in Int : n = num /\ l = NanosecondsIn[unit] /\ l = Nanoseconds(unit)
  BY <1>1, LengthsAre, BaseFacts DEF Int64
<1>3. PICK x \in Int : x = n * l
  OBVIOUS
<1>4. ParseReltime(num, unit) = Value(Wrap(x), FALSE)
  BY <1>1, <1>2, <1>3 DEF ParseReltime
<1>5. Wrap(x) \in Int /\ Same(Wrap(x), x)
  BY WrapIsSame, WrapType
<1>6. ParseReltime(num, unit).val = Wrap(x)
  BY <1>4 DEF Value
<1>7. QED
  BY <1>1, <1>2, <1>3, <1>5, <1>6

\* How what is written is added.
Adds(r) == r.num * NanosecondsIn[r.unit]
Total(b, s) == FoldLeft(LAMBDA sum, r : sum + r.num * NanosecondsIn[r.unit], b, s)

LEMMA InstantRuns ==
  ASSUME NEW s \in Seq(Durations), NEW b0 \in Int,
         \A k \in 1..Len(s) : Adds(s[k]) \in Int
  PROVE  \E h : /\ h \in [0..Len(s) -> Int] /\ h[0] = b0
                /\ Total(b0, s) = h[Len(s)]
                /\ \A k \in 1..Len(s) : h[k] = h[k - 1] + Adds(s[k])
<1> DEFINE B == Int
           n == Len(s)
           G == [p \in (1..n) \X B |-> p[2] + Adds(s[p[1]])]
<1>1. n \in Nat /\ DOMAIN s = 1..n
  OBVIOUS
<1>2. IsStep(n, B, b0, G)
  <2>1. \A k \in 1..n : \A a \in B : a + Adds(s[k]) \in B
    <3>1. ASSUME NEW k \in 1..n, NEW a \in Int PROVE a + Adds(s[k]) \in Int
      <4>1. PICK x \in Int : x = Adds(s[k])
        OBVIOUS
      <4>2. a + x \in Int
        OBVIOUS
      <4>3. QED
        BY <4>1, <4>2
    <3>2. QED
      BY <3>1
  <2>2. b0 \in B
    OBVIOUS
  <2> HIDE DEF B
  <2>3. QED
    BY <1>1, <2>1, <2>2 DEF IsStep
<1>3. PICK it : Unwound(it, n, B, b0, G)
  BY <1>2, UnwindingExists
<1>4. it = [t \in SUBSET DOMAIN s |->
              IF t = {} THEN b0 ELSE it[t \ {Max(t)}] + Adds(s[Max(t)])]
  <2>1. ASSUME NEW t \in SUBSET (1..n), t # {}
        PROVE  it[t] = it[t \ {Max(t)}] + Adds(s[Max(t)])
    <3>1. Max(t) \in 1..n /\ t \ {Max(t)} \in SUBSET (1..n)
      BY <1>1, <2>1, Greatest
    <3>2. it[t \ {Max(t)}] \in B /\ it[t] = G[<<Max(t), it[t \ {Max(t)}]>>]
      BY <1>3, <2>1, <3>1 DEF Unwound
    <3>3. QED
      BY <3>1, <3>2
  <2> HIDE DEF G, B
  <2>2. QED
    BY <1>1, <1>3, <2>1 DEF Unwound
<1>5. PICK c : /\ c = [t \in SUBSET DOMAIN s |->
                         IF t = {} THEN b0 ELSE c[t \ {Max(t)}] + Adds(s[Max(t)])]
               /\ FoldLeft(LAMBDA sum, r : sum + r.num * NanosecondsIn[r.unit], b0, s) = c[DOMAIN s]
  BY <1>4 DEF FoldLeft, MapThenFoldSet, Adds
<1>6. Unwinds(c, n, B, b0, G)
  <2>1. c[{}] = b0
    BY <1>5
  <2>2. ASSUME NEW t \in SUBSET (1..n), t # {}, c[t \ {Max(t)}] \in B
        PROVE  c[t] = G[<<Max(t), c[t \ {Max(t)}]>>]
    <3>1. Max(t) \in 1..n
      BY <1>1, <2>2, Greatest
    <3>2. c[t] = c[t \ {Max(t)}] + Adds(s[Max(t)])
      BY <1>1, <1>5, <2>2
    <3>3. QED
      BY <2>2, <3>1, <3>2
  <2>3. QED
    BY <2>1, <2>2 DEF Unwinds
<1>7. PICK h : Runs(h, n, B, b0, G) /\ c[1..n] = h[n]
  <2> HIDE DEF B, n, G
  <2>1. QED
    BY <1>2, <1>6, UnwindsToRun
<1>8. ASSUME NEW k \in 1..n PROVE h[k] = h[k - 1] + Adds(s[k])
  <2>1. k - 1 \in 0..n
    BY <1>1
  <2>2. h[k - 1] \in B /\ h[k] = G[<<k, h[k - 1]>>]
    BY <1>7, <2>1 DEF Runs
  <2> HIDE DEF B
  <2>3. QED
    BY <2>2
<1>9. h \in [0..n -> B] /\ h[0] = b0
  BY <1>7 DEF Runs
<1>10. FoldLeft(LAMBDA sum, r : sum + r.num * NanosecondsIn[r.unit], b0, s) = h[n]
  BY <1>1, <1>5, <1>7
<1>11. Total(b0, s) = h[n]
  BY <1>10 DEF Total
<1>12. QED
  BY <1>8, <1>9, <1>11

\* The sum of durations that are all without error is what is written, but for what does
\* not fit, and so it is with what is added to.
LEMMA SumsAre ==
  ASSUME NEW s \in Seq(Durations), NEW b \in Int, ~reltime(s).err
  PROVE  LET e == Total(b, s)
         IN  e \in Int /\ Same(b + reltime(s).val, e)
<1> DEFINE n == Len(s)
           P(k) == ParseReltime(s[k].num, s[k].unit)
           D(k) == Adds(s[k])
           e == Total(b, s)
<1>1. n \in Nat
  OBVIOUS
<1>2. PICK h : /\ h \in [0..n -> Returned] /\ h[0] = Value(0, FALSE) /\ reltime(s) = h[n]
               /\ \A k \in 1..n : h[k] = Sum(h[k - 1], P(k))
  BY reltimeRuns
<1>3. ASSUME NEW k \in 1..n
      PROVE  /\ h[k].err <=> h[k - 1].err \/ P(k).err
             /\ h[k].val = Wrap(h[k - 1].val + P(k).val)
             /\ h[k - 1] \in Returned /\ P(k) \in Returned
  <2>1. k - 1 \in 0..n
    BY <1>1
  <2>2. PICK x, y \in Returned : x = h[k - 1] /\ y = P(k)
    BY <1>2, <2>1, ParseReltimeType
  <2>3. h[k] = Sum(x, y)
    BY <1>2, <2>2
  <2>4. (Sum(x, y).err <=> x.err \/ y.err) /\ Sum(x, y).val = Wrap(x.val + y.val)
    BY DEF Sum, Value, AddDurations
  <2> HIDE DEF P
  <2>5. QED
    BY <2>2, <2>3, <2>4
<1> HIDE DEF P
<1>4. ASSUME NEW k \in 1..n PROVE ~P(k).err
  <2> SUFFICES ASSUME P(k).err PROVE FALSE
    OBVIOUS
  <2> DEFINE S == {i \in 0..n : i >= k => h[i].err}
  <2>1. 0 \in S
    BY <1>1
  <2>2. ASSUME NEW i \in 1..n, i - 1 \in S PROVE i \in S
    <3>1. CASE i = k
      BY <1>3, <3>1
    <3>2. CASE i < k
      BY <3>2
    <3>3. CASE i > k
      BY <1>3, <2>2, <3>3
    <3>4. QED
      BY <3>1, <3>2, <3>3
  <2>3. 0..n \subseteq S
    <3> HIDE DEF S
    <3>1. QED
      BY <1>1, <2>1, <2>2, UpTo
  <2>4. n \in 0..n /\ n >= k
    BY <1>1
  <2>5. h[n].err
    BY <2>3, <2>4
  <2>6. QED
    BY <1>2, <2>5
<1>5. \A k \in 1..n : D(k) \in Int /\ P(k).val \in Int /\ Same(P(k).val, D(k))
  BY <1>4, ParseReltimeIs DEF P, Adds
<1>6. PICK f : /\ f \in [0..n -> Int] /\ f[0] = b /\ e = f[n]
               /\ \A k \in 1..n : f[k] = f[k - 1] + D(k)
  <2>1. \A k \in 1..Len(s) : Adds(s[k]) \in Int
    BY <1>5
  <2>2. QED
    BY <2>1, InstantRuns
<1> HIDE DEF D
<1> HIDE DEF e
<1> DEFINE S == {i \in 0..n : Same(b + h[i].val, f[i])}
<1>7. 0 \in S
  <2>1. b + h[0].val = b /\ 0 \in 0..n
    BY <1>1, <1>2 DEF Value
  <2>2. QED
    BY <1>6, <2>1, SameItself
<1>8. ASSUME NEW k \in 1..n, k - 1 \in S PROVE k \in S
  <2>1. PICK x, p, y, d \in Int : x = h[k - 1].val /\ p = P(k).val /\ y = f[k - 1] /\ d = D(k)
    <3>1. k - 1 \in 0..n
      BY <1>1
    <3>2. h[k - 1].val \in Int /\ P(k).val \in Int /\ f[k - 1] \in Int /\ D(k) \in Int
      BY <1>2, <1>3, <1>5, <1>6, <3>1, ReturnedIs
    <3>3. QED
      BY <3>2
  <2>2. Same(b + x, y) /\ Same(p, d)
    BY <1>5, <1>8, <2>1
  <2>3. Same((b + x) + p, y + d)
    <3>1. b + x \in Int
      OBVIOUS
    <3>2. QED
      BY <2>2, <3>1, SameSums
  <2>4. Same(b + Wrap(x + p), b + (x + p))
    <3>1. x + p \in Int /\ Wrap(x + p) \in Int /\ Same(Wrap(x + p), x + p) /\ Same(b, b)
      BY WrapIsSame, WrapType, SameItself
    <3>2. QED
      BY <3>1, SameSums
  <2>5. b + (x + p) = (b + x) + p
    OBVIOUS
  <2>6. Same(b + Wrap(x + p), y + d)
    <3>1. PICK u, v, z \in Int : u = b + Wrap(x + p) /\ v = b + (x + p) /\ z = y + d
      <4>1. b + Wrap(x + p) \in Int /\ b + (x + p) \in Int /\ y + d \in Int
        <5>1. Wrap(x + p) \in Int
          BY WrapType
        <5>2. QED
          BY <5>1
      <4>2. QED
        BY <4>1
    <3>2. Same(u, v) /\ Same(v, z)
      BY <2>3, <2>4, <2>5, <3>1
    <3>3. QED
      BY <3>1, <3>2, SameOfSame
  <2>7. h[k].val = Wrap(x + p) /\ f[k] = y + d
    BY <1>3, <1>6, <2>1
  <2>8. QED
    BY <2>6, <2>7
<1>9. 0..n \subseteq S
  <2> HIDE DEF S
  <2>1. QED
    BY <1>1, <1>7, <1>8, UpTo
<1>10. n \in 0..n /\ n \in S
  BY <1>1, <1>9
<1>11. QED
  BY <1>2, <1>6, <1>10 DEF e

\* A time that is no error is what is written, but for what an int64 does not hold of it.
LEMMA timerefIs ==
  ASSUME NEW t, IsTime(t), ~timeref(t).err
  PROVE  Exactly(t) \in Int /\ timeref(t).val \in Int /\ Same(timeref(t).val, Exactly(t))
<1>1. PICK a, s : a = t.abs /\ s = t.rel /\ s \in Seq(Durations) /\ (a.is = "string" => a.time \in Int)
  BY DEF IsTime
<1>2. PICK x, d : x = abstime(a) /\ d = reltime(s) /\ d \in Returned
  BY <1>1, reltimeType
<1>3. Exactly(t) = Total(Instant(a), s)
  BY <1>1 DEF Exactly, Total
<1>4. timeref(t) = IF s = <<>> THEN x ELSE Value(x.val + d.val, x.err \/ d.err)
  BY <1>1, <1>2 DEF timeref
<1>5. ~x.err
  <2>1. CASE s = <<>>
    BY <1>4, <2>1
  <2>2. CASE s # <<>>
    <3>1. timeref(t).err = (x.err \/ d.err)
      BY <1>4, <2>2 DEF Value
    <3>2. QED
      BY <3>1
  <2>3. QED
    BY <2>1, <2>2
<1>6. PICK i \in Int : i = Instant(a) /\ i = x.val
  BY <1>1, <1>2, <1>5, abstimeIs
<1>7. ~d.err
  <2>1. CASE s = <<>>
    <3>1. d = Value(0, FALSE)
      BY <1>1, <1>2, <2>1, reltimeEmpty
    <3>2. QED
      BY <3>1 DEF Value
  <2>2. CASE s # <<>>
    <3>1. timeref(t).err = (x.err \/ d.err)
      BY <1>4, <2>2 DEF Value
    <3>2. QED
      BY <3>1
  <2>3. QED
    BY <2>1, <2>2
<1>8. Exactly(t) \in Int /\ Same(i + d.val, Exactly(t))
  BY <1>1, <1>2, <1>3, <1>6, <1>7, SumsAre
<1>9. timeref(t).val = i + d.val /\ i + d.val \in Int
  <2>1. i + d.val \in Int
    BY <1>2, ReturnedIs
  <2>2. CASE s = <<>>
    <3>1. d.val = 0
      BY <1>1, <1>2, <2>2, reltimeEmpty DEF Value
    <3>2. timeref(t).val = i
      BY <1>4, <1>6, <2>2
    <3>3. QED
      BY <3>1, <3>2
  <2>3. CASE s # <<>>
    <3>1. timeref(t).val = x.val + d.val
      BY <1>4, <2>3 DEF Value
    <3>2. QED
      BY <1>6, <2>1, <3>1
  <2>4. QED
    BY <2>2, <2>3
<1>10. QED
  BY <1>8, <1>9

\* As UnixNano it is just that, if it is a number of nanoseconds that fits.
LEMMA BoundIs ==
  ASSUME NEW t, IsTime(t), ~timeref(t).err, Exactly(t) \in US_HIGH..MaxInt
  PROVE  UnixNano(timeref(t).val) = Exactly(t)
<1>1. PICK v, e \in Int : v = timeref(t).val /\ e = Exactly(t) /\ Same(v, e)
  BY timerefIs
<1>2. Wrap(v) \in Int64 /\ Same(Wrap(v), v)
  BY WrapIsSame
<1>3. PICK x \in Int : x = Wrap(v) /\ x \in Int64 /\ Same(x, v)
  BY <1>2, WrapType
<1>4. Same(x, e)
  BY <1>1, <1>3, SameOfSame
<1>5. e \in Int64
  <2>1. PICK u \in Int : u = US_HIGH /\ u >= 0
    <3>1. PICK c, h \in Nat : c = Base * Base /\ h = S_HIGH
      BY BaseFacts
    <3>2. h * c \in Nat
      OBVIOUS
    <3>3. QED
      BY <3>1, <3>2 DEF US_HIGH
  <2>2. e >= u /\ e <= MaxInt /\ MaxInt \in Nat
    BY <1>1, <2>1, BaseFacts
  <2>3. QED
    BY <2>1, <2>2 DEF Int64
<1>6. x = e
  BY <1>3, <1>4, <1>5, SameFits
<1>7. QED
  BY <1>1, <1>3, <1>6 DEF UnixNano

\* A range query has its bounds from its clause, if there is no error.
LEMMA dataInIs ==
  ASSUME NEW c, c.of \in {"in", "statistical", "window"}, ~dataIn(c).err
  PROVE  /\ ~timeref(c.from).err /\ ~timeref(c.to).err
         /\ dataIn(c).val.Start = timeref(c.from).val /\ dataIn(c).val.End = timeref(c.to).val
<1>1. PICK from, to : from = timeref(c.from) /\ to = timeref(c.to)
  OBVIOUS
<1>2. PICK d : d = [DataQuery EXCEPT !.Start = from.val, !.End = to.val]
  OBVIOUS
<1>3. /\ d.Start = from.val /\ d.End = to.val
      /\ {"Start", "End", "Limit", "Streamlimit", "Timeconv", "IsStatistical", "PointWidth", "IsWindow", "Width"} \subseteq DOMAIN d
  BY <1>2 DEF DataQuery
<1>4. PICK in : in = Limited(c, d, {from, to})
  OBVIOUS
<1>5. PICK x : x = in.val
  OBVIOUS
<1>6. x.Start = from.val /\ x.End = to.val /\ (from.err \/ to.err => in.err)
  <2>1. PICK l, conv : l = limit(c.limit) /\ conv = timeconv(c.as)
    OBVIOUS
  <2>2. PICK e : e = [d EXCEPT !.Limit = l.Limit.val, !.Streamlimit = l.Streamlimit.val, !.Timeconv = conv.val]
    OBVIOUS
  <2>3. in = Value(e, Failed({l.Limit, l.Streamlimit, conv} \cup {from, to}))
    BY <1>4, <2>1, <2>2 DEF Limited
  <2>4. from.err \/ to.err => Failed({l.Limit, l.Streamlimit, conv} \cup {from, to})
    BY DEF Failed
  <2>5. e.Start = from.val /\ e.End = to.val
    BY <1>3, <2>2
  <2>6. in.val = e /\ in.err = Failed({l.Limit, l.Streamlimit, conv} \cup {from, to})
    BY <2>3 DEF Value
  <2>7. QED
    BY <1>5, <2>4, <2>5, <2>6
<1>7. DOMAIN x = DOMAIN d
  BY <1>4, <1>5 DEF Limited, Value
<1>8. CASE c.of = "in"
  <2>1. dataIn(c) = in
    BY <1>1, <1>2, <1>4, <1>8 DEF dataIn
  <2>2. QED
    BY <1>1, <1>5, <1>6, <2>1
<1>9. CASE c.of = "statistical"
  <2>1. PICK n, y : n = ParseInt(c.n) /\ y = [x EXCEPT !.IsStatistical = TRUE, !.PointWidth = n.val]
    OBVIOUS
  <2>2. dataIn(c) = Value(y, in.err \/ n.err)
    BY <1>1, <1>2, <1>4, <1>5, <1>9, <2>1 DEF dataIn
  <2>3. y.Start = x.Start /\ y.End = x.End
    BY <1>3, <1>7, <2>1
  <2>4. dataIn(c).val = y /\ dataIn(c).err = (in.err \/ n.err)
    BY <2>2 DEF Value
  <2>5. QED
    BY <1>1, <1>6, <2>3, <2>4
<1>10. CASE c.of = "window"
  <2>1. PICK n : n = ParseReltime(c.n, c.unit)
    OBVIOUS
  <2>2. PICK m, y : m = n.val % (2 * MaxInt + 2) /\ y = [x EXCEPT !.IsWindow = TRUE, !.Width = m]
    OBVIOUS
  <2>3. dataIn(c) = Value(y, in.err \/ n.err)
    BY <1>1, <1>2, <1>4, <1>5, <1>10, <2>1, <2>2 DEF dataIn
  <2>4. y.Start = x.Start /\ y.End = x.End
    BY <1>3, <1>7, <2>2
  <2>5. dataIn(c).val = y /\ dataIn(c).err = (in.err \/ n.err)
    BY <2>3 DEF Value
  <2>6. QED
    BY <1>1, <1>6, <2>4, <2>5
<1>11. QED
  BY <1>8, <1>9, <1>10

\* What is known of the clause of a query that is for no range.
LEMMA OtherKinds ==
  ASSUME NEW c, c.of \in {"before", "after", "changed"}, NEW p, p.QueryType = "data", p.Data = dataClause(c).val
  PROVE  KindOf(p) = c.of
<1>1. CASE c.of = "changed"
  <2>1. PICK x, y, z : x = ParseInt(c.fromgen).val /\ y = ParseInt(c.togen).val /\ z = ParseInt8(c.n).val
    OBVIOUS
  <2>2. PICK d : d = [DataQuery EXCEPT !.Dtype = "changed", !.IsChangedRanges = TRUE,
                        !.FromGen = x, !.ToGen = y, !.Resolution = z]
    OBVIOUS
  <2>3. dataClause(c).val = d
    BY <1>1, <2>1, <2>2 DEF dataClause, dataChanged, Value
  <2>4. d.IsStatistical = FALSE /\ d.IsWindow = FALSE /\ d.IsChangedRanges = TRUE
    BY <2>2 DEF DataQuery
  <2>5. QED
    BY <1>1, <2>3, <2>4 DEF KindOf
<1>2. CASE c.of \in {"before", "after"}
  <2>1. PICK start, l, conv : start = timeref(c.from) /\ l = limit(c.limit) /\ conv = timeconv(c.as)
    OBVIOUS
  <2>2. PICK x, y, z, v : x = start.val /\ y = l.Limit.val /\ z = l.Streamlimit.val /\ v = conv.val
    OBVIOUS
  <2>3. PICK d : d = [DataQuery EXCEPT !.Dtype = c.of, !.Start = x]
    OBVIOUS
  <2>4. PICK e : e = [d EXCEPT !.Limit = y, !.Streamlimit = z, !.Timeconv = v]
    OBVIOUS
  <2>5. dataClause(c) = Limited(c, d, {start})
    BY <1>2, <2>1, <2>2, <2>3 DEF dataClause, dataNearest
  <2>6. Limited(c, d, {start}).val = e
    BY <2>1, <2>2, <2>4 DEF Limited, Value
  <2>7. /\ e.IsStatistical = FALSE /\ e.IsWindow = FALSE /\ e.IsChangedRanges = FALSE /\ e.Dtype = c.of
    BY <2>3, <2>4 DEF DataQuery
  <2>8. QED
    BY <1>2, <2>5, <2>6, <2>7 DEF KindOf
<1>3. QED
  BY <1>1, <1>2

\* The bounds of a range query are what was written, if that is a number of nanoseconds that
\* is not taken for one of a coarser unit.
LEMMA ParsedBounds ==
  ASSUME NEW q, IsQuery(q), NEW p, p = Parse(q), KindOf(p) \in {"in", "stat"}, ~p.Err,
         {Exactly(q.clause.from), Exactly(q.clause.to)} \subseteq US_HIGH..MaxInt
  PROVE  GetParams(p).Begin = Exactly(q.clause.from) /\ GetParams(p).End = Exactly(q.clause.to)
<1>1. PICK c : c = q.clause /\ IsClause(c) /\ p.Data = dataClause(c).val /\ p.Err = dataClause(c).err
  BY ParsedWhere DEF DataKinds
<1>2. p.QueryType = "data"
  BY DEF KindOf
<1>3. c.of \in {"in", "statistical", "window"} /\ IsTime(c.from) /\ IsTime(c.to)
  <2>1. c.of \notin {"before", "after", "changed"}
    BY <1>1, <1>2, OtherKinds
  <2>2. QED
    BY <1>1, <2>1 DEF IsClause
<1>4. dataClause(c) = dataIn(c)
  BY <1>3 DEF dataClause
<1>5. PICK d : d = p.Data /\ d = dataIn(c).val /\ ~dataIn(c).err
  BY <1>1, <1>4
<1>6. ~timeref(c.from).err /\ ~timeref(c.to).err /\ d.Start = timeref(c.from).val /\ d.End = timeref(c.to).val
  BY <1>3, <1>5, dataInIs
<1>7. UnixNano(d.Start) = Exactly(c.from) /\ UnixNano(d.End) = Exactly(c.to)
  BY <1>1, <1>3, <1>6, BoundIs
<1>8. GetParams(p).Begin = UnixNano(d.Start) /\ GetParams(p).End = UnixNano(d.End)
  BY <1>5 DEF GetParams
<1>9. QED
  BY <1>1, <1>7, <1>8

-----------------------------------------------------------------------------
(* What a where clause selects.                                             *)

Selector == [form : {"value", "operator", "script", "refused", "list"}, sel : SUBSET UUIDs]

LEMMA DictIs ==
  ASSUME NEW form \in {"value", "operator", "script", "refused", "list"}, NEW sel \in SUBSET UUIDs
  PROVE  Dict(form, sel) \in Selector /\ Dict(form, sel).form = form /\ Dict(form, sel).sel = sel
BY DEF Dict, Selector

\* A term selects what holds for it, if MongoDB takes it.
LEMMA TermIs ==
  ASSUME NEW t, t.op \in Operators, NEW d, d = whereTerm(t)
  PROVE  /\ d \in Selector /\ (d.form = "value" <=> t.op = "=")
         /\ d.form # "refused" => \A u \in UUIDs : u \in d.sel <=> Holds(t, u)
<1>1. \A tag, vals : Having(tag, vals) \in SUBSET UUIDs
  BY DEF Having
<1>2. CASE t.op \in {"=", "like", "in"}
  <2>1. PICK form \in {"value", "operator"} : d = Dict(form, Having(t.tag, t.vals)) /\ (form = "value" <=> t.op = "=")
    BY <1>2 DEF whereTerm
  <2>2. \A u : Holds(t, u) <=> u \in Having(t.tag, t.vals)
    BY <1>2 DEF Holds
  <2>3. d \in Selector /\ d.form = form /\ d.sel = Having(t.tag, t.vals)
    BY <1>1, <2>1, DictIs
  <2>4. QED
    BY <2>1, <2>2, <2>3
<1>3. CASE t.op = "not in"
  <2>1. d = Dict("operator", UUIDs \ Having(t.tag, t.vals))
    BY <1>3 DEF whereTerm
  <2>2. \A u : Holds(t, u) <=> u \notin Having(t.tag, t.vals)
    BY <1>3 DEF Holds
  <2>3. UUIDs \ Having(t.tag, t.vals) \in SUBSET UUIDs
    OBVIOUS
  <2>4. d \in Selector /\ d.form = "operator" /\ d.sel = UUIDs \ Having(t.tag, t.vals)
    BY <2>1, <2>3, DictIs
  <2>5. QED
    BY <1>3, <2>2, <2>4
<1>4. CASE t.op = "has"
  <2>1. PICK S : S = {u \in UUIDs : t.tag \in DOMAIN TagsOf[u]}
    OBVIOUS
  <2>2. d = Dict("operator", S) /\ S \in SUBSET UUIDs
    BY <1>4, <2>1 DEF whereTerm
  <2>3. \A u : Holds(t, u) <=> t.tag \in DOMAIN TagsOf[u]
    BY <1>4 DEF Holds
  <2>4. d \in Selector /\ d.form = "operator" /\ d.sel = S
    BY <2>2, DictIs
  <2>5. QED
    BY <1>4, <2>1, <2>3, <2>4
<1>5. CASE t.op = "matches"
  <2>1. PICK S : S = UNION {Having(k, t.vals) : k \in UNION {DOMAIN TagsOf[u] : u \in UUIDs}}
    OBVIOUS
  <2>2. d = Dict("script", S) /\ S \in SUBSET UUIDs
    BY <1>1, <1>5, <2>1 DEF whereTerm
  <2>3. ASSUME NEW u \in UUIDs PROVE u \in S <=> Range(TagsOf[u]) \cap t.vals # {}
    <3>1. u \in S <=> \E k \in DOMAIN TagsOf[u] : TagsOf[u][k] \in t.vals
      BY <2>1 DEF Having
    <3>2. QED
      BY <3>1 DEF Range
  <2>4. \A u : Holds(t, u) <=> Range(TagsOf[u]) \cap t.vals # {}
    BY <1>5 DEF Holds
  <2>5. d \in Selector /\ d.form = "script" /\ d.sel = S
    BY <2>2, DictIs
  <2>6. QED
    BY <1>5, <2>3, <2>4, <2>5
<1>6. CASE t.op = "!="
  <2>1. d = Dict("refused", {})
    BY <1>6 DEF whereTerm
  <2>2. d \in Selector /\ d.form = "refused"
    BY <2>1, DictIs
  <2>3. QED
    BY <1>6, <2>2
<1>7. QED
  BY <1>2, <1>3, <1>4, <1>5, <1>6 DEF Operators

\* With not in front of it, what it does not hold for, if it is a value.
LEMMA NegatedIs ==
  ASSUME NEW t, t.op \in Operators, NEW d, d = Negated(whereTerm(t))
  PROVE  /\ d \in Selector
         /\ d.form # "refused" => \A u \in UUIDs : u \in d.sel <=> (t.op = "=" => ~Holds(t, u))
<1>1. PICK e : /\ e = whereTerm(t) /\ e \in Selector /\ (e.form = "value" <=> t.op = "=")
               /\ e.form # "refused" => \A u \in UUIDs : u \in e.sel <=> Holds(t, u)
  BY TermIs
<1>2. e.form # "list"
  BY <1>1 DEF whereTerm, Dict, Operators
<1>3. e.form \in {"value", "operator", "script", "refused"} /\ e.sel \in SUBSET UUIDs
  BY <1>1, <1>2 DEF Selector
<1>4. CASE e.form = "value"
  <2>1. d = Dict("operator", UUIDs \ e.sel) /\ UUIDs \ e.sel \in SUBSET UUIDs
    BY <1>1, <1>4 DEF Negated
  <2>2. d \in Selector /\ d.sel = UUIDs \ e.sel
    BY <2>1, DictIs
  <2>3. QED
    BY <1>1, <1>4, <2>2
<1>5. CASE e.form = "operator"
  <2>1. d = Dict("operator", UUIDs) /\ UUIDs \in SUBSET UUIDs
    BY <1>1, <1>5 DEF Negated
  <2>2. d \in Selector /\ d.sel = UUIDs
    BY <2>1, DictIs
  <2>3. QED
    BY <1>1, <1>5, <2>2
<1>6. CASE e.form \in {"script", "refused"}
  <2>1. d = Dict("refused", {})
    BY <1>1, <1>6 DEF Negated
  <2>2. QED
    BY <2>1, DictIs
<1>7. QED
  BY <1>3, <1>4, <1>5, <1>6

\* What is joined is refused if a part is; with and it selects less, and more with or.
LEMMA JoinedIs ==
  ASSUME NEW d \in Selector, NEW join, NEW e \in Selector, NEW g, g = Joined(d, join, e)
  PROVE  /\ g \in Selector
         /\ g.form # "refused" => /\ d.form # "refused" /\ e.form # "refused"
                                  /\ \A u : u \in g.sel <=> IF join = "and" THEN u \in d.sel /\ u \in e.sel
                                                                           ELSE u \in d.sel \/ u \in e.sel
<1>1. d.sel \in SUBSET UUIDs /\ e.sel \in SUBSET UUIDs
  BY DEF Selector
<1>2. PICK S : S = IF join = "and" THEN d.sel \cap e.sel ELSE d.sel \cup e.sel
  OBVIOUS
<1>3. PICK form : form = IF "refused" \in {d.form, e.form} THEN "refused" ELSE "list"
  OBVIOUS
<1>4. g = Dict(form, S)
  BY <1>2, <1>3 DEF Joined
<1>5. S \in SUBSET UUIDs /\ form \in {"value", "operator", "script", "refused", "list"}
  BY <1>1, <1>2, <1>3
<1>6. g \in Selector /\ g.form = form /\ g.sel = S
  BY <1>4, <1>5, DictIs
<1>7. QED
  BY <1>2, <1>3, <1>6

\* Terms are joined from the left.
LEMMA WhereRuns ==
  ASSUME NEW E, NEW s \in Seq(E), \A e \in E : whereTerm(e) \in Selector, NEW b0 \in Selector
  PROVE  \E h : /\ h \in [0..Len(s) -> Selector] /\ h[0] = b0
                /\ \A k \in 1..Len(s) : h[k] = Joined(h[k - 1], s[k].join, whereTerm(s[k]))
                /\ FoldLeft(LAMBDA d, t : Joined(d, t.join, whereTerm(t)), b0, s) = h[Len(s)]
<1> DEFINE B == Selector
           n == Len(s)
           G == [p \in (1..n) \X B |-> Joined(p[2], s[p[1]].join, whereTerm(s[p[1]]))]
<1>1. n \in Nat /\ DOMAIN s = 1..n /\ \A i \in 1..n : s[i] \in E
  OBVIOUS
<1>2. IsStep(n, B, b0, G)
  <2>1. \A k \in 1..n : \A a \in B : Joined(a, s[k].join, whereTerm(s[k])) \in B
    BY <1>1, JoinedIs
  <2> HIDE DEF B
  <2>2. b0 \in B
    BY DEF B
  <2>3. QED
    BY <1>1, <2>1, <2>2 DEF IsStep
<1>3. PICK it : Unwound(it, n, B, b0, G)
  BY <1>2, UnwindingExists
<1>4. it = [t \in SUBSET DOMAIN s |->
              IF t = {} THEN b0 ELSE Joined(it[t \ {Max(t)}], s[Max(t)].join, whereTerm(s[Max(t)]))]
  <2>1. ASSUME NEW t \in SUBSET (1..n), t # {}
        PROVE  it[t] = Joined(it[t \ {Max(t)}], s[Max(t)].join, whereTerm(s[Max(t)]))
    <3>1. Max(t) \in 1..n /\ t \ {Max(t)} \in SUBSET (1..n)
      BY <1>1, <2>1, Greatest
    <3>2. it[t \ {Max(t)}] \in B /\ it[t] = G[<<Max(t), it[t \ {Max(t)}]>>]
      BY <1>3, <2>1, <3>1 DEF Unwound
    <3>3. QED
      BY <3>1, <3>2
  <2> HIDE DEF G, B
  <2>2. QED
    BY <1>1, <1>3, <2>1 DEF Unwound
<1>5. PICK c : /\ c = [t \in SUBSET DOMAIN s |->
                         IF t = {} THEN b0 ELSE Joined(c[t \ {Max(t)}], s[Max(t)].join, whereTerm(s[Max(t)]))]
               /\ FoldLeft(LAMBDA d, t : Joined(d, t.join, whereTerm(t)), b0, s) = c[DOMAIN s]
  BY <1>4 DEF FoldLeft, MapThenFoldSet
<1>6. Unwinds(c, n, B, b0, G)
  <2>1. c[{}] = b0
    BY <1>5
  <2>2. ASSUME NEW t \in SUBSET (1..n), t # {}, c[t \ {Max(t)}] \in B
        PROVE  c[t] = G[<<Max(t), c[t \ {Max(t)}]>>]
    <3>1. Max(t) \in 1..n
      BY <1>1, <2>2, Greatest
    <3>2. c[t] = Joined(c[t \ {Max(t)}], s[Max(t)].join, whereTerm(s[Max(t)]))
      BY <1>1, <1>5, <2>2
    <3>3. QED
      BY <2>2, <3>1, <3>2
  <2>3. QED
    BY <2>1, <2>2 DEF Unwinds
<1>7. PICK h : Runs(h, n, B, b0, G) /\ c[1..n] = h[n]
  <2> HIDE DEF B, n, G
  <2>1. QED
    BY <1>2, <1>6, UnwindsToRun
<1>8. ASSUME NEW k \in 1..n PROVE h[k] = Joined(h[k - 1], s[k].join, whereTerm(s[k]))
  <2>1. h \in [0..n -> B] /\ h[k] = G[<<k, h[k - 1]>>]
    BY <1>7 DEF Runs
  <2>2. h[k - 1] \in B
    <3> HIDE DEF G, B
    <3>1. n \in Nat /\ k - 1 \in 0..n
      BY <1>1
    <3>2. QED
      BY <2>1, <3>1
  <2>3. QED
    BY <2>1, <2>2
<1>9. QED
  BY <1>1, <1>5, <1>7, <1>8 DEF Runs

-----------------------------------------------------------------------------
(* What it means.                                                           *)

\* What the first n terms of a clause mean.
MeantUpTo(w, n, u) ==
  \E k \in 1..n : /\ w[k].join # "and" /\ Counts(w[k], u)
                  /\ \A i \in (k + 1)..n : w[i].join = "and" => Holds(w[i], u)

LEMMA MeantFirst ==
  ASSUME NEW w, NEW u, w[1].join \in {"first", "not"}
  PROVE  MeantUpTo(w, 1, u) <=> Counts(w[1], u)
<1>1. \A k \in 1..1 : k = 1
  OBVIOUS
<1>2. 1 \in 1..1 /\ (1 + 1)..1 = {}
  OBVIOUS
<1>3. QED
  BY <1>1, <1>2 DEF MeantUpTo

LEMMA MeantNext ==
  ASSUME NEW w, NEW u, NEW n \in Nat \ {0}, w[n + 1].join \in {"and", "or"}
  PROVE  MeantUpTo(w, n + 1, u) <=> IF w[n + 1].join = "and" THEN MeantUpTo(w, n, u) /\ Holds(w[n + 1], u)
                                                             ELSE MeantUpTo(w, n, u) \/ Holds(w[n + 1], u)
<1> DEFINE Kept(k, m) == \A i \in (k + 1)..m : w[i].join = "and" => Holds(w[i], u)
           Alt(k) == w[k].join # "and" /\ Counts(w[k], u)
<1>1. \A m : MeantUpTo(w, m, u) <=> \E k \in 1..m : Alt(k) /\ Kept(k, m)
  BY DEF MeantUpTo
<1>2. ASSUME NEW k \in 1..n
      PROVE  Kept(k, n + 1) <=> Kept(k, n) /\ (w[n + 1].join = "and" => Holds(w[n + 1], u))
  <2>1. n + 1 \in (k + 1)..(n + 1) /\ \A i \in (k + 1)..n : i \in (k + 1)..(n + 1)
    OBVIOUS
  <2>2. \A i \in (k + 1)..(n + 1) : i = n + 1 \/ i \in (k + 1)..n
    OBVIOUS
  <2>3. QED
    BY <2>1, <2>2
<1>3. Kept(n + 1, n + 1)
  <2>1. (n + 1 + 1)..(n + 1) = {}
    OBVIOUS
  <2>2. QED
    BY <2>1
<1>4. \A k : k \in 1..(n + 1) <=> k \in 1..n \/ k = n + 1
  OBVIOUS
<1> HIDE DEF Kept
<1>5. CASE w[n + 1].join = "and"
  <2>1. ~Alt(n + 1)
    BY <1>5
  <2>2. QED
    BY <1>1, <1>2, <1>4, <1>5, <2>1
<1>6. CASE w[n + 1].join = "or"
  <2>1. Alt(n + 1) <=> Holds(w[n + 1], u)
    BY <1>6 DEF Counts
  <2> HIDE DEF Alt
  <2>2. MeantUpTo(w, n + 1, u) <=> MeantUpTo(w, n, u) \/ Alt(n + 1)
    BY <1>1, <1>2, <1>3, <1>4, <1>6
  <2>3. QED
    BY <1>6, <2>1, <2>2
<1>7. QED
  BY <1>5, <1>6

\* A clause that is not refused selects the streams it means.
LEMMA WhereIs ==
  ASSUME NEW q, IsWhere(q.where), whereList(q.where).form # "refused", NEW u \in UUIDs
  PROVE  u \in whereList(q.where).sel <=> Meant(q, u)
<1>1. PICK w, E : w = q.where /\ E = Range(w) /\ w \in Seq(E) /\ w # <<>>
  BY DEF IsWhere
<1>2. PICK n \in Nat : Len(w) = n + 1
  <2>1. Len(w) \in Nat \ {0}
    BY <1>1, Tails
  <2>2. Len(w) - 1 \in Nat /\ Len(w) = (Len(w) - 1) + 1
    BY <2>1
  <2>3. QED
    BY <2>2
<1>3. PICK s : /\ s = Tail(w) /\ s \in Seq(E) /\ Len(s) = n /\ Head(w) = w[1] /\ DOMAIN w = 1..(n + 1)
               /\ \A i \in 1..n : s[i] = w[i + 1]
  <2>1. /\ DOMAIN w = 1..Len(w) /\ Head(w) = w[1] /\ Tail(w) \in Seq(E) /\ Len(Tail(w)) = Len(w) - 1
        /\ \A i \in 1..(Len(w) - 1) : Tail(w)[i] = w[i + 1]
    BY <1>1, Tails
  <2>2. Len(w) - 1 = n
    BY <1>2
  <2>3. QED
    BY <1>2, <2>1, <2>2
<1>4. \A i \in 1..(n + 1) : w[i].op \in Operators /\ (w[i].join \in IF i = 1 THEN {"first", "not"} ELSE {"and", "or"})
  BY <1>1, <1>3 DEF IsWhere
<1>5. \A e \in E : e.op \in Operators /\ whereTerm(e) \in Selector
  <2>1. \A e \in E : e.op \in Operators
    BY <1>1, <1>3, <1>4 DEF Range
  <2>2. QED
    BY <2>1, TermIs
<1>6. PICK b0 : b0 = IF w[1].join = "not" THEN Negated(whereTerm(w[1])) ELSE whereTerm(w[1])
  OBVIOUS
<1>7. b0 \in Selector /\ (b0.form # "refused" => (u \in b0.sel <=> Counts(w[1], u)))
  <2>1. w[1].op \in Operators
    <3>1. 1 \in 1..(n + 1)
      OBVIOUS
    <3>2. QED
      BY <1>4, <3>1
  <2>2. CASE w[1].join = "not"
    BY <1>6, <2>1, <2>2, NegatedIs DEF Counts
  <2>3. CASE w[1].join # "not"
    BY <1>6, <2>1, <2>3, TermIs DEF Counts
  <2>4. QED
    BY <2>2, <2>3
<1>8. PICK h : /\ h \in [0..n -> Selector] /\ h[0] = b0
               /\ \A k \in 1..n : h[k] = Joined(h[k - 1], s[k].join, whereTerm(s[k]))
               /\ FoldLeft(LAMBDA d, t : Joined(d, t.join, whereTerm(t)), b0, s) = h[n]
  <2>1. s \in Seq(E) /\ (\A e \in E : whereTerm(e) \in Selector) /\ b0 \in Selector /\ Len(s) = n
    BY <1>3, <1>5, <1>7
  <2>2. \E h : /\ h \in [0..Len(s) -> Selector] /\ h[0] = b0
               /\ \A k \in 1..Len(s) : h[k] = Joined(h[k - 1], s[k].join, whereTerm(s[k]))
               /\ FoldLeft(LAMBDA d, t : Joined(d, t.join, whereTerm(t)), b0, s) = h[Len(s)]
    BY <2>1, WhereRuns
  <2>3. QED
    BY <2>1, <2>2
<1>9. whereList(w) = h[n]
  BY <1>3, <1>6, <1>8 DEF whereList
<1> DEFINE P == {k \in 0..n : h[k].form # "refused" => (u \in h[k].sel <=> MeantUpTo(w, k + 1, u))}
<1>10. 0 \in P
  <2>1. w[1].join \in {"first", "not"}
    <3>1. 1 \in 1..(n + 1)
      OBVIOUS
    <3>2. QED
      BY <1>4, <3>1
  <2>2. MeantUpTo(w, 1, u) <=> Counts(w[1], u)
    BY <2>1, MeantFirst
  <2>3. 0 + 1 = 1 /\ 0 \in 0..n
    OBVIOUS
  <2>4. QED
    BY <1>7, <1>8, <2>2, <2>3
<1>11. ASSUME NEW k \in 1..n, k - 1 \in P PROVE k \in P
  <2>1. PICK m \in Nat : m + 1 = k /\ m = k - 1 /\ m \in 0..n /\ k \in 0..n /\ k \in Nat \ {0} /\ k + 1 \in 1..(n + 1) /\ k + 1 # 1
    OBVIOUS
  <2>2. PICK t : t = w[k + 1] /\ t = s[k] /\ t.op \in Operators /\ t.join \in {"and", "or"}
    BY <1>3, <1>4, <2>1
  <2>3. PICK d, e, g : d = h[m] /\ e = whereTerm(t) /\ g = h[k] /\ d \in Selector /\ g = Joined(d, t.join, e)
    BY <1>8, <2>1, <2>2
  <2>4. e \in Selector /\ (e.form # "refused" => (u \in e.sel <=> Holds(t, u)))
    BY <2>2, <2>3, TermIs
  <2>5. g.form # "refused" => /\ d.form # "refused" /\ e.form # "refused"
                              /\ u \in g.sel <=> IF t.join = "and" THEN u \in d.sel /\ u \in e.sel
                                                                   ELSE u \in d.sel \/ u \in e.sel
    BY <2>3, <2>4, JoinedIs
  <2>6. d.form # "refused" => (u \in d.sel <=> MeantUpTo(w, k, u))
    BY <1>11, <2>1, <2>3
  <2>7. MeantUpTo(w, k + 1, u) <=> IF t.join = "and" THEN MeantUpTo(w, k, u) /\ Holds(t, u)
                                                   ELSE MeantUpTo(w, k, u) \/ Holds(t, u)
    BY <2>1, <2>2, MeantNext
  <2>8. g.form # "refused" => (u \in g.sel <=> MeantUpTo(w, k + 1, u))
    BY <2>4, <2>5, <2>6, <2>7
  <2>9. QED
    BY <2>1, <2>3, <2>8
<1>12. n \in P
  <2> HIDE DEF P
  <2>1. 0..n \subseteq P
    BY <1>10, <1>11, UpTo
  <2>2. n \in 0..n
    OBVIOUS
  <2>3. QED
    BY <2>1, <2>2
<1>13. MeantUpTo(w, n + 1, u) <=> Meant(q, u)
  <2>1. DOMAIN q.where = 1..(n + 1) /\ Len(q.where) = n + 1 /\ w = q.where
    BY <1>1, <1>2, <1>3
  <2>2. QED
    BY <2>1 DEF MeantUpTo, Meant
<1>14. QED
  BY <1>1, <1>9, <1>12, <1>13
-----------------------------------------------------------------------------
(* What a step of a worker makes of its job.                                *)

Fields == {"pc", "q", "kind", "params", "uuids", "req", "ranges", "copies", "series", "result",
           "err", "asked", "had"}

IsJob(j) == Fields \subseteq DOMAIN j

\* From j to k, only some fields change.
Only(fs, j, k) == IsJob(k) /\ \A f \in Fields \ fs : k[f] = j[f]

ByChains == {"in", "stat", "before", "after"}

\* The bounds of a query are what was written.
BoundsAsWritten(j) ==
  {Exactly(j.q.clause.from), Exactly(j.q.clause.to)} \subseteq US_HIGH..MaxInt =>
    j.params.Begin = Exactly(j.q.clause.from) /\ j.params.End = Exactly(j.q.clause.to)

\* The range between them, in nanoseconds.
InOrder(j) ==
  LET b == InNanoseconds(j.params.Begin).val
      e == InNanoseconds(j.params.End).val
  IN  [Start |-> Early(b, e), End |-> Late(b, e)]

Asks(j, k) ==
  /\ j.pc = "idle" /\ IsJob(k)
  /\ k.pc \in {"done", "find"} /\ k.kind \in DataKinds \cup {"none", "tags", "distinct"}
  /\ IF k.pc = "find" THEN k.kind # "none" ELSE k.err \/ k.kind = "none"
  /\ k.uuids = <<>> /\ k.ranges = <<>> /\ k.series = <<>> /\ k.result = <<>> /\ k.copies = 0
  /\ k.req = NoRange /\ k.asked = NoRange /\ k.had = data /\ k.err \in BOOLEAN
  /\ HasNumbers(k.params)
  /\ k.kind \in DataKinds => IsWhere(k.q.where) /\ k.params.Where = whereList(k.q.where)
  /\ k.kind \in {"in", "stat"} /\ k.pc = "find" => BoundsAsWritten(k)

FindsTags(j, k) ==
  /\ j.pc = "find" /\ j.kind = "tags" /\ Only({"uuids", "pc"}, j, k)
  /\ k.uuids \in SetToSeqs(j.params.Where.sel \cap docs)
  /\ k.pc = IF k.uuids = <<>> THEN "done" ELSE "canread"

FindsDistinct(j, k) ==
  j.pc = "find" /\ j.kind = "distinct" /\ Only({"result", "pc"}, j, k) /\ k.pc = "done"

\* Of the streams that match, some that keep to the limit, or all if there is none.
Chosen(j, us) ==
  LET n == j.params.StreamLimit
  IN  /\ \A i \in DOMAIN us : us[i] \in j.params.Where.sel /\ \A m \in DOMAIN us : us[i] = us[m] => i = m
      /\ IF n > 0 THEN Len(us) <= n ELSE j.params.Where.sel \cap docs \subseteq Range(us)

Prepares(j, k) ==
  /\ j.pc = "find" /\ j.kind \in DataKinds /\ Only({"uuids", "req", "asked", "pc"}, j, k)
  /\ k.uuids \in Seq(UUIDs) /\ k.req \in TimeRange /\ k.asked = k.req /\ k.asked = InOrder(j)
  /\ k.pc = "done" <=> k.uuids = <<>>
  /\ j.params.Where.form # "refused" /\ Chosen(j, k.uuids)
  /\ k.pc \in {"done", IF j.kind \in {"in", "stat"} THEN "uri" ELSE "streams"}

Stops(j, k) ==
  /\ j.pc \notin {"idle", "canread"} /\ Only({"result", "err", "pc"}, j, k)
  /\ k.pc = "done" /\ k.err = TRUE /\ k.result \in {j.result, <<>>}

Panics(j, k) == j.pc \in {"uri", "read"} /\ Only({"pc"}, j, k) /\ k.pc = "panic"

\* Group b is readable, or not.
Groups(j, k, b) ==
  /\ j.pc = "canread" /\ Only({"uuids", "result", "pc"}, j, k) /\ k.uuids = Tail(j.uuids)
  /\ k.pc = IF Len(j.uuids) = 1 THEN "done" ELSE "canread"
  /\ k.result = IF b THEN Append(j.result, Head(j.uuids)) ELSE j.result

Looks(j, k) == j.pc = "uri" /\ Only({"pc"}, j, k) /\ k.pc = "lookup"

Access(j, k) ==
  /\ j.pc = "lookup" /\ Only({"ranges", "pc"}, j, k) /\ k.pc = "archival"
  /\ k.ranges \in GetAccessDOTChains(Head(j.uuids))

Archival(j, k) ==
  /\ j.pc = "archival" /\ Only({"ranges", "pc"}, j, k) /\ k.pc = "store"
  /\ k.ranges \in GetArchivalDOTChains(Head(j.uuids), j.ranges)

\* The ranges of a stream are good: they are in the cache or were just looked up.
Good(j, r) == \/ j.pc = "lookup" /\ Cached(Head(j.uuids)) /\ r = cache[Head(j.uuids)].ranges
              \/ j.pc = "store" /\ r = j.ranges

Narrowed(j, r) == FoldLeft(Overlap, [rng |-> j.req, n |-> 0], r)

Narrows(j, k) ==
  /\ j.kind \in {"in", "stat"} /\ Only({"result", "ranges", "req", "copies", "pc"}, j, k)
  /\ Good(j, k.ranges) /\ k.pc = "read"
  /\ k.result = Append(j.result, TS(Head(j.uuids), <<>>, k.ranges))
  /\ k.req = Narrowed(j, k.ranges).rng /\ k.copies = Narrowed(j, k.ranges).n

Limits(j, k) ==
  /\ j.kind \notin {"in", "stat"} /\ Only({"ranges", "pc"}, j, k)
  /\ Good(j, k.ranges) /\ k.pc = "mask"

LEMMA NarrowedIs ==
  ASSUME NEW j, j.req \in TimeRange, NEW s \in Seq(TimeRange)
  PROVE  /\ Narrowed(j, s).rng \in TimeRange /\ Narrowed(j, s).n \in Nat
         /\ Inside(Narrowed(j, s).rng, j.req)
         /\ Narrowed(j, s).n > 0 => \E r \in Range(s) : Inside(Narrowed(j, s).rng, r)
<1>1. PICK q : q = j.req /\ q \in TimeRange
  OBVIOUS
<1>2. PICK b0 : b0 = [rng |-> q, n |-> 0]
  OBVIOUS
<1>3. PICK o : o = FoldLeft(Overlap, b0, s)
  OBVIOUS
<1>4. o.rng \in TimeRange /\ o.n \in Nat /\ Inside(o.rng, q) /\ (o.n > 0 => InOneOf(o.rng, s))
  BY <1>1, <1>2, <1>3, OverlapIs
<1>5. Narrowed(j, s) = o
  BY <1>1, <1>2, <1>3 DEF Narrowed
<1>6. QED
  BY <1>1, <1>4, <1>5 DEF InOneOf

\* The next stream, if there is one.
Goes(j, k, pc) ==
  k.uuids = Tail(j.uuids) /\ k.ranges = <<>> /\ k.pc = IF Len(j.uuids) = 1 THEN "done" ELSE pc

Leaves(j, k) ==
  j.pc = "read" /\ j.copies = 0 /\ Only({"uuids", "ranges", "pc"}, j, k) /\ Goes(j, k, "uri")

Extends(j, k) ==
  /\ j.pc = "read" /\ j.copies > 0 /\ StreamExists(Head(j.uuids)) /\ Only({"copies", "result"}, j, k)
  /\ k.copies = j.copies - 1
  /\ k.result = [j.result EXCEPT ![Len(j.result)].recs = Limit(j, @ \o Fetched(j, Head(j.uuids)))]

\* One stream is found in BtrDB, or skipped.
Skips(j, k, found) ==
  /\ j.pc = "streams" /\ Only({"uuids", "series", "pc"}, j, k)
  /\ found = j.series \/ (StreamExists(Head(j.uuids)) /\ found = Append(j.series, Head(j.uuids)))
  /\ k.uuids = IF Len(j.uuids) = 1 THEN found ELSE Tail(j.uuids)
  /\ k.series = IF Len(j.uuids) = 1 THEN <<>> ELSE found
  /\ k.pc = IF Len(j.uuids) > 1 THEN "streams" ELSE IF found = <<>> THEN "done" ELSE "nearest"

Changes1(j, k) ==
  /\ j.pc = "nearest" /\ j.kind = "changed" /\ Only({"uuids", "ranges", "result", "pc"}, j, k)
  /\ Goes(j, k, "nearest")

\* What nearest gives, and the series with it.
Point(j) == Nearest(Head(j.uuids), From(j), j.kind = "before")
With(j) == Append(j.series, TS(Head(j.uuids), Point(j), <<>>))

GoesOn(j, k) ==
  /\ j.pc = "nearest" /\ j.kind # "changed" /\ Point(j) # <<>> /\ Tail(j.uuids) # <<>>
  /\ Only({"uuids", "series"}, j, k) /\ k.series = With(j) /\ k.uuids = Tail(j.uuids)

\* The series that were found go on to be masked.
Masks(j, k) ==
  /\ j.pc = "nearest" /\ j.kind # "changed" /\ Only({"uuids", "series", "pc"}, j, k)
  /\ k.series = j.series \/ (Point(j) # <<>> /\ k.series = With(j))
  /\ k.uuids = [i \in DOMAIN k.series |-> k.series[i].uuid]
  /\ k.pc = IF k.series = <<>> THEN "done" ELSE "uri"

MasksOne(j, k) ==
  /\ j.pc = "mask" /\ Only({"uuids", "ranges", "series", "result", "pc"}, j, k) /\ Goes(j, k, "uri")
  /\ k.series = Tail(j.series)
  /\ k.result = Append(j.result, TS(Head(j.series).uuid, Masked(Head(j.series).recs, j.ranges), j.ranges))

\* Whether a group counts as readable.
Reads(j, b) ==
  LET u == Head(j.uuids)
  IN  \/ canread[u] # "none" /\ b = (canread[u] = "yes")
      \/ canread[u] = "none" /\ b = BuildAnyChain(u)
      \/ b = FALSE /\ faults' > faults

Looking(j, k) == Looks(j, k) \/ Access(j, k) \/ Archival(j, k) \/ Narrows(j, k) \/ Limits(j, k)

Finding(j, k) == FindsTags(j, k) \/ FindsDistinct(j, k) \/ Prepares(j, k)

Reading(j, k) ==
  \/ Leaves(j, k) \/ Extends(j, k) \/ Changes1(j, k) \/ GoesOn(j, k) \/ Masks(j, k) \/ MasksOne(j, k)
  \/ \E found : Skips(j, k, found)

JobStep(j, k) ==
  \/ Asks(j, k) \/ (j.pc = "done" /\ k = NoJob) \/ Finding(j, k)
  \/ \E b \in BOOLEAN : Groups(j, k, b) /\ Reads(j, b)
  \/ Looking(j, k) \/ Reading(j, k) \/ Stops(j, k) \/ Panics(j, k)
-----------------------------------------------------------------------------
(* The types of a job, and its steps.                                       *)

PCs == {"idle", "find", "canread", "uri", "lookup", "archival", "store", "read", "streams",
        "nearest", "mask", "done", "panic"}

\* Where a worker has a stream at hand.
AtHand == {"canread", "uri", "lookup", "archival", "store", "read", "streams", "nearest", "mask"}

Serie == [uuid : UUIDs, recs : Seq(Stored), ranges : {<<>>}]

\* The streams still to do are those of the series still to mask.
Paired(j) ==
  /\ j.series \in Seq(Serie) /\ Len(j.series) = Len(j.uuids)
  /\ \A i \in DOMAIN j.series : j.uuids[i] = j.series[i].uuid

\* Which kinds of queries get where.
KindsAt(j) ==
  /\ j.pc = "canread" => j.kind = "tags"
  /\ j.pc \in {"uri", "lookup", "archival", "store"} => j.kind \in ByChains
  /\ j.pc = "read" => j.kind \in {"in", "stat"}
  /\ j.pc \in {"streams", "nearest"} => j.kind \in {"before", "after", "changed"}
  /\ j.pc = "mask" => j.kind \in {"before", "after"}

HasType(j) ==
  /\ IsJob(j) /\ j.pc \in PCs
  /\ j.pc \in AtHand => j.uuids # <<>>
  /\ j.uuids \in Seq(UUIDs) /\ j.ranges \in Seq(TimeRange)
  /\ j.req \in TimeRange /\ j.copies \in Nat /\ j.err \in BOOLEAN

Asked(j) ==
  /\ j.kind \in DataKinds \cup {"none", "tags", "distinct"}
  /\ HasNumbers(j.params)

\* A job with the types and what else its next step relies on.
Typed(j) ==
  /\ HasType(j) /\ KindsAt(j)
  /\ j.pc # "idle" => Asked(j)
  /\ j.pc = "find" => j.kind # "none" /\ j.series = <<>>
  /\ j.pc = "streams" => j.series \in Seq(DOMAIN data)
  /\ j.pc = "nearest" => j.uuids \in Seq(DOMAIN data) /\ j.series \in Seq(Serie)
  /\ j.pc \in {"uri", "lookup", "archival", "store", "mask"} /\ j.kind \in {"before", "after"} => Paired(j)

\* The world around the workers.
Dots ==
  /\ registry \in Seq(SUBSET DOTs) /\ Len(registry) \in 1..(load.changes + 1)
  /\ cache \in [Streams -> [ranges : Seq(TimeRange), ttl : 0..Expiry]]
  /\ canread \in [Streams -> {"none", "yes", "no"}]

Store ==
  /\ docs \subseteq UUIDs /\ mapped \subseteq docs /\ DOMAIN data \subseteq mapped
  /\ \A u \in DOMAIN data : data[u] \in Seq(Stored)
  /\ feed \in [UUIDs -> Seq(Stored)]

World == load \in Loads /\ Dots /\ Store /\ down \in BOOLEAN /\ faults \in 0..load.faults

Types == World /\ DOMAIN job = Workers /\ \A w \in Workers : Typed(job[w])

-----------------------------------------------------------------------------
(* Each action is one of these steps.                                       *)

LEMMA ConvertedIs ==
  ASSUME NEW t \in Int
  PROVE  InNanoseconds(t) \in Returned
<1>1. GuessTimeUnit(t) \in UnitOfTime /\ UOT_NS \in UnitOfTime
  <2>1. GuessTimeUnit(t) \in {UOT_NS, UOT_US, UOT_MS, UOT_S}
    <3>1. S_HIGH \in Int /\ MS_HIGH \in Int /\ US_HIGH \in Int
      <4>1. PICK b, s \in Int : b = Base /\ s = S_HIGH
        BY UnitAssumption
      <4>2. PICK c \in Int : c = b * b
        OBVIOUS
      <4>3. s * b \in Int /\ s * c \in Int
        OBVIOUS
      <4>4. QED
        BY <4>1, <4>2, <4>3 DEF MS_HIGH, US_HIGH
    <3>2. PICK m, u \in Int : m = MS_HIGH /\ u = US_HIGH
      BY <3>1
    <3>3. QED
      BY <3>1, <3>2 DEF GuessTimeUnit
  <2>2. QED
    BY <2>1 DEF UnitOfTime
<1>2. QED
  BY <1>1, ConvertType DEF InNanoseconds

\* A job is stopped.
StopIs(i, j, k) == k = [j EXCEPT !.pc = "done", !.err = TRUE] /\ (j = i \/ j = [i EXCEPT !.result = <<>>])

LEMMA StopIsStep ==
  ASSUME NEW i, IsJob(i), i.pc \notin {"idle", "canread"}, NEW j, NEW k, StopIs(i, j, k)
  PROVE  JobStep(i, k)
<1>1. Stops(i, k)
  BY DEF StopIs, IsJob, Only, Fields, Stops
<1>2. QED
  BY <1>1 DEF JobStep

LEMMA PanicIsStep ==
  ASSUME NEW w, IsJob(job[w]), job[w].pc \in {"uri", "read"}, Panic(w)
  PROVE  \E k : Becomes(w, k) /\ JobStep(job[w], k)
<1>1. PICK k : k = [job[w] EXCEPT !.pc = "panic"]
  OBVIOUS
<1>2. Panics(job[w], k)
  BY <1>1 DEF Panics, IsJob, Only, Fields
<1>3. QED
  BY <1>1, <1>2 DEF Panic, JobStep

LEMMA AskIsStep ==
  ASSUME Types, NEW w \in Workers, NEW q \in load.queries[w], Ask(w, q)
  PROVE  \E k : Becomes(w, k) /\ JobStep(job[w], k)
<1>1. IsQuery(q)
  BY ApiAssumption DEF Types, World
<1>2. PICK p : /\ p = Parse(q)
               /\ Becomes(w, [NoJob EXCEPT !.q = q, !.kind = KindOf(p), !.params = GetParams(p), !.had = data,
                                !.pc = IF p.Err \/ KindOf(p) = "none" THEN "done" ELSE "find",
                                !.err = p.Err])
  BY DEF Ask
<1>3. PICK k : k = [NoJob EXCEPT !.q = q, !.kind = KindOf(p), !.params = GetParams(p), !.had = data,
                                !.pc = IF p.Err \/ KindOf(p) = "none" THEN "done" ELSE "find",
                                !.err = p.Err]
  OBVIOUS
<1>4. /\ IsJob(k) /\ k.kind = KindOf(p) /\ k.params = GetParams(p) /\ k.had = data /\ k.err = p.Err
      /\ k.pc = IF p.Err \/ KindOf(p) = "none" THEN "done" ELSE "find"
      /\ k.uuids = <<>> /\ k.ranges = <<>> /\ k.series = <<>> /\ k.result = <<>> /\ k.copies = 0
      /\ k.req = NoRange /\ k.asked = NoRange
  BY <1>3 DEF NoJob, IsJob, Fields
<1>a. k.q = q
  BY <1>3 DEF NoJob
<1>b. KindOf(p) \in DataKinds => IsWhere(q.where) /\ GetParams(p).Where = whereList(q.where)
  BY <1>1, <1>2, ParsedWhere
<1>5. /\ p.Err \in BOOLEAN /\ KindOf(p) \in DataKinds \cup {"none", "tags", "distinct"}
      /\ HasNumbers(GetParams(p))
  BY <1>1, <1>2, ParsedRight
<1>c. k.kind \in {"in", "stat"} /\ k.pc = "find" => BoundsAsWritten(k)
  BY <1>1, <1>2, <1>4, <1>a, ParsedBounds DEF BoundsAsWritten
<1>6. job[w].pc = "idle"
  BY DEF Ask, At
<1>7. Asks(job[w], k)
  BY <1>4, <1>5, <1>6, <1>a, <1>b, <1>c DEF Asks
<1>8. QED
  BY <1>2, <1>3, <1>7 DEF JobStep

LEMMA AnsweredIsStep ==
  ASSUME NEW w \in Workers, Answered(w)
  PROVE  \E k : Becomes(w, k) /\ JobStep(job[w], k)
BY DEF Answered, At, JobStep

LEMMA FirstOf ==
  ASSUME NEW E, NEW s \in Seq(E), NEW n \in Int, n > 0, Len(s) > n
  PROVE  /\ SubSeq(s, 1, n) \in Seq(E) /\ SubSeq(s, 1, n) # <<>> /\ Len(SubSeq(s, 1, n)) = n
         /\ DOMAIN SubSeq(s, 1, n) = 1..n /\ \A i \in 1..n : SubSeq(s, 1, n)[i] = s[i] /\ i \in DOMAIN s
<1>1. PICK m \in Nat : m = Len(s)
  OBVIOUS
<1>2. \A i \in 1..n : i \in 1..Len(s)
  BY <1>1
<1>3. \A i \in 1..n : s[i] \in E
  BY <1>2, ElementOfSeq
<1>4. PICK t : t = SubSeq(s, 1, n)
  OBVIOUS
<1>5. /\ t \in Seq(E) /\ Len(t) = IF 1 <= n THEN n - 1 + 1 ELSE 0
      /\ \A i \in 1..(n - 1 + 1) : t[i] = s[1 + i - 1]
  BY <1>3, <1>4, SubSeqProperties
<1>6. Len(t) = n /\ n - 1 + 1 = n /\ \A i \in 1..n : 1 + i - 1 = i
  BY <1>5
<1>7. DOMAIN t = 1..n /\ t # <<>>
  BY <1>5, <1>6
<1>8. \A i \in 1..n : t[i] = s[i]
  BY <1>5, <1>6
<1>9. QED
  BY <1>2, <1>4, <1>5, <1>6, <1>7, <1>8

\* What is found is prepared, or it is not.
LEMMA PrepareIsStep ==
  ASSUME Types, NEW w \in Workers, job[w].pc = "find", job[w].kind \in DataKinds,
         job[w].params.Where.form # "refused", NEW found \in SetToSeqs(job[w].params.Where.sel \cap docs)
  PROVE  JobStep(job[w], prepareDataParams(w, found))
<1> DEFINE j == job[w]
           n == j.params.StreamLimit
           S == j.params.Where.sel \cap docs
           uuids == IF n > 0 /\ Len(found) > n THEN SubSeq(found, 1, n) ELSE found
           pc == IF found = <<>> THEN "done" ELSE IF j.kind \in {"in", "stat"} THEN "uri" ELSE "streams"
<1>1. IsJob(j) /\ n \in Int /\ j.params.Begin \in Int /\ j.params.End \in Int
  BY Int64IsInt DEF Types, Typed, HasType, Asked, HasNumbers
<1>2. PICK b, e : /\ b = InNanoseconds(j.params.Begin) /\ e = InNanoseconds(j.params.End)
                  /\ b \in Returned /\ e \in Returned
  BY <1>1, ConvertedIs
<1>3. PICK r : r = [Start |-> Early(b.val, e.val), End |-> Late(b.val, e.val)] /\ r \in TimeRange
  <2>1. Early(b.val, e.val) \in Int /\ Late(b.val, e.val) \in Int
    BY <1>2, ReturnedIs DEF Early, Late
  <2>2. PICK x, y \in Int : x = Early(b.val, e.val) /\ y = Late(b.val, e.val)
    BY <2>1
  <2>3. [Start |-> x, End |-> y] \in TimeRange
    BY DEF TimeRange
  <2>4. QED
    BY <2>2, <2>3
<1>a. /\ S \subseteq UUIDs /\ found \in Seq(S) /\ DOMAIN found = 1..Len(found) /\ Len(found) \in Nat
      /\ \A i, m \in DOMAIN found : found[i] = found[m] => i = m
      /\ \A x \in S : \E i \in DOMAIN found : found[i] = x
      /\ \A i \in DOMAIN found : found[i] \in S
  <2>1. S \subseteq UUIDs /\ IsFiniteSet(S)
    BY QueryAssumption, FS_Subset DEF Types, World, Store
  <2> HIDE DEF S
  <2>2. found \in SetToSeqs(S)
    BY DEF S
  <2>3. QED
    BY <2>1, <2>2, SeqsOfSet
<1> HIDE DEF S
<1>b. r = InOrder(j)
  BY <1>2, <1>3 DEF InOrder
<1>4. PICK us : us = uuids
  OBVIOUS
<1>5. us \in Seq(S) /\ (us = <<>> <=> found = <<>>) /\ Chosen(j, us)
  <2>1. CASE n > 0 /\ Len(found) > n
    <3>1. /\ us \in Seq(S) /\ us # <<>> /\ Len(us) = n
          /\ DOMAIN us = 1..n /\ \A i \in 1..n : us[i] = found[i] /\ i \in DOMAIN found
      <4>1. us = SubSeq(found, 1, n)
        BY <1>4, <2>1
      <4>2. PICK m \in Int : m = n /\ m > 0 /\ Len(found) > m /\ found \in Seq(S)
        BY <1>1, <1>a, <2>1
      <4>3. /\ SubSeq(found, 1, m) \in Seq(S) /\ SubSeq(found, 1, m) # <<>> /\ Len(SubSeq(found, 1, m)) = m
            /\ DOMAIN SubSeq(found, 1, m) = 1..m
            /\ \A i \in 1..m : SubSeq(found, 1, m)[i] = found[i] /\ i \in DOMAIN found
        BY <4>2, FirstOf
      <4>4. QED
        BY <4>1, <4>2, <4>3
    <3>2. found # <<>>
      BY <1>1, <2>1
    <3>3. Len(us) <= n
      BY <1>1, <3>1
    <3>4. \A i \in DOMAIN us : us[i] \in j.params.Where.sel /\ \A m \in DOMAIN us : us[i] = us[m] => i = m
      BY <1>a, <3>1 DEF S
    <3>5. QED
      BY <2>1, <3>1, <3>2, <3>3, <3>4 DEF Chosen
  <2>2. CASE ~(n > 0 /\ Len(found) > n)
    <3>1. us = found
      BY <1>4, <2>2
    <3>2. n > 0 => Len(us) <= n
      BY <1>1, <1>a, <2>2, <3>1
    <3>3. S \subseteq Range(us)
      BY <1>a, <3>1 DEF Range
    <3>4. \A i \in DOMAIN us : us[i] \in j.params.Where.sel /\ \A m \in DOMAIN us : us[i] = us[m] => i = m
      BY <1>a, <3>1 DEF S
    <3>5. QED
      BY <1>a, <3>1, <3>2, <3>3, <3>4 DEF Chosen, S
  <2>3. QED
    BY <2>1, <2>2
<1>6. us \in Seq(UUIDs)
  BY <1>5, <1>a, SeqMonotonic
<1>7. prepareDataParams(w, found) =
        IF b.err \/ e.err THEN [j EXCEPT !.pc = "done", !.err = TRUE]
        ELSE [j EXCEPT !.pc = pc, !.uuids = uuids, !.req = r, !.asked = r]
  BY <1>2, <1>3 DEF prepareDataParams
<1>8. CASE b.err \/ e.err
  BY <1>1, <1>7, <1>8, StopIsStep DEF StopIs
<1>9. CASE ~(b.err \/ e.err)
  <2>1. PICK k : k = [j EXCEPT !.pc = pc, !.uuids = us, !.req = r, !.asked = r]
    OBVIOUS
  <2>2. Only({"uuids", "req", "asked", "pc"}, j, k) /\ k.pc = pc /\ k.uuids = us /\ k.req = r /\ k.asked = r
    BY <1>1, <2>1 DEF IsJob, Only, Fields
  <2>3. (pc = "done" <=> found = <<>>) /\ pc \in {"done", IF j.kind \in {"in", "stat"} THEN "uri" ELSE "streams"}
    OBVIOUS
  <2>4. k.pc = "done" <=> k.uuids = <<>>
    BY <1>5, <2>2, <2>3
  <2> HIDE DEF pc
  <2>5. Prepares(j, k)
    BY <1>3, <1>5, <1>6, <1>b, <2>2, <2>3, <2>4 DEF Prepares
  <2>6. QED
    BY <1>4, <1>7, <1>9, <2>1, <2>5 DEF JobStep, Finding
<1>10. QED
  BY <1>8, <1>9

LEMMA FindIsStep ==
  ASSUME Types, NEW w \in Workers, Find(w)
  PROVE  \E k : Becomes(w, k) /\ JobStep(job[w], k)
<1> DEFINE j == job[w]
<1>1. IsJob(j) /\ j.pc = "find" /\ j.kind \in DataKinds \cup {"tags", "distinct"}
  BY Int64IsInt DEF Types, Typed, HasType, Asked, HasNumbers, Find, At
<1>2. ASSUME j.params.Where.form # "refused", NEW found \in SetToSeqs(j.params.Where.sel \cap docs),
             Becomes(w, CASE j.kind = "tags" -> [j EXCEPT !.uuids = found, !.pc = IF found = <<>> THEN "done" ELSE "canread"]
                          [] j.kind = "distinct" -> [j EXCEPT !.pc = "done", !.result = Distinct(w, found)]
                          [] OTHER -> prepareDataParams(w, found))
      PROVE  \E k : Becomes(w, k) /\ JobStep(j, k)
  <2>1. CASE j.kind = "tags"
    <3>1. PICK k : k = [j EXCEPT !.uuids = found, !.pc = IF found = <<>> THEN "done" ELSE "canread"]
      OBVIOUS
    <3>2. FindsTags(j, k)
      BY <1>1, <2>1, <3>1 DEF FindsTags, Only, IsJob, Fields
    <3>3. QED
      BY <1>2, <2>1, <3>1, <3>2 DEF JobStep, Finding
  <2>2. CASE j.kind = "distinct"
    <3>1. PICK k : k = [j EXCEPT !.pc = "done", !.result = Distinct(w, found)]
      OBVIOUS
    <3>2. FindsDistinct(j, k)
      BY <1>1, <2>2, <3>1 DEF FindsDistinct, Only, IsJob, Fields
    <3>3. QED
      BY <1>2, <2>2, <3>1, <3>2 DEF JobStep, Finding
  <2>3. CASE j.kind \in DataKinds
    <3>1. JobStep(j, prepareDataParams(w, found))
      BY <1>1, <1>2, <2>3, PrepareIsStep
    <3>2. QED
      BY <1>2, <2>3, <3>1 DEF DataKinds
  <2>4. QED
    BY <1>1, <2>1, <2>2, <2>3
<1>3. ASSUME Becomes(w, [j EXCEPT !.pc = "done", !.err = TRUE])
      PROVE  \E k : Becomes(w, k) /\ JobStep(j, k)
  BY <1>1, <1>3, StopIsStep DEF StopIs
<1>4. QED
  BY <1>2, <1>3 DEF Find, Fails

LEMMA CanReadIsStep ==
  ASSUME Types, NEW w \in Workers, CanRead(w)
  PROVE  \E k : Becomes(w, k) /\ JobStep(job[w], k)
<1> DEFINE j == job[w]
<1>1. IsJob(j) /\ j.pc = "canread"
  BY DEF Types, Typed, HasType, CanRead, At
<1>2. PICK b \in BOOLEAN : Becomes(w, NextGroup(w, b)) /\ Reads(j, b)
  <2>1. Fault => faults' > faults
    BY DEF Fault, Types, World
  <2>2. BuildAnyChain(Stream(w)) \in BOOLEAN /\ (canread[Stream(w)] = "yes") \in BOOLEAN
    BY DEF BuildAnyChain
  <2>3. QED
    BY <2>1, <2>2 DEF CanRead, Reads, Stream
<1>3. PICK k : k = NextGroup(w, b)
  OBVIOUS
<1>4. Groups(j, k, b)
  BY <1>1, <1>3 DEF NextGroup, Groups, Stream, Only, IsJob, Fields
<1>5. QED
  BY <1>2, <1>3, <1>4 DEF JobStep

LEMMA URIIsStep ==
  ASSUME Types, NEW w \in Workers, URIFromUUID(w)
  PROVE  \E k : Becomes(w, k) /\ JobStep(job[w], k)
<1>1. IsJob(job[w]) /\ job[w].pc = "uri"
  BY DEF Types, Typed, HasType, URIFromUUID, At
<1>2. CASE Becomes(w, [job[w] EXCEPT !.pc = "lookup"])
  <2>1. PICK k : k = [job[w] EXCEPT !.pc = "lookup"]
    OBVIOUS
  <2>2. Looks(job[w], k)
    BY <1>1, <2>1 DEF Looks, Only, IsJob, Fields
  <2>3. QED
    BY <1>2, <2>1, <2>2 DEF JobStep, Looking
<1>3. CASE Panic(w)
  BY <1>1, <1>3, PanicIsStep
<1>4. QED
  BY <1>2, <1>3 DEF URIFromUUID

LEMMA ValidIsStep ==
  ASSUME NEW j, IsJob(j), NEW r, Good(j, r)
  PROVE  JobStep(j, Valid(j, r))
<1>1. CASE j.kind \in {"in", "stat"}
  <2>1. PICK i : i = [j EXCEPT !.result = Append(@, TS(Head(j.uuids), <<>>, r))]
    OBVIOUS
  <2>2. Only({"result"}, j, i) /\ i.result = Append(j.result, TS(Head(j.uuids), <<>>, r))
    BY <2>1 DEF Only, IsJob, Fields
  <2>3. PICK o : o = FoldLeft(Overlap, [rng |-> i.req, n |-> 0], r)
    OBVIOUS
  <2>4. PICK k : k = [i EXCEPT !.ranges = r, !.req = o.rng, !.copies = o.n, !.pc = "read"]
    OBVIOUS
  <2>5. /\ Only({"ranges", "req", "copies", "pc"}, i, k)
        /\ k.ranges = r /\ k.req = o.rng /\ k.copies = o.n /\ k.pc = "read"
    BY <2>2, <2>4 DEF Only, IsJob, Fields
  <2>6. o = Narrowed(j, r)
    BY <2>2, <2>3 DEF Narrowed, Only, Fields
  <2>7. Only({"result", "ranges", "req", "copies", "pc"}, j, k) /\ k.result = i.result
    BY <2>2, <2>5 DEF Only, Fields
  <2>8. Narrows(j, k)
    BY <1>1, <2>2, <2>5, <2>6, <2>7 DEF Narrows
  <2>9. Valid(j, r) = k
    BY <1>1, <2>1, <2>3, <2>4 DEF Valid, GetOverlap
  <2>10. QED
    BY <2>8, <2>9 DEF JobStep, Looking
<1>2. CASE j.kind \notin {"in", "stat"}
  <2>1. PICK k : k = [j EXCEPT !.ranges = r, !.pc = "mask"]
    OBVIOUS
  <2>2. Limits(j, k)
    BY <1>2, <2>1 DEF Limits, Only, IsJob, Fields
  <2>3. QED
    BY <1>2, <2>1, <2>2 DEF JobStep, Looking, Valid
<1>3. QED
  BY <1>1, <1>2

LEMMA GetValidRangesIsStep ==
  ASSUME Types, NEW w \in Workers, GetValidRanges(w)
  PROVE  \E k : Becomes(w, k) /\ JobStep(job[w], k)
<1> DEFINE j == job[w]
           u == Head(j.uuids)
<1>1. IsJob(j)
  BY DEF Types, Typed, HasType
<1>2. ASSUME NEW r, Good(j, r), Becomes(w, Valid(j, r))
      PROVE  \E k : Becomes(w, k) /\ JobStep(j, k)
  BY <1>1, <1>2, ValidIsStep
<1>3. ASSUME j.pc = "lookup", NEW r \in GetAccessDOTChains(u),
             Becomes(w, [j EXCEPT !.pc = "archival", !.ranges = r])
      PROVE  \E k : Becomes(w, k) /\ JobStep(j, k)
  <2>1. PICK k : k = [j EXCEPT !.pc = "archival", !.ranges = r]
    OBVIOUS
  <2>2. Only({"ranges", "pc"}, j, k) /\ k.pc = "archival" /\ k.ranges = r
    BY <1>1, <2>1 DEF Only, IsJob, Fields
  <2>3. QED
    BY <1>3, <2>1, <2>2 DEF JobStep, Looking, Access
<1>4. ASSUME j.pc = "archival", NEW r \in GetArchivalDOTChains(u, j.ranges),
             Becomes(w, [j EXCEPT !.pc = "store", !.ranges = r])
      PROVE  \E k : Becomes(w, k) /\ JobStep(j, k)
  <2>1. PICK k : k = [j EXCEPT !.pc = "store", !.ranges = r]
    OBVIOUS
  <2>2. Only({"ranges", "pc"}, j, k) /\ k.pc = "store" /\ k.ranges = r
    BY <1>1, <2>1 DEF Only, IsJob, Fields
  <2>3. QED
    BY <1>4, <2>1, <2>2 DEF JobStep, Looking, Archival
<1>5. ASSUME j.pc \in {"archival", "lookup"}, Fails(w, [j EXCEPT !.result = <<>>])
      PROVE  \E k : Becomes(w, k) /\ JobStep(j, k)
  <2>1. PICK i, k : i = [j EXCEPT !.result = <<>>] /\ k = [i EXCEPT !.pc = "done", !.err = TRUE]
    OBVIOUS
  <2>2. JobStep(j, k)
    BY <1>1, <1>5, <2>1, StopIsStep DEF StopIs
  <2>3. QED
    BY <1>5, <2>1, <2>2 DEF Fails
<1>6. QED
  BY <1>2, <1>3, <1>4, <1>5 DEF GetValidRanges, At, Stream, Good

LEMMA ReadIsStep ==
  ASSUME Types, NEW w \in Workers, Read(w)
  PROVE  \E k : Becomes(w, k) /\ JobStep(job[w], k)
<1> DEFINE j == job[w]
           u == Head(j.uuids)
<1>1. IsJob(j) /\ j.pc = "read" /\ j.copies \in Nat
  BY DEF Types, Typed, HasType, Read, At
<1>2. ASSUME j.copies = 0, Becomes(w, NextStream(j, "uri"))
      PROVE  \E k : Becomes(w, k) /\ JobStep(j, k)
  <2>1. PICK k : k = NextStream(j, "uri")
    OBVIOUS
  <2>2. Leaves(j, k)
    BY <1>1, <1>2, <2>1 DEF NextStream, Leaves, Goes, Only, IsJob, Fields
  <2>3. QED
    BY <1>2, <2>1, <2>2 DEF JobStep, Reading
<1>3. ASSUME j.copies > 0, StreamExists(u), Becomes(w, Extend(j, Fetched(j, u)))
      PROVE  \E k : Becomes(w, k) /\ JobStep(j, k)
  <2>1. PICK recs : recs = Fetched(j, u)
    OBVIOUS
  <2>2. PICK k : k = Extend(j, recs)
    OBVIOUS
  <2>3. /\ Only({"copies", "result"}, j, k) /\ k.copies = j.copies - 1
        /\ k.result = [j.result EXCEPT ![Len(j.result)].recs = Limit(j, @ \o recs)]
    BY <1>1, <2>2 DEF Extend, Only, IsJob, Fields
  <2>4. Extends(j, k)
    BY <1>1, <1>3, <2>1, <2>3 DEF Extends
  <2>5. QED
    BY <1>3, <2>1, <2>2, <2>4 DEF JobStep, Reading
<1>4. ASSUME Becomes(w, [j EXCEPT !.pc = "done", !.err = TRUE])
      PROVE  \E k : Becomes(w, k) /\ JobStep(j, k)
  BY <1>1, <1>4, StopIsStep DEF StopIs
<1>5. ASSUME Panic(w) PROVE \E k : Becomes(w, k) /\ JobStep(j, k)
  BY <1>1, <1>5, PanicIsStep
<1>6. QED
  BY <1>2, <1>3, <1>4, <1>5 DEF Read, Stream, Fails

LEMMA StreamsIsStep ==
  ASSUME Types, NEW w \in Workers, uuidsToStreams(w)
  PROVE  \E k : Becomes(w, k) /\ JobStep(job[w], k)
<1> DEFINE j == job[w]
           Skipped(found) ==
             [j EXCEPT !.uuids = IF Len(@) = 1 THEN found ELSE Tail(@),
                       !.series = IF Len(j.uuids) = 1 THEN <<>> ELSE found,
                       !.pc = IF Len(j.uuids) > 1 THEN "streams"
                              ELSE IF found = <<>> THEN "done" ELSE "nearest"]
<1>1. IsJob(j) /\ j.pc = "streams"
  BY DEF Types, Typed, HasType, uuidsToStreams, At
<1>2. PICK found : /\ Becomes(w, Skipped(found))
                   /\ found = j.series \/ (StreamExists(Head(j.uuids)) /\ found = Append(j.series, Head(j.uuids)))
  BY DEF uuidsToStreams, Stream
<1>3. PICK k : k = Skipped(found)
  OBVIOUS
<1>4. Skips(j, k, found)
  BY <1>1, <1>2, <1>3 DEF Skips, Only, IsJob, Fields
<1> HIDE DEF Skipped
<1>5. QED
  BY <1>2, <1>3, <1>4 DEF JobStep, Reading

LEMMA MaskingIsStep ==
  ASSUME NEW j, IsJob(j), j.pc = "nearest", j.kind # "changed",
         NEW i, Only({"uuids", "series"}, j, i), i.series = j.series \/ (Point(j) # <<>> /\ i.series = With(j))
  PROVE  JobStep(j, Masking(i))
<1>1. PICK k : k = Masking(i)
  OBVIOUS
<1>2. /\ Only({"uuids", "pc"}, i, k) /\ k.series = i.series
      /\ k.uuids = [n \in DOMAIN i.series |-> i.series[n].uuid]
      /\ k.pc = IF i.series = <<>> THEN "done" ELSE "uri"
  BY <1>1 DEF Masking, Only, IsJob, Fields
<1>3. Only({"uuids", "series", "pc"}, j, k)
  BY <1>2 DEF Only, Fields
<1>4. Masks(j, k)
  BY <1>2, <1>3 DEF Masks
<1>5. QED
  BY <1>1, <1>4 DEF JobStep, Reading

LEMMA NearestIsStep ==
  ASSUME Types, NEW w \in Workers, nearest(w)
  PROVE  \E k : Becomes(w, k) /\ JobStep(job[w], k)
<1> DEFINE j == job[w]
           u == Head(j.uuids)
<1>1. IsJob(j) /\ j.pc = "nearest"
  BY DEF Types, Typed, HasType, nearest, At
<1>2. PICK More : More = [j EXCEPT !.series = Append(@, TS(u, Point(j), <<>>)), !.uuids = Tail(@)]
  OBVIOUS
<1>3. Only({"uuids", "series"}, j, More) /\ More.series = With(j) /\ More.uuids = Tail(j.uuids)
  BY <1>1, <1>2 DEF Only, IsJob, Fields, With
<1>4. \/ j.kind = "changed" /\ Becomes(w, Changed(j, u))
      \/ Becomes(w, [j EXCEPT !.pc = "done", !.err = TRUE])
      \/ j.kind # "changed" /\ Becomes(w, Masking(j))
      \/ j.kind # "changed" /\ Point(j) # <<>> /\ Becomes(w, Masking(More))
      \/ j.kind # "changed" /\ Point(j) # <<>> /\ Tail(j.uuids) # <<>> /\ Becomes(w, More)
  BY <1>2 DEF nearest, Stream, Point, Fails
<1>5. ASSUME j.kind = "changed", Becomes(w, Changed(j, u))
      PROVE  \E k : Becomes(w, k) /\ JobStep(j, k)
  <2>1. PICK c : c = TS(u, Changes(u, j.params.FromGen, j.params.ToGen), <<>>)
    OBVIOUS
  <2>2. PICK i : i = NextStream(j, "nearest")
    OBVIOUS
  <2>3. Only({"uuids", "ranges", "pc"}, j, i) /\ Goes(j, i, "nearest")
    BY <1>1, <2>2 DEF NextStream, Goes, Only, IsJob, Fields
  <2>4. PICK k : k = [i EXCEPT !.result = Append(@, c)]
    OBVIOUS
  <2>5. Only({"result"}, i, k)
    BY <2>3, <2>4 DEF Only, IsJob, Fields
  <2>6. Only({"uuids", "ranges", "result", "pc"}, j, k) /\ Goes(j, k, "nearest")
    BY <2>3, <2>5 DEF Only, Fields, Goes
  <2>7. k = Changed(j, u)
    BY <2>1, <2>2, <2>4 DEF Changed
  <2>8. JobStep(j, k)
    BY <1>1, <1>5, <2>6 DEF JobStep, Reading, Changes1
  <2>9. QED
    BY <1>5, <2>7, <2>8
<1>6. ASSUME j.kind # "changed", Becomes(w, Masking(j))
      PROVE  \E k : Becomes(w, k) /\ JobStep(j, k)
  <2>1. Only({"uuids", "series"}, j, j)
    BY <1>1 DEF Only
  <2>2. QED
    BY <1>1, <1>6, <2>1, MaskingIsStep
<1>7. ASSUME j.kind # "changed", Point(j) # <<>>, Becomes(w, Masking(More))
      PROVE  \E k : Becomes(w, k) /\ JobStep(j, k)
  BY <1>1, <1>3, <1>7, MaskingIsStep
<1>8. ASSUME j.kind # "changed", Point(j) # <<>>, Tail(j.uuids) # <<>>, Becomes(w, More)
      PROVE  \E k : Becomes(w, k) /\ JobStep(j, k)
  BY <1>1, <1>3, <1>8 DEF JobStep, Reading, GoesOn
<1>9. ASSUME Becomes(w, [j EXCEPT !.pc = "done", !.err = TRUE])
      PROVE  \E k : Becomes(w, k) /\ JobStep(j, k)
  BY <1>1, <1>9, StopIsStep DEF StopIs
<1>10. QED
  BY <1>4, <1>5, <1>6, <1>7, <1>8, <1>9

LEMMA MaskIsStep ==
  ASSUME Types, NEW w \in Workers, maskTimeseriesByPermission(w)
  PROVE  \E k : Becomes(w, k) /\ JobStep(job[w], k)
<1> DEFINE j == job[w]
           ts == Head(j.series)
<1>1. IsJob(j) /\ j.pc = "mask"
  BY DEF Types, Typed, HasType, maskTimeseriesByPermission, At
<1>2. PICK t : t = TS(ts.uuid, Masked(ts.recs, j.ranges), j.ranges)
  OBVIOUS
<1>3. PICK i : i = NextStream(j, "uri")
  OBVIOUS
<1>4. Only({"uuids", "ranges", "pc"}, j, i) /\ Goes(j, i, "uri")
  BY <1>1, <1>3 DEF NextStream, Goes, Only, IsJob, Fields
<1>5. PICK k : k = [i EXCEPT !.series = Tail(@), !.result = Append(@, t)]
  OBVIOUS
<1>6. Only({"series", "result"}, i, k) /\ k.series = Tail(i.series) /\ k.result = Append(i.result, t)
  BY <1>4, <1>5 DEF Only, IsJob, Fields
<1>7. /\ Only({"uuids", "ranges", "series", "result", "pc"}, j, k) /\ Goes(j, k, "uri")
      /\ k.series = Tail(j.series) /\ k.result = Append(j.result, t)
  BY <1>4, <1>6 DEF Only, Fields, Goes
<1>8. MasksOne(j, k)
  BY <1>1, <1>2, <1>7 DEF MasksOne
<1>9. Becomes(w, k)
  BY <1>2, <1>3, <1>5 DEF maskTimeseriesByPermission
<1>10. QED
  BY <1>8, <1>9 DEF JobStep, Reading

\* Each step of a worker is one of those that were listed.
LEMMA WorkersStep ==
  ASSUME Types, NEW w \in Workers, (\E q \in load.queries[w] : Ask(w, q)) \/ Work(w)
  PROVE  \E k : Becomes(w, k) /\ JobStep(job[w], k)
BY AskIsStep, AnsweredIsStep, FindIsStep, CanReadIsStep, URIIsStep, GetValidRangesIsStep, ReadIsStep,
   StreamsIsStep, NearestIsStep, MaskIsStep DEF Work
-----------------------------------------------------------------------------
(* What a step of a worker does to the world.                               *)

\* Good ranges, or whether the metadata may be read, are remembered.
Remembers(w) ==
  \/ UNCHANGED <<cache, canread>>
  \/ job[w].pc = "store" /\ SetCache(Stream(w), job[w].ranges)
  \/ /\ job[w].pc = "canread"
     /\ \E b \in BOOLEAN : canread[Stream(w)] = "none" /\ Reads(job[w], b) /\ SetCanRead(Stream(w), b)

Touches(w) ==
  /\ UNCHANGED <<load, registry, data, storeVars>>
  /\ Fault \/ NoFault
  /\ down' \in BOOLEAN
  /\ Remembers(w)

LEMMA WorkersTouch ==
  ASSUME Types, NEW w \in Workers, (\E q \in load.queries[w] : Ask(w, q)) \/ Work(w)
  PROVE  Touches(w)
<1>1. down \in BOOLEAN
  BY DEF Types, World
<1>2. ASSUME Own, Fault \/ NoFault PROVE Touches(w)
  BY <1>1, <1>2 DEF Own, Touches, Remembers, dotVars
<1>3. ASSUME Panic(w), Fault \/ NoFault PROVE Touches(w)
  BY <1>3 DEF Panic, Touches, Remembers, dotVars
<1>4. ASSUME NEW q, Ask(w, q) PROVE Touches(w)
  BY <1>2, <1>4 DEF Ask
<1>5. ASSUME Answered(w) PROVE Touches(w)
  BY <1>2, <1>5 DEF Answered
<1>6. ASSUME Find(w) PROVE Touches(w)
  BY <1>2, <1>6 DEF Find, Fails
<1>7. ASSUME CanRead(w) PROVE Touches(w)
  <2>1. /\ UNCHANGED <<load, data, storeVars, down>> /\ job[w].pc = "canread"
        /\ Fault \/ NoFault
    BY <1>7 DEF CanRead, At
  <2>2. CASE UNCHANGED dotVars
    BY <1>1, <2>1, <2>2 DEF Touches, Remembers, dotVars
  <2>3. ASSUME canread[Stream(w)] = "none", NEW b \in BOOLEAN, Reads(job[w], b), SetCanRead(Stream(w), b)
        PROVE  Touches(w)
    BY <1>1, <2>1, <2>3 DEF Touches, Remembers, SetCanRead
  <2>4. BuildAnyChain(Stream(w)) \in BOOLEAN
    BY DEF BuildAnyChain
  <2>5. Fault => faults' > faults
    BY DEF Fault, Types, World
  <2>6. QED
    BY <1>7, <2>2, <2>3, <2>4, <2>5 DEF CanRead, Reads, Stream
<1>8. ASSUME URIFromUUID(w) PROVE Touches(w)
  BY <1>2, <1>3, <1>8 DEF URIFromUUID
<1>9. ASSUME GetValidRanges(w) PROVE Touches(w)
  <2>1. UNCHANGED <<load, data, storeVars, down>> /\ (Fault \/ NoFault)
    BY <1>9 DEF GetValidRanges, Fails
  <2>2. UNCHANGED dotVars \/ (job[w].pc = "store" /\ SetCache(Stream(w), job[w].ranges))
    BY <1>9 DEF GetValidRanges, At
  <2>3. QED
    BY <1>1, <2>1, <2>2 DEF Touches, Remembers, SetCache, dotVars
<1>10. ASSUME Read(w) PROVE Touches(w)
  BY <1>2, <1>3, <1>10 DEF Read, Fails
<1>11. ASSUME uuidsToStreams(w) PROVE Touches(w)
  BY <1>2, <1>11 DEF uuidsToStreams
<1>12. ASSUME nearest(w) PROVE Touches(w)
  BY <1>2, <1>12 DEF nearest, Fails
<1>13. ASSUME maskTimeseriesByPermission(w) PROVE Touches(w)
  BY <1>2, <1>13 DEF maskTimeseriesByPermission
<1>14. QED
  BY <1>4, <1>5, <1>6, <1>7, <1>8, <1>9, <1>10, <1>11, <1>12, <1>13 DEF Work

LEMMA TouchesWorld ==
  ASSUME Types, NEW w \in Workers, Touches(w)
  PROVE  World'
<1>1. load' = load /\ Store' /\ down' \in BOOLEAN
  BY DEF Types, World, Store, Touches, storeVars
<1>2. faults' \in 0..load.faults
  <2>1. PICK n \in Nat : n = load.faults
    BY ApiAssumption DEF Types, World
  <2>2. faults \in 0..n
    BY <2>1 DEF Types, World
  <2>3. faults' \in 0..n
    BY <2>1, <2>2 DEF Touches, Fault, NoFault
  <2>4. QED
    BY <2>1, <2>3
<1>3. Dots'
  <2>1. registry' \in Seq(SUBSET DOTs) /\ Len(registry') \in 1..(load.changes + 1)
    BY DEF Types, World, Dots, Touches
  <2>2. /\ cache \in [Streams -> [ranges : Seq(TimeRange), ttl : 0..Expiry]]
        /\ canread \in [Streams -> {"none", "yes", "no"}]
    BY DEF Types, World, Dots
  <2>3. CASE UNCHANGED <<cache, canread>>
    BY <1>1, <2>1, <2>2, <2>3 DEF Dots
  <2>4. CASE SetCache(Stream(w), job[w].ranges)
    <3>1. PICK r : r = [ranges |-> job[w].ranges, ttl |-> Expiry]
      OBVIOUS
    <3>2. r \in [ranges : Seq(TimeRange), ttl : 0..Expiry]
      <4>1. job[w].ranges \in Seq(TimeRange) /\ Expiry \in 0..Expiry
        BY DOTAssumption DEF Types, Typed, HasType
      <4>2. QED
        BY <3>1, <4>1
    <3>3. cache' = [cache EXCEPT ![Stream(w)] = r] /\ canread' = canread
      BY <2>4, <3>1 DEF SetCache
    <3>4. cache' \in [Streams -> [ranges : Seq(TimeRange), ttl : 0..Expiry]]
      BY <2>2, <3>2, <3>3
    <3>5. QED
      BY <1>1, <2>1, <2>2, <3>3, <3>4 DEF Dots
  <2>5. ASSUME NEW b, SetCanRead(Stream(w), b) PROVE Dots'
    <3>1. canread' \in [Streams -> {"none", "yes", "no"}] /\ cache' = cache
      BY <2>2, <2>5 DEF SetCanRead
    <3>2. QED
      BY <1>1, <2>1, <2>2, <3>1 DEF Dots
  <2>6. QED
    BY <2>3, <2>4, <2>5 DEF Touches, Remembers
<1>4. QED
  BY <1>1, <1>2, <1>3 DEF World, Types

-----------------------------------------------------------------------------
(* What others do to it.                                                    *)

\* DOTs come and go, streams get readings; nothing is undone.
Grows ==
  /\ load' = load
  /\ registry' = registry \/ \E reg : registry' = Append(registry, reg)
  /\ DOMAIN data \subseteq DOMAIN data'
  /\ \A u \in DOMAIN data : Range(data[u]) \subseteq Range(data'[u])

LEMMA TouchesGrows ==
  ASSUME NEW w, Touches(w)
  PROVE  Grows
BY DEF Touches, Grows

LEMMA StreamStepStore ==
  ASSUME Store, StreamStep
  PROVE  Store' /\ DOMAIN data \subseteq DOMAIN data' /\ \A u \in DOMAIN data : Range(data[u]) \subseteq Range(data'[u])
<1>1. /\ docs \subseteq UUIDs /\ mapped \subseteq docs /\ DOMAIN data \subseteq mapped
      /\ \A u \in DOMAIN data : data[u] \in Seq(Stored)
      /\ feed \in [UUIDs -> Seq(Stored)]
  BY DEF Store
<1>2. ASSUME NEW u \in UUIDs, docs' = docs \cup {u}, UNCHANGED <<mapped, feed, data>>
      PROVE  Store' /\ UNCHANGED data
  BY <1>1, <1>2 DEF Store
<1>3. ASSUME NEW u \in docs, mapped' = mapped \cup {u}, UNCHANGED <<docs, feed, data>>
      PROVE  Store' /\ UNCHANGED data
  BY <1>1, <1>3 DEF Store
<1>4. ASSUME NEW u \in mapped, RegisterStream(u), UNCHANGED storeVars
      PROVE  Store' /\ DOMAIN data \subseteq DOMAIN data' /\ \A v \in DOMAIN data : data'[v] = data[v]
  <2>1. u \notin DOMAIN data /\ data' = [v \in DOMAIN data \cup {u} |-> IF v = u THEN <<>> ELSE data[v]]
    BY <1>4 DEF RegisterStream, StreamExists
  <2>2. DOMAIN data' = DOMAIN data \cup {u} /\ data'[u] = <<>> /\ \A v \in DOMAIN data : data'[v] = data[v]
    BY <2>1
  <2>3. UNCHANGED <<docs, mapped, feed>>
    BY <1>4 DEF storeVars
  <2>4. \A v \in DOMAIN data' : data'[v] \in Seq(Stored)
    BY <1>1, <2>2, EmptySeq
  <2>5. QED
    BY <1>1, <2>2, <2>3, <2>4 DEF Store
<1>5. ASSUME NEW u \in DOMAIN data, feed[u] # <<>>, AddReadings(u, <<Head(feed[u])>>),
             feed' = [feed EXCEPT ![u] = Tail(@)], UNCHANGED <<docs, mapped>>
      PROVE  /\ Store' /\ DOMAIN data \subseteq DOMAIN data'
             /\ \A v \in DOMAIN data : Range(data[v]) \subseteq Range(data'[v])
  <2>1. u \in UUIDs /\ feed[u] \in Seq(Stored) /\ data[u] \in Seq(Stored)
    BY <1>1
  <2>2. PICK t : t = Head(feed[u]) /\ t \in Stored /\ Tail(feed[u]) \in Seq(Stored)
    BY <1>5, <2>1, Tails
  <2>3. PICK d, e : d = data[u] /\ e = d \o <<t>>
    OBVIOUS
  <2>4. e \in Seq(Stored) /\ Range(d) \subseteq Range(e)
    <3>1. <<t>> \in Seq(Stored)
      BY <2>2
    <3>2. /\ e \in Seq(Stored) /\ Len(e) = Len(d) + Len(<<t>>)
          /\ \A i \in 1..Len(d) : e[i] = d[i]
      BY <2>1, <2>3, <3>1, ConcatProperties
    <3>3. Len(d) \in Nat /\ DOMAIN d = 1..Len(d) /\ Len(<<t>>) = 1 /\ DOMAIN e = 1..Len(e)
      BY <2>1, <2>3, <3>2
    <3>4. \A i \in DOMAIN d : i \in DOMAIN e /\ e[i] = d[i]
      BY <3>2, <3>3
    <3>5. QED
      BY <3>2, <3>4 DEF Range
  <2>5. data' = [data EXCEPT ![u] = e]
    BY <1>5, <2>2, <2>3 DEF AddReadings
  <2>6. DOMAIN data' = DOMAIN data /\ data'[u] = e /\ \A v \in DOMAIN data : v # u => data'[v] = data[v]
    BY <2>5
  <2>7. \A v \in DOMAIN data' : data'[v] \in Seq(Stored)
    BY <1>1, <2>4, <2>6
  <2>8. feed' \in [UUIDs -> Seq(Stored)]
    BY <1>1, <1>5, <2>2
  <2>9. \A v \in DOMAIN data : Range(data[v]) \subseteq Range(data'[v])
    BY <2>3, <2>4, <2>6
  <2>10. QED
    BY <1>1, <1>5, <2>6, <2>7, <2>8, <2>9 DEF Store
<1>6. QED
  BY <1>2, <1>3, <1>4, <1>5 DEF StreamStep

LEMMA RegistryDots ==
  ASSUME World, Registry, UNCHANGED load
  PROVE  Dots' /\ (registry' = registry \/ \E reg : registry' = Append(registry, reg))
<1>1. Dots
  BY DEF World
<1>2. ASSUME NEW d \in load.changing, Len(registry) <= load.changes, Change(d)
      PROVE  Dots' /\ \E reg : registry' = Append(registry, reg)
  <2>1. PICK n \in Nat : n = load.changes
    BY ApiAssumption DEF World
  <2>2. d \in DOTs
    BY ApiAssumption DEF World
  <2>3. registry \in Seq(SUBSET DOTs) /\ registry # <<>>
    BY <1>1 DEF Dots
  <2>4. PICK reg : /\ reg = IF d \in Current THEN Current \ {d} ELSE Current \cup {d}
                   /\ reg \in SUBSET DOTs
    <3>1. Current \in SUBSET DOTs
      BY <2>3, Tails, ElementOfSeq DEF Current, Last
    <3>2. QED
      BY <2>2, <3>1
  <2>5. registry' = Append(registry, reg) /\ UNCHANGED <<cache, canread>>
    BY <1>2, <2>4 DEF Change
  <2>6. registry' \in Seq(SUBSET DOTs) /\ Len(registry') = Len(registry) + 1 /\ Len(registry) \in Nat
    BY <2>3, <2>4, <2>5, Appended
  <2>7. Len(registry') \in 1..(load.changes + 1)
    BY <1>2, <2>1, <2>6
  <2>8. QED
    BY <1>1, <2>5, <2>6, <2>7 DEF Dots
<1>3. ASSUME Tick PROVE Dots' /\ registry' = registry
  <2>1. cache \in [Streams -> [ranges : Seq(TimeRange), ttl : 0..Expiry]]
    BY <1>1 DEF Dots
  <2>2. cache' = [u \in Streams |-> [cache[u] EXCEPT !.ttl = IF @ > 0 THEN @ - 1 ELSE 0]]
    BY <1>3 DEF Tick
  <2>3. Expiry \in Nat
    BY DOTAssumption
  <2>4. cache' \in [Streams -> [ranges : Seq(TimeRange), ttl : 0..Expiry]]
    <3>1. ASSUME NEW u \in Streams
          PROVE  [cache[u] EXCEPT !.ttl = IF @ > 0 THEN @ - 1 ELSE 0] \in [ranges : Seq(TimeRange), ttl : 0..Expiry]
      <4>1. PICK c \in [ranges : Seq(TimeRange), ttl : 0..Expiry] : c = cache[u]
        BY <2>1
      <4>2. PICK t : t = IF c.ttl > 0 THEN c.ttl - 1 ELSE 0
        OBVIOUS
      <4>3. t \in 0..Expiry
        BY <2>3, <4>2
      <4>4. [c EXCEPT !.ttl = t] \in [ranges : Seq(TimeRange), ttl : 0..Expiry]
        BY <4>3
      <4>5. QED
        BY <4>1, <4>2, <4>4
    <3>2. QED
      BY <2>2, <3>1
  <2>5. QED
    BY <1>1, <1>3, <2>4 DEF Dots, Tick
<1>4. QED
  BY <1>2, <1>3 DEF Registry

\* A step of the others leaves the jobs alone.
Others ==
  /\ ~down /\ UNCHANGED <<job, down, faults, load>>
  /\ (StreamStep /\ UNCHANGED dotVars) \/ (Registry /\ UNCHANGED <<data, storeVars>>)

LEMMA OthersWorld ==
  ASSUME World, Others
  PROVE  World' /\ Grows
<1>1. UNCHANGED <<load, down, faults>>
  BY DEF Others
<1>2. CASE StreamStep /\ UNCHANGED dotVars
  <2>1. Store' /\ Dots'
    BY <1>1, <1>2, StreamStepStore DEF World, Dots, dotVars
  <2>2. QED
    BY <1>1, <1>2, <2>1, StreamStepStore DEF World, Grows, dotVars
<1>3. CASE Registry /\ UNCHANGED <<data, storeVars>>
  <2>1. Store' /\ Dots'
    BY <1>1, <1>3, RegistryDots DEF World, Store, storeVars
  <2>2. QED
    BY <1>1, <1>3, <2>1, RegistryDots DEF World, Grows
<1>4. QED
  BY <1>2, <1>3 DEF Others
-----------------------------------------------------------------------------
(* Every step keeps the types.                                              *)

\* The stream at hand.
LEMMA AtHandIs ==
  ASSUME NEW j, Typed(j), j.pc \in AtHand
  PROVE  /\ Head(j.uuids) \in UUIDs /\ Tail(j.uuids) \in Seq(UUIDs) /\ Len(j.uuids) \in Nat \ {0}
         /\ Len(j.uuids) # 1 => Tail(j.uuids) # <<>>
<1>1. j.uuids \in Seq(UUIDs) /\ j.uuids # <<>>
  BY DEF Typed, HasType
<1>2. /\ Len(j.uuids) \in Nat \ {0} /\ Head(j.uuids) \in UUIDs
      /\ Tail(j.uuids) \in Seq(UUIDs) /\ Len(Tail(j.uuids)) = Len(j.uuids) - 1
  BY <1>1, Tails
<1>3. PICK t : t = Tail(j.uuids)
  OBVIOUS
<1>4. Len(j.uuids) # 1 => Len(t) # 0
  BY <1>2, <1>3
<1>5. Len(j.uuids) # 1 => t # <<>>
  BY <1>4
<1>6. QED
  BY <1>2, <1>3, <1>5

\* What is good are ranges.
LEMMA GoodIs ==
  ASSUME World, NEW j, Typed(j), NEW r, Good(j, r)
  PROVE  r \in Seq(TimeRange) /\ j.pc \in {"lookup", "store"}
<1>1. CASE j.pc = "lookup" /\ r = cache[Head(j.uuids)].ranges
  <2>1. Head(j.uuids) \in Streams
    BY <1>1, AtHandIs, ApiAssumption DEF AtHand
  <2>2. QED
    BY <1>1, <2>1 DEF World, Dots
<1>2. CASE j.pc = "store" /\ r = j.ranges
  BY <1>2 DEF Typed, HasType
<1>3. QED
  BY <1>1, <1>2 DEF Good

LEMMA CurrentIs ==
  ASSUME World
  PROVE  /\ registry \in Seq(SUBSET DOTs) /\ Len(registry) \in DOMAIN registry
         /\ Current = registry[Len(registry)] /\ Current \in SUBSET DOTs
<1>1. registry \in Seq(SUBSET DOTs) /\ registry # <<>>
  BY DEF World, Dots
<1>2. Len(registry) \in Nat \ {0} /\ DOMAIN registry = 1..Len(registry)
  BY <1>1, Tails
<1>3. QED
  BY <1>1, <1>2, ElementOfSeq DEF Current, Last

\* The nearest reading of a stream, if there is one.
LEMMA NearestIs ==
  ASSUME World, NEW u \in DOMAIN data, NEW start \in Int, NEW back \in BOOLEAN
  PROVE  \/ Nearest(u, start, back) = <<>>
         \/ \E t \in Times(u) : /\ t \in Stored /\ t \in Int /\ Nearest(u, start, back) = <<t>>
                                /\ IF back THEN t < start /\ \A x \in Times(u) : x < start => x <= t
                                           ELSE t >= start /\ \A x \in Times(u) : x >= start => t <= x
<1>1. data[u] \in Seq(Stored)
  BY DEF World, Store
<1>2. IsFiniteSet(Times(u)) /\ Times(u) \subseteq Stored /\ Times(u) \subseteq Nat
  BY <1>1, FiniteRange, StoredIs DEF Times
<1>3. PICK S : S = {t \in Times(u) : IF back THEN t < start ELSE t >= start}
  OBVIOUS
<1>4. IsFiniteSet(S) /\ S \in SUBSET Int
  BY <1>2, <1>3, FS_Subset
<1>5. Nearest(u, start, back) = IF S = {} THEN <<>> ELSE <<IF back THEN Max(S) ELSE Min(S)>>
  BY <1>3 DEF Nearest
<1>6. CASE S # {} /\ back
  <2>1. Max(S) \in S /\ \A x \in S : Max(S) >= x
    BY <1>4, <1>6, MaxIsThere
  <2>2. PICK t : t = Max(S)
    OBVIOUS
  <2>3. /\ t \in Times(u) /\ t \in Stored /\ t \in Int /\ t < start
        /\ \A x \in Times(u) : x \in Int /\ (x < start => x <= t)
    BY <1>2, <1>3, <1>4, <1>6, <2>1, <2>2
  <2>4. QED
    BY <1>5, <1>6, <2>2, <2>3
<1>7. CASE S # {} /\ ~back
  <2>1. Min(S) \in S /\ \A x \in S : Min(S) <= x
    BY <1>4, <1>7, MinIsThere
  <2>2. PICK t : t = Min(S)
    OBVIOUS
  <2>3. /\ t \in Times(u) /\ t \in Stored /\ t \in Int /\ t >= start
        /\ \A x \in Times(u) : x >= start => t <= x
    BY <1>2, <1>3, <1>4, <1>7, <2>1, <2>2
  <2>4. QED
    BY <1>5, <1>7, <2>2, <2>3
<1>8. CASE S = {}
  BY <1>5, <1>8
<1>9. QED
  BY <1>6, <1>7, <1>8

\* What nearest adds to the series.
LEMMA WithIs ==
  ASSUME World, NEW j, Typed(j), j.pc = "nearest", Point(j) # <<>>
  PROVE  /\ With(j) \in Seq(Serie) /\ Head(j.uuids) \in DOMAIN data
         /\ Len(With(j)) = Len(j.series) + 1
<1>1. j.uuids \in Seq(DOMAIN data) /\ j.uuids # <<>> /\ j.series \in Seq(Serie) /\ j.req.Start \in Int
  BY DEF Typed, HasType, AtHand, TimeRange
<1>2. PICK u : u = Head(j.uuids) /\ u \in DOMAIN data
  BY <1>1, Tails
<1>3. u \in UUIDs
  BY <1>2 DEF World, Store
<1>4. PICK b \in BOOLEAN : b = (j.kind = "before")
  OBVIOUS
<1>5. PICK p : p = Point(j) /\ p # <<>> /\ p = Nearest(u, j.req.Start, b)
  BY <1>2, <1>4 DEF Point, From
<1>6. p \in Seq(Stored)
  <2>1. \E t \in Stored : p = <<t>>
    BY <1>1, <1>2, <1>5, NearestIs
  <2>2. QED
    BY <2>1
<1>7. TS(u, p, <<>>) \in Serie
  BY <1>3, <1>6 DEF TS, Serie
<1>8. With(j) = Append(j.series, TS(u, p, <<>>))
  BY <1>2, <1>5 DEF With
<1>9. QED
  BY <1>1, <1>2, <1>7, <1>8, Appended

LEMMA AsksTyped ==
  ASSUME NEW j, NEW k, Asks(j, k)
  PROVE  Typed(k)
<1>1. NoRange \in TimeRange /\ <<>> \in Seq(UUIDs) /\ <<>> \in Seq(TimeRange)
  BY DEF NoRange, TimeRange
<1>2. HasType(k)
  BY <1>1 DEF Asks, HasType, AtHand, PCs
<1>3. QED
  BY <1>2 DEF Asks, Typed, KindsAt, Asked

LEMMA NoJobTyped == Typed(NoJob)
<1>1. NoRange \in TimeRange /\ <<>> \in Seq(UUIDs) /\ <<>> \in Seq(TimeRange)
  BY DEF NoRange, TimeRange
<1>2. /\ IsJob(NoJob) /\ NoJob.pc = "idle" /\ NoJob.uuids = <<>> /\ NoJob.ranges = <<>> /\ NoJob.req = NoRange
      /\ NoJob.copies = 0 /\ NoJob.err = FALSE
  BY DEF NoJob, IsJob, Fields
<1>3. PICK j : j = NoJob
  OBVIOUS
<1>a. /\ IsJob(j) /\ j.pc = "idle" /\ j.uuids = <<>> /\ j.ranges = <<>> /\ j.req = NoRange
      /\ j.copies = 0 /\ j.err \in BOOLEAN
  BY <1>2, <1>3
<1>4. HasType(j) /\ KindsAt(j)
  BY <1>1, <1>a DEF HasType, KindsAt, AtHand, PCs
<1>5. QED
  BY <1>a, <1>3, <1>4 DEF Typed

\* What a job was asked for stays with it.
LEMMA AskedStays ==
  ASSUME NEW j, NEW k, NEW fs, Only(fs, j, k), "kind" \notin fs, "params" \notin fs, Asked(j)
  PROVE  Asked(k)
<1>1. k.kind = j.kind /\ k.params = j.params
  BY DEF Only, Fields
<1>2. QED
  BY <1>1 DEF Asked

LEMMA FindingTyped ==
  ASSUME World, NEW j, Typed(j), NEW k, Finding(j, k)
  PROVE  Typed(k)
<1>1. HasType(j) /\ Asked(j) /\ j.pc = "find" /\ j.series = <<>> /\ j.kind # "none"
  BY DEF Typed, Finding, FindsTags, FindsDistinct, Prepares
<1>2. CASE FindsTags(j, k)
  <2>1. IsFiniteSet(j.params.Where.sel \cap docs) /\ j.params.Where.sel \cap docs \subseteq UUIDs
    BY QueryAssumption, FS_Subset DEF World, Store
  <2>2. k.uuids \in Seq(j.params.Where.sel \cap docs)
    BY <1>2, <2>1, SeqsOfSet DEF FindsTags
  <2>3. k.uuids \in Seq(UUIDs)
    BY <2>1, <2>2, SeqMonotonic
  <2>4. /\ IsJob(k) /\ k.ranges = j.ranges /\ k.req = j.req /\ k.copies = j.copies /\ k.err = j.err
        /\ k.kind = "tags" /\ k.pc \in {"done", "canread"} /\ (k.pc = "canread" => k.uuids # <<>>)
    BY <1>2 DEF FindsTags, Only, Fields
  <2>5. Asked(k)
    BY <1>1, <1>2, AskedStays DEF FindsTags
  <2>6. QED
    BY <1>1, <2>3, <2>4, <2>5 DEF Typed, HasType, KindsAt, AtHand, PCs
<1>3. CASE FindsDistinct(j, k)
  <2>1. /\ IsJob(k) /\ k.ranges = j.ranges /\ k.req = j.req /\ k.copies = j.copies /\ k.err = j.err
        /\ k.uuids = j.uuids /\ k.pc = "done"
    BY <1>3 DEF FindsDistinct, Only, Fields
  <2>2. Asked(k)
    BY <1>1, <1>3, AskedStays DEF FindsDistinct
  <2>3. QED
    BY <1>1, <2>1, <2>2 DEF Typed, HasType, KindsAt, AtHand, PCs
<1>4. CASE Prepares(j, k)
  <2>1. /\ IsJob(k) /\ k.ranges = j.ranges /\ k.copies = j.copies /\ k.err = j.err
        /\ k.uuids \in Seq(UUIDs) /\ k.req \in TimeRange /\ (k.pc # "done" => k.uuids # <<>>)
        /\ k.pc \in {"done", IF k.kind \in {"in", "stat"} THEN "uri" ELSE "streams"}
        /\ k.kind \in DataKinds /\ k.series = <<>>
    BY <1>1, <1>4 DEF Prepares, Only, Fields
  <2>2. Asked(k)
    BY <1>1, <1>4, AskedStays DEF Prepares
  <2>3. k.pc # "done" => IF k.kind \in {"in", "stat"} THEN k.pc = "uri" ELSE k.pc = "streams" /\ k.kind \in {"before", "after", "changed"}
    BY <2>1 DEF DataKinds
  <2>4. HasType(k)
    BY <1>1, <2>1, <2>3 DEF HasType, PCs, AtHand
  <2>5. <<>> \in Seq(DOMAIN data)
    OBVIOUS
  <2>6. QED
    BY <2>1, <2>2, <2>3, <2>4, <2>5 DEF Typed, KindsAt, ByChains
<1>5. QED
  BY <1>2, <1>3, <1>4 DEF Finding

LEMMA GroupsTyped ==
  ASSUME NEW j, Typed(j), NEW k, NEW b, Groups(j, k, b)
  PROVE  Typed(k)
<1>1. HasType(j) /\ Asked(j) /\ j.pc = "canread" /\ j.kind = "tags"
  BY DEF Typed, Groups, KindsAt
<1>2. /\ IsJob(k) /\ k.ranges = j.ranges /\ k.req = j.req /\ k.copies = j.copies /\ k.err = j.err
      /\ k.kind = "tags" /\ k.pc \in {"done", "canread"} /\ k.uuids = Tail(j.uuids)
      /\ (k.pc = "canread" => Len(j.uuids) # 1)
  BY <1>1 DEF Groups, Only, Fields
<1>3. k.uuids \in Seq(UUIDs) /\ (k.pc = "canread" => k.uuids # <<>>)
  BY <1>1, <1>2, AtHandIs DEF AtHand
<1>4. Asked(k)
  BY <1>1, AskedStays DEF Groups
<1>5. QED
  BY <1>1, <1>2, <1>3, <1>4 DEF Typed, HasType, KindsAt, AtHand, PCs

LEMMA EndsTyped ==
  ASSUME NEW j, Typed(j), NEW k, Stops(j, k) \/ Panics(j, k)
  PROVE  Typed(k)
<1>1. HasType(j) /\ Asked(j)
  BY DEF Typed, Stops, Panics
<1>2. /\ IsJob(k) /\ k.ranges = j.ranges /\ k.req = j.req /\ k.copies = j.copies /\ k.uuids = j.uuids
      /\ k.pc \in {"done", "panic"} /\ k.err \in {j.err, TRUE}
  BY DEF Stops, Panics, Only, Fields
<1>3. Asked(k)
  BY <1>1, AskedStays DEF Stops, Panics
<1>4. QED
  BY <1>1, <1>2, <1>3 DEF Typed, HasType, KindsAt, AtHand, PCs

LEMMA LookingTyped ==
  ASSUME World, NEW j, Typed(j), NEW k, Looking(j, k)
  PROVE  Typed(k)
<1> DEFINE pair == j.kind \in {"before", "after"} => Paired(j)
<1>1. /\ HasType(j) /\ Asked(j) /\ j.pc \in {"uri", "lookup", "archival", "store"} /\ j.kind \in ByChains /\ pair
      /\ j.uuids # <<>> /\ Head(j.uuids) \in UUIDs
  <2>1. j.pc \in {"uri", "lookup", "archival", "store"}
    BY DEF Looking, Looks, Access, Archival, Narrows, Limits, Good
  <2>2. QED
    BY <2>1, AtHandIs DEF Typed, HasType, KindsAt, AtHand
<1>2. /\ IsJob(k) /\ k.uuids = j.uuids /\ k.series = j.series /\ k.kind = j.kind /\ k.params = j.params /\ k.err = j.err
      /\ k.pc \in {"lookup", "archival", "store", "read", "mask"}
      /\ (k.pc = "read" => k.kind \in {"in", "stat"}) /\ (k.pc = "mask" => k.kind \notin {"in", "stat"})
  BY DEF Looking, Looks, Access, Archival, Narrows, Limits, Only, Fields
<1>3. k.ranges \in Seq(TimeRange) /\ k.req \in TimeRange /\ k.copies \in Nat
  <2>1. j.ranges \in Seq(TimeRange) /\ j.req \in TimeRange /\ j.copies \in Nat
    BY <1>1 DEF HasType
  <2>2. CASE Looks(j, k)
    BY <2>1, <2>2 DEF Looks, Only, Fields
  <2>3. CASE Access(j, k) \/ Archival(j, k)
    <3>1. <<>> \in Seq(TimeRange)
      OBVIOUS
    <3>2. k.ranges \in Seq(TimeRange)
      BY <2>1, <2>3, <3>1, CurrentIs, FoundType DEF Access, Archival, GetAccessDOTChains, GetArchivalDOTChains
    <3>3. QED
      BY <2>1, <2>3, <3>2 DEF Access, Archival, Only, Fields
  <2>4. CASE Narrows(j, k)
    <3>1. k.ranges \in Seq(TimeRange)
      BY <2>4, GoodIs DEF Narrows
    <3>2. Narrowed(j, k.ranges).rng \in TimeRange /\ Narrowed(j, k.ranges).n \in Nat
      BY <2>1, <3>1, NarrowedIs
    <3>3. k.req \in TimeRange /\ k.copies \in Nat
      BY <2>4, <3>2 DEF Narrows
    <3>4. QED
      BY <3>1, <3>3
  <2>5. CASE Limits(j, k)
    <3>1. k.ranges \in Seq(TimeRange)
      BY <2>5, GoodIs DEF Limits
    <3>2. QED
      BY <2>1, <2>5, <3>1 DEF Limits, Only, Fields
  <2>6. QED
    BY <2>2, <2>3, <2>4, <2>5 DEF Looking
<1>4. Asked(k)
  BY <1>1, <1>2 DEF Asked
<1>5. k.kind \in {"before", "after"} => Paired(k)
  BY <1>1, <1>2 DEF Paired
<1>6. HasType(k)
  BY <1>1, <1>2, <1>3 DEF HasType, PCs
<1>7. KindsAt(k)
  BY <1>1, <1>2 DEF KindsAt, ByChains
<1>8. QED
  BY <1>2, <1>4, <1>5, <1>6, <1>7 DEF Typed

LEMMA SkipsTyped ==
  ASSUME World, NEW j, Typed(j), NEW k, NEW found, Skips(j, k, found)
  PROVE  Typed(k)
<1>1. /\ HasType(j) /\ Asked(j) /\ j.pc = "streams" /\ j.kind \in {"before", "after", "changed"}
      /\ j.series \in Seq(DOMAIN data)
  BY DEF Typed, Skips, KindsAt
<1>2. /\ IsJob(k) /\ k.ranges = j.ranges /\ k.req = j.req /\ k.copies = j.copies /\ k.err = j.err /\ k.kind = j.kind
      /\ k.uuids = IF Len(j.uuids) = 1 THEN found ELSE Tail(j.uuids)
      /\ k.series = IF Len(j.uuids) = 1 THEN <<>> ELSE found
      /\ k.pc = IF Len(j.uuids) > 1 THEN "streams" ELSE IF found = <<>> THEN "done" ELSE "nearest"
  BY DEF Skips, Only, Fields
<1>3. found \in Seq(DOMAIN data)
  BY <1>1, Appended DEF Skips, StreamExists
<1>4. found \in Seq(UUIDs)
  <2>1. DOMAIN data \subseteq UUIDs
    BY DEF World, Store
  <2>2. QED
    BY <1>3, <2>1, SeqMonotonic
<1>5. /\ Tail(j.uuids) \in Seq(UUIDs) /\ Len(j.uuids) \in Nat \ {0} /\ (Len(j.uuids) # 1 => Tail(j.uuids) # <<>>)
  BY <1>1, AtHandIs DEF AtHand
<1>a. PICK n \in Nat \ {0} : n = Len(j.uuids)
  BY <1>5
<1>b. \/ n = 1 /\ k.uuids = found /\ k.series = <<>> /\ k.pc = (IF found = <<>> THEN "done" ELSE "nearest")
      \/ n > 1 /\ k.uuids = Tail(j.uuids) /\ k.uuids # <<>> /\ k.series = found /\ k.pc = "streams"
  <2>1. CASE n = 1
    BY <1>2, <1>a, <2>1
  <2>2. CASE n > 1
    <3>a. n # 1
      BY <2>2
    <3>1. Len(j.uuids) # 1 /\ Len(j.uuids) > 1
      BY <1>a, <2>2, <3>a
    <3>2. k.uuids = Tail(j.uuids) /\ k.series = found /\ k.pc = "streams"
      BY <1>2, <3>1
    <3>3. Tail(j.uuids) # <<>>
      BY <1>5, <3>1
    <3>4. QED
      BY <2>2, <3>2, <3>3
  <2>3. QED
    BY <2>1, <2>2
<1>6. k.uuids \in Seq(UUIDs) /\ (k.pc \in {"streams", "nearest"} => k.uuids # <<>>) /\ k.pc \in {"streams", "nearest", "done"}
  BY <1>4, <1>5, <1>b
<1>7. Asked(k)
  BY <1>1, AskedStays DEF Skips
<1>8. HasType(k)
  BY <1>1, <1>2, <1>6 DEF HasType, PCs, AtHand
<1>9. <<>> \in Seq(Serie)
  OBVIOUS
<1>10. /\ k.pc = "streams" => k.series \in Seq(DOMAIN data)
       /\ k.pc = "nearest" => k.uuids \in Seq(DOMAIN data) /\ k.series \in Seq(Serie)
  BY <1>3, <1>9, <1>b
<1>11. QED
  BY <1>1, <1>2, <1>6, <1>7, <1>8, <1>10 DEF Typed, KindsAt

\* The next stream of what is left.
LEMMA GoesTyped ==
  ASSUME NEW j, Typed(j), j.pc \in AtHand, NEW k, NEW pc, Goes(j, k, pc)
  PROVE  k.uuids \in Seq(UUIDs) /\ k.ranges = <<>> /\ k.pc \in {"done", pc} /\ (k.pc # "done" => k.uuids # <<>>)
BY AtHandIs DEF Goes

LEMMA ReadTyped ==
  ASSUME World, NEW j, Typed(j), NEW k, Leaves(j, k) \/ Extends(j, k)
  PROVE  Typed(k)
<1>1. HasType(j) /\ Asked(j) /\ j.pc = "read" /\ j.kind \in {"in", "stat"}
  BY DEF Typed, KindsAt, Leaves, Extends
<1>2. IsJob(k) /\ k.req = j.req /\ k.err = j.err /\ k.kind = j.kind
  BY DEF Leaves, Extends, Only, Fields
<1>3. Asked(k)
  BY <1>1, AskedStays DEF Leaves, Extends
<1>4. CASE Leaves(j, k)
  <2>1. /\ k.uuids \in Seq(UUIDs) /\ k.ranges = <<>> /\ k.pc \in {"done", "uri"}
        /\ (k.pc # "done" => k.uuids # <<>>) /\ k.copies = j.copies
    BY <1>1, <1>4, GoesTyped DEF Leaves, AtHand, Only, Fields
  <2>2. <<>> \in Seq(TimeRange)
    OBVIOUS
  <2>3. HasType(k)
    BY <1>1, <1>2, <2>1, <2>2 DEF HasType, PCs, AtHand
  <2>4. QED
    BY <1>1, <1>2, <1>3, <2>1, <2>3 DEF Typed, KindsAt, ByChains
<1>5. CASE Extends(j, k)
  <2>1. k.uuids = j.uuids /\ k.ranges = j.ranges /\ k.pc = "read" /\ k.copies = j.copies - 1 /\ j.copies > 0
    BY <1>1, <1>5 DEF Extends, Only, Fields
  <2>2. HasType(k)
    BY <1>1, <1>2, <2>1 DEF HasType
  <2>3. QED
    BY <1>1, <1>2, <1>3, <2>1, <2>2 DEF Typed, KindsAt
<1>6. QED
  BY <1>4, <1>5

LEMMA NearestTyped ==
  ASSUME World, NEW j, Typed(j), NEW k, Changes1(j, k) \/ GoesOn(j, k)
  PROVE  Typed(k)
<1>1. /\ HasType(j) /\ Asked(j) /\ j.pc = "nearest" /\ j.kind \in {"before", "after", "changed"}
      /\ j.uuids \in Seq(DOMAIN data) /\ j.uuids # <<>> /\ j.series \in Seq(Serie)
  BY DEF Typed, HasType, KindsAt, Changes1, GoesOn, AtHand
<1>2. IsJob(k) /\ k.req = j.req /\ k.err = j.err /\ k.kind = j.kind /\ k.copies = j.copies
  BY DEF Changes1, GoesOn, Only, Fields
<1>3. Asked(k)
  BY <1>1, AskedStays DEF Changes1, GoesOn
<1>4. Tail(j.uuids) \in Seq(DOMAIN data)
  BY <1>1, Tails
<1>5. CASE Changes1(j, k)
  <2>1. /\ k.uuids \in Seq(UUIDs) /\ k.ranges = <<>> /\ k.pc \in {"done", "nearest"}
        /\ (k.pc # "done" => k.uuids # <<>>) /\ k.series = j.series /\ k.uuids = Tail(j.uuids)
    BY <1>1, <1>5, GoesTyped DEF Changes1, AtHand, Only, Fields, Goes
  <2>2. <<>> \in Seq(TimeRange)
    OBVIOUS
  <2>3. HasType(k)
    BY <1>1, <1>2, <2>1, <2>2 DEF HasType, PCs, AtHand
  <2>4. QED
    BY <1>1, <1>2, <1>3, <1>4, <2>1, <2>3 DEF Typed, KindsAt
<1>6. CASE GoesOn(j, k)
  <2>1. /\ k.uuids = Tail(j.uuids) /\ k.ranges = j.ranges /\ k.pc = "nearest"
        /\ k.uuids # <<>> /\ k.series = With(j) /\ Point(j) # <<>>
    BY <1>1, <1>6 DEF GoesOn, Only, Fields
  <2>2. Tail(j.uuids) \in Seq(UUIDs)
    BY <1>1, AtHandIs DEF AtHand
  <2>3. HasType(k)
    BY <1>1, <1>2, <2>1, <2>2 DEF HasType, PCs, AtHand
  <2>4. k.series \in Seq(Serie)
    BY <1>1, <2>1, WithIs
  <2>5. QED
    BY <1>1, <1>2, <1>3, <1>4, <2>1, <2>3, <2>4 DEF Typed, KindsAt
<1>7. QED
  BY <1>5, <1>6

LEMMA MasksTyped ==
  ASSUME World, NEW j, Typed(j), NEW k, Masks(j, k)
  PROVE  Typed(k)
<1>1. /\ HasType(j) /\ Asked(j) /\ j.pc = "nearest" /\ j.kind \in {"before", "after"}
      /\ j.uuids # <<>> /\ j.series \in Seq(Serie)
  BY DEF Typed, HasType, KindsAt, Masks, AtHand
<1>2. /\ IsJob(k) /\ k.req = j.req /\ k.err = j.err /\ k.kind = j.kind /\ k.copies = j.copies /\ k.ranges = j.ranges
      /\ k.uuids = [i \in DOMAIN k.series |-> k.series[i].uuid]
      /\ k.pc = IF k.series = <<>> THEN "done" ELSE "uri"
  BY DEF Masks, Only, Fields
<1>3. Asked(k)
  BY <1>1, AskedStays DEF Masks
<1>4. PICK s \in Seq(Serie) : s = k.series
  BY <1>1, WithIs DEF Masks
<1>5. PICK n \in Nat : n = Len(s) /\ DOMAIN s = 1..n
  OBVIOUS
<1>6. \A i \in 1..n : s[i] \in Serie
  BY <1>5, ElementOfSeq
<1>7. \A i \in 1..n : s[i].uuid \in UUIDs
  BY <1>6 DEF Serie
<1>8. PICK us : us = [i \in 1..n |-> s[i].uuid]
  OBVIOUS
<1>9. us \in Seq(UUIDs) /\ Len(us) = n /\ \A i \in DOMAIN s : us[i] = s[i].uuid
  BY <1>5, <1>7, <1>8
<1>10. k.uuids = us
  BY <1>2, <1>4, <1>5, <1>8
<1>11. k.pc \in {"done", "uri"} /\ (k.pc # "done" => k.uuids # <<>>)
  <2>1. s # <<>> => n # 0
    BY <1>5
  <2>2. s # <<>> => us # <<>>
    BY <1>9, <2>1
  <2>3. QED
    BY <1>2, <1>4, <1>10, <2>2
<1>12. Paired(k)
  BY <1>4, <1>5, <1>9, <1>10 DEF Paired
<1>13. HasType(k)
  BY <1>1, <1>2, <1>9, <1>10, <1>11 DEF HasType, PCs, AtHand
<1>14. QED
  BY <1>1, <1>2, <1>3, <1>11, <1>12, <1>13 DEF Typed, KindsAt, ByChains

LEMMA MasksOneTyped ==
  ASSUME World, NEW j, Typed(j), NEW k, MasksOne(j, k)
  PROVE  Typed(k)
<1>1. /\ HasType(j) /\ Asked(j) /\ j.pc = "mask" /\ j.kind \in {"before", "after"} /\ Paired(j) /\ j.uuids # <<>>
  BY DEF Typed, HasType, KindsAt, MasksOne, AtHand
<1>2. /\ IsJob(k) /\ k.req = j.req /\ k.err = j.err /\ k.kind = j.kind /\ k.copies = j.copies /\ k.series = Tail(j.series)
      /\ k.uuids = Tail(j.uuids)
  BY DEF MasksOne, Only, Fields, Goes
<1>3. Asked(k)
  BY <1>1, AskedStays DEF MasksOne
<1>4. /\ k.uuids \in Seq(UUIDs) /\ k.ranges = <<>> /\ k.pc \in {"done", "uri"} /\ (k.pc # "done" => k.uuids # <<>>)
  BY <1>1, GoesTyped DEF MasksOne, AtHand
<1>5. <<>> \in Seq(TimeRange)
  OBVIOUS
<1>6. HasType(k)
  BY <1>1, <1>2, <1>4, <1>5 DEF HasType, PCs, AtHand
<1>7. Paired(k)
  <2>1. /\ j.series \in Seq(Serie) /\ j.uuids \in Seq(UUIDs) /\ Len(j.series) = Len(j.uuids)
        /\ \A i \in DOMAIN j.series : j.uuids[i] = j.series[i].uuid
    BY <1>1 DEF Paired, HasType
  <2>2. j.series # <<>>
    BY <1>1, <2>1
  <2>3. /\ Tail(j.series) \in Seq(Serie) /\ Len(Tail(j.series)) = Len(j.series) - 1
        /\ DOMAIN Tail(j.series) = 1..(Len(j.series) - 1)
        /\ \A i \in 1..(Len(j.series) - 1) : Tail(j.series)[i] = j.series[i + 1] /\ i + 1 \in DOMAIN j.series
    BY <2>1, <2>2, Tails
  <2>4. /\ Len(Tail(j.uuids)) = Len(j.uuids) - 1
        /\ \A i \in 1..(Len(j.uuids) - 1) : Tail(j.uuids)[i] = j.uuids[i + 1]
    BY <1>1, <2>1, Tails
  <2>5. PICK s, us : s = Tail(j.series) /\ us = Tail(j.uuids)
    OBVIOUS
  <2>6. Len(s) = Len(us) /\ s \in Seq(Serie) /\ \A i \in DOMAIN s : us[i] = s[i].uuid
    BY <2>1, <2>3, <2>4, <2>5
  <2>7. QED
    BY <1>2, <2>5, <2>6 DEF Paired
<1>8. QED
  BY <1>1, <1>2, <1>3, <1>4, <1>6, <1>7 DEF Typed, KindsAt, ByChains

LEMMA StepTyped ==
  ASSUME World, NEW j, Typed(j), NEW k, JobStep(j, k)
  PROVE  Typed(k)
BY AsksTyped, NoJobTyped, FindingTyped, GroupsTyped, EndsTyped, LookingTyped, SkipsTyped, ReadTyped,
   NearestTyped, MasksTyped, MasksOneTyped DEF JobStep, Reading

\* As streams are only added, a job keeps its types whatever others do.
LEMMA TypedStays ==
  ASSUME NEW j, Typed(j), Grows
  PROVE  Typed(j)'
<1>1. DOMAIN data \subseteq DOMAIN data'
  BY DEF Grows
<1>2. \A s \in Seq(DOMAIN data) : s \in Seq(DOMAIN data')
  BY <1>1, SeqMonotonic
<1>3. HasType(j)' /\ KindsAt(j)' /\ (Asked(j) => Asked(j)') /\ (Paired(j) => Paired(j)')
  BY DEF Typed, HasType, KindsAt, Asked, Paired
<1>4. QED
  BY <1>2, <1>3 DEF Typed

\* A step in which one worker makes k of its job, or none does anything.
Jobs(w, k) == job' = [job EXCEPT ![w] = k]

\* Each step is that of a worker, or one of the others, or nothing.
LEMMA Steps ==
  ASSUME Types, [Next]_vars
  PROVE  \/ \E w \in Workers : Touches(w) /\ \E k : Jobs(w, k) /\ JobStep(job[w], k)
         \/ Others
         \/ UNCHANGED vars
<1>1. ASSUME NEW w \in Workers, (\E q \in load.queries[w] : Ask(w, q)) \/ Work(w)
      PROVE  Touches(w) /\ \E k : Jobs(w, k) /\ JobStep(job[w], k)
  BY <1>1, WorkersTouch, WorkersStep DEF Jobs, Becomes
<1>2. ASSUME ~down, StreamStep, UNCHANGED <<load, dotVars, job, down, faults>> PROVE Others
  BY <1>2 DEF Others
<1>3. ASSUME ~down, Registry, UNCHANGED <<load, data, storeVars, job, down, faults>> PROVE Others
  BY <1>3 DEF Others
<1>4. QED
  BY <1>1, <1>2, <1>3 DEF Next

LEMMA InitTypes == Init => Types
<1> SUFFICES ASSUME Init PROVE Types
  OBVIOUS
<1>1. job = [w \in Workers |-> NoJob] /\ load \in Loads /\ DotInit
  BY DEF Init
<1>2. DOMAIN job = Workers /\ \A w \in Workers : Typed(job[w])
  BY <1>1, NoJobTyped
<1>3. Store
  <2>1. /\ load.data \in [DOMAIN load.data -> Seq(Stored)] /\ DOMAIN load.data \subseteq UUIDs
        /\ load.feed \in [UUIDs -> Seq(Stored)]
    BY <1>1, ApiAssumption
  <2>2. data = load.data /\ docs = DOMAIN load.data /\ mapped = DOMAIN load.data /\ feed = load.feed
    BY DEF Init
  <2>3. QED
    BY <2>1, <2>2 DEF Store
<1>4. Dots
  <2>1. registry = <<Granted>> /\ Granted \in SUBSET DOTs /\ load.changes \in Nat
    BY <1>1, DOTAssumption, ApiAssumption DEF DotInit
  <2>2. registry \in Seq(SUBSET DOTs) /\ Len(registry) \in 1..(load.changes + 1)
    <3>1. PICK n \in Nat : n = load.changes
      BY <2>1
    <3>2. Len(registry) = 1 /\ registry \in Seq(SUBSET DOTs)
      BY <2>1
    <3>3. QED
      BY <3>1, <3>2
  <2>3. NotCached \in [ranges : Seq(TimeRange), ttl : 0..Expiry]
    BY DOTAssumption DEF NotCached
  <2>4. /\ cache \in [Streams -> [ranges : Seq(TimeRange), ttl : 0..Expiry]]
        /\ canread \in [Streams -> {"none", "yes", "no"}]
    BY <1>1, <2>3 DEF DotInit
  <2>5. QED
    BY <2>2, <2>4 DEF Dots
<1>5. down \in BOOLEAN /\ faults \in 0..load.faults
  <2>1. PICK n \in Nat : n = load.faults
    BY <1>1, ApiAssumption
  <2>2. 0 \in 0..load.faults
    BY <2>1
  <2>3. down = FALSE /\ faults = 0
    BY DEF Init
  <2>4. QED
    BY <2>2, <2>3
<1>6. QED
  BY <1>1, <1>2, <1>3, <1>4, <1>5 DEF Types, World

LEMMA NextTypes == Types /\ [Next]_vars => Types'
<1> SUFFICES ASSUME Types, [Next]_vars PROVE Types'
  OBVIOUS
<1>1. World /\ DOMAIN job = Workers /\ \A w \in Workers : Typed(job[w])
  BY DEF Types
<1>2. ASSUME NEW w \in Workers, Touches(w), NEW k, Jobs(w, k), JobStep(job[w], k)
      PROVE  Types'
  <2>1. World' /\ Grows
    BY <1>2, TouchesWorld, TouchesGrows
  <2>2. Typed(k)
    BY <1>1, <1>2, StepTyped
  <2>3. DOMAIN job' = Workers /\ \A v \in Workers : job'[v] = IF v = w THEN k ELSE job[v]
    BY <1>1, <1>2 DEF Jobs
  <2>4. ASSUME NEW v \in Workers PROVE Typed(job[v])'
    <3>1. PICK i : i = job'[v] /\ Typed(i)
      BY <1>1, <2>2, <2>3
    <3>2. Typed(i)'
      BY <2>1, <3>1, TypedStays
    <3>3. QED
      BY <3>1, <3>2
  <2>5. QED
    BY <2>1, <2>3, <2>4 DEF Types
<1>3. CASE Others
  <2>1. World' /\ Grows /\ job' = job
    BY <1>1, <1>3, OthersWorld DEF Others
  <2>2. ASSUME NEW v \in Workers PROVE Typed(job[v])'
    <3>1. PICK i : i = job[v] /\ Typed(i)
      BY <1>1
    <3>2. Typed(i)'
      BY <2>1, <3>1, TypedStays
    <3>3. QED
      BY <2>1, <3>1, <3>2
  <2>3. QED
    BY <1>1, <2>1, <2>2 DEF Types
<1>4. CASE UNCHANGED vars
  <2>1. UNCHANGED <<load, registry, cache, canread, data, docs, mapped, feed, job, down, faults>>
    BY <1>4 DEF vars, dotVars, storeVars
  <2>2. World' /\ Grows
    BY <1>1, <2>1 DEF World, Dots, Store, Grows
  <2>3. ASSUME NEW v \in Workers PROVE Typed(job[v])'
    <3>1. PICK i : i = job[v] /\ Typed(i)
      BY <1>1
    <3>2. Typed(i)'
      BY <2>2, <3>1, TypedStays
    <3>3. QED
      BY <2>1, <3>1, <3>2
  <2>4. QED
    BY <1>1, <2>1, <2>2, <2>3 DEF Types
<1>5. QED
  BY <1>2, <1>3, <1>4, Steps

LEMMA Typing == Spec => []Types
BY InitTypes, NextTypes, PTL DEF Spec

\* Whatever workers are asked and whatever goes on around them, every variable has its type,
\* and a worker that has a stream at hand has one left.
THEOREM ApiTypeCorrect == Spec => []ApiTypeOK
<1>1. Types => ApiTypeOK
  <2> SUFFICES ASSUME Types PROVE ApiTypeOK
    OBVIOUS
  <2>1. World
    BY DEF Types
  <2>2. /\ load \in Loads /\ docs \subseteq UUIDs /\ mapped \subseteq docs /\ DOMAIN data \subseteq mapped
        /\ \A u \in DOMAIN data : data[u] \in Seq(Stored)
        /\ feed \in [UUIDs -> Seq(Stored)] /\ down \in BOOLEAN /\ faults \in 0..load.faults
        /\ registry \in Seq(SUBSET DOTs) /\ Len(registry) \in 1..(load.changes + 1)
        /\ canread \in [Streams -> {"none", "yes", "no"}]
    BY <2>1 DEF World, Dots, Store
  <2>3. \A u \in Streams : cache[u].ttl \in 0..Expiry /\ cache[u].ranges \in Seq(TimeRange)
    BY <2>1 DEF World, Dots
  <2>4. \A w \in Workers : HasType(job[w])
    BY DEF Types, Typed
  <2>5. QED
    BY <2>2, <2>3, <2>4 DEF ApiTypeOK, HasType, PCs, AtHand
<1>2. QED
  BY <1>1, Typing, PTL
-----------------------------------------------------------------------------
(* Results are lists of series, which grow at their end.                    *)

Listed(s) == s \in Seq(Range(s))

LEMMA ListedIs ==
  ASSUME NEW E, NEW s \in Seq(E)
  PROVE  Listed(s)
<1>1. PICK n \in Nat : n = Len(s) /\ DOMAIN s = 1..n
  OBVIOUS
<1>2. \A i \in 1..n : s[i] \in Range(s)
  BY <1>1 DEF Range
<1>3. s \in [1..n -> Range(s)]
  <2>1. s \in [1..n -> E]
    BY <1>1
  <2>2. QED
    BY <1>2, <2>1
<1>4. QED
  BY <1>1, <1>3 DEF Listed

LEMMA ListedEmpty == Listed(<<>>) /\ Range(<<>>) = {}
<1>1. <<>> \in Seq({}) /\ DOMAIN <<>> = {}
  OBVIOUS
<1>2. Range(<<>>) = {}
  BY <1>1 DEF Range
<1>3. QED
  BY <1>1, <1>2 DEF Listed

LEMMA ListedAppend ==
  ASSUME NEW s, Listed(s), NEW e, NEW t, t = Append(s, e)
  PROVE  /\ Listed(t) /\ Len(s) \in Nat /\ DOMAIN s = 1..Len(s)
         /\ Len(t) = Len(s) + 1 /\ DOMAIN t = 1..(Len(s) + 1)
         /\ t[Len(s) + 1] = e /\ \A i \in 1..Len(s) : t[i] = s[i]
         /\ Range(t) = Range(s) \cup {e}
<1>1. PICK E : E = Range(s) \cup {e}
  OBVIOUS
<1>2. s \in Seq(E) /\ e \in E
  <2>1. Range(s) \subseteq E /\ s \in Seq(Range(s))
    BY <1>1 DEF Listed
  <2>2. QED
    BY <1>1, <2>1, SeqMonotonic
<1>3. /\ t \in Seq(E) /\ Len(s) \in Nat /\ DOMAIN s = 1..Len(s)
      /\ Len(t) = Len(s) + 1 /\ DOMAIN t = 1..(Len(s) + 1)
      /\ t[Len(s) + 1] = e
      /\ \A i \in 1..Len(s) : t[i] = s[i]
  BY <1>2, Appended
<1>4. PICK n \in Nat : n = Len(s) /\ DOMAIN s = 1..n /\ DOMAIN t = 1..(n + 1) /\ t[n + 1] = e /\ \A i \in 1..n : t[i] = s[i]
  BY <1>3
<1>5. \A i \in 1..(n + 1) : i \in 1..n \/ i = n + 1
  OBVIOUS
<1>6. Range(t) = Range(s) \cup {e}
  <2>1. \A x \in Range(t) : x \in Range(s) \cup {e}
    BY <1>4, <1>5 DEF Range
  <2>2. \A i \in 1..n : i \in 1..(n + 1)
    OBVIOUS
  <2>3. \A x \in Range(s) : x \in Range(t)
    BY <1>4, <2>2 DEF Range
  <2>4. e \in Range(t)
    <3>1. n + 1 \in DOMAIN t
      BY <1>4
    <3>2. QED
      BY <1>4, <3>1 DEF Range
  <2>5. QED
    BY <2>1, <2>3, <2>4
<1>7. QED
  BY <1>3, <1>6, ListedIs

LEMMA AppendRange ==
  ASSUME NEW s, Listed(s), NEW e
  PROVE  Listed(Append(s, e)) /\ Range(Append(s, e)) = Range(s) \cup {e}
BY ListedAppend

\* What is known of every series of a result.
IsSerie(ts) == {"uuid", "recs", "ranges"} \subseteq DOMAIN ts /\ ts.uuid \in UUIDs /\ ts.ranges \in Seq(TimeRange)

\* The last series of a list gets other readings.
Extended(s, t, recs) ==
  /\ Listed(t) /\ Len(t) = Len(s) /\ DOMAIN t = DOMAIN s
  /\ \A i \in DOMAIN s : i # Len(s) => t[i] = s[i]
  /\ Len(s) \in DOMAIN s
  /\ DOMAIN t[Len(s)] = DOMAIN s[Len(s)] /\ t[Len(s)].uuid = s[Len(s)].uuid /\ t[Len(s)].ranges = s[Len(s)].ranges
  /\ t[Len(s)].recs = recs

LEMMA ExtendedIs ==
  ASSUME NEW s, Listed(s), s # <<>>, IsSerie(s[Len(s)]), NEW recs, NEW t,
         t = [s EXCEPT ![Len(s)].recs = recs]
  PROVE  Extended(s, t, recs)
<1>1. PICK n \in Nat : n = Len(s) /\ DOMAIN s = 1..n
  BY DEF Listed
<1>2. n \in 1..n
  <2>1. n # 0
    BY <1>1 DEF Listed
  <2>2. QED
    BY <2>1
<1>3. PICK e : e = [s[n] EXCEPT !.recs = recs]
  OBVIOUS
<1>4. DOMAIN e = DOMAIN s[n] /\ e.uuid = s[n].uuid /\ e.ranges = s[n].ranges /\ e.recs = recs
  BY <1>1, <1>3 DEF IsSerie
<1>5. t = [s EXCEPT ![n] = e]
  BY <1>1, <1>3
<1>6. DOMAIN t = 1..n /\ t[n] = e /\ \A i \in 1..n : i # n => t[i] = s[i]
  BY <1>1, <1>2, <1>5
<1>7. PICK E : E = Range(s) \cup {e} /\ t \in Seq(E)
  <2>1. PICK E : E = Range(s) \cup {e}
    OBVIOUS
  <2>2. Range(s) \subseteq E /\ s \in Seq(Range(s)) /\ e \in E
    BY <2>1 DEF Listed
  <2>3. s \in Seq(E)
    BY <2>2, SeqMonotonic
  <2>4. n \in 1..Len(s)
    BY <1>1, <1>2
  <2>5. [s EXCEPT ![n] = e] \in Seq(E)
    BY <2>2, <2>3, <2>4, ExceptSeq
  <2>6. QED
    BY <1>5, <2>1, <2>5
<1>8. Listed(t) /\ Len(t) = n
  <2>1. Listed(t)
    BY <1>7, ListedIs
  <2>2. Len(t) = n
    <3>1. PICK m \in Nat : m = Len(t) /\ DOMAIN t = 1..m
      BY <1>7
    <3>2. QED
      BY <1>6, <3>1
  <2>3. QED
    BY <2>1, <2>2
<1>9. QED
  BY <1>1, <1>2, <1>4, <1>6, <1>8 DEF Extended

-----------------------------------------------------------------------------
(* What DOTs gave.                                                          *)

\* The lists of ranges access DOTs may have given until now.
GivenAccess(u) == UNION {Found(<<>>, "access", u, registry[i]) : i \in DOMAIN registry}

LEMMA AccessGiven ==
  ASSUME World, NEW u, NEW r \in GetAccessDOTChains(u)
  PROVE  r \in GivenAccess(u)
BY CurrentIs DEF GetAccessDOTChains, GivenAccess

LEMMA ArchivalGiven ==
  ASSUME World, NEW u, NEW a \in GivenAccess(u), NEW r \in GetArchivalDOTChains(u, a)
  PROVE  r \in Given(u)
<1>1. PICK i \in DOMAIN registry : a \in Found(<<>>, "access", u, registry[i])
  BY DEF GivenAccess
<1>2. PICK n : n = Len(registry) /\ n \in DOMAIN registry /\ Current = registry[n]
  BY CurrentIs
<1>3. i <= n
  <2>1. DOMAIN registry = 1..n
    BY <1>2, CurrentIs
  <2>2. QED
    BY <1>1, <1>2, <2>1
<1>a. PICK p : p = <<i, n>>
  OBVIOUS
<1>4. p[1] = i /\ p[2] = n
  BY <1>a
<1>5. p \in {ik \in (DOMAIN registry) \X (DOMAIN registry) : ik[1] <= ik[2]}
  BY <1>1, <1>2, <1>3, <1>a, <1>4
<1>6. r \in Found(a, "archive", u, registry[p[2]]) /\ a \in Found(<<>>, "access", u, registry[p[1]])
  BY <1>1, <1>2, <1>4 DEF GetArchivalDOTChains
<1>7. QED
  BY <1>5, <1>6 DEF Given

LEMMA GivenType ==
  ASSUME World, NEW u
  PROVE  Given(u) \subseteq Seq(TimeRange)
<1>1. \A i \in DOMAIN registry : registry[i] \in SUBSET DOTs
  BY CurrentIs, ElementOfSeq
<1>2. <<>> \in Seq(TimeRange)
  OBVIOUS
<1>3. ASSUME NEW p \in (DOMAIN registry) \X (DOMAIN registry), NEW a \in Found(<<>>, "access", u, registry[p[1]])
      PROVE  Found(a, "archive", u, registry[p[2]]) \subseteq Seq(TimeRange)
  <2>1. registry[p[1]] \in SUBSET DOTs /\ registry[p[2]] \in SUBSET DOTs
    BY <1>1, <1>3
  <2>2. a \in Seq(TimeRange)
    BY <1>2, <1>3, <2>1, FoundType
  <2>3. QED
    BY <2>1, <2>2, FoundType
<1>4. QED
  BY <1>3 DEF Given

\* What the registry held it held, and what was given was given.
LEMMA RegistryKept ==
  ASSUME World, Grows
  PROVE  DOMAIN registry \subseteq DOMAIN registry' /\ \A i \in DOMAIN registry : registry'[i] = registry[i]
<1>1. registry \in Seq(SUBSET DOTs)
  BY CurrentIs
<1>2. CASE registry' = registry
  BY <1>2
<1>3. ASSUME NEW reg, registry' = Append(registry, reg)
      PROVE  DOMAIN registry \subseteq DOMAIN registry' /\ \A i \in DOMAIN registry : registry'[i] = registry[i]
  <2>1. PICK t : t = registry'
    OBVIOUS
  <2>2. PICK n \in Nat : /\ n = Len(registry) /\ DOMAIN registry = 1..n
                         /\ DOMAIN t = 1..(n + 1) /\ \A i \in 1..n : t[i] = registry[i]
    BY <1>1, <1>3, <2>1, ListedIs, ListedAppend
  <2>3. QED
    BY <2>1, <2>2
<1>4. QED
  BY <1>2, <1>3 DEF Grows

LEMMA GivenStays ==
  ASSUME World, Grows, NEW u
  PROVE  Given(u) \subseteq Given(u)' /\ GivenAccess(u) \subseteq GivenAccess(u)'
<1>1. PICK old, new : old = registry /\ new = registry' /\ DOMAIN old \subseteq DOMAIN new /\ \A i \in DOMAIN old : new[i] = old[i]
  BY RegistryKept
<1>2. GivenAccess(u) \subseteq GivenAccess(u)'
  BY <1>1 DEF GivenAccess
<1>3. Given(u) \subseteq Given(u)'
  <2> SUFFICES ASSUME NEW x \in Given(u) PROVE x \in Given(u)'
    OBVIOUS
  <2>1. PICK p \in {ik \in (DOMAIN old) \X (DOMAIN old) : ik[1] <= ik[2]} :
          x \in UNION {Found(r, "archive", u, old[p[2]]) : r \in Found(<<>>, "access", u, old[p[1]])}
    BY <1>1 DEF Given
  <2>2. p \in {ik \in (DOMAIN new) \X (DOMAIN new) : ik[1] <= ik[2]} /\ new[p[1]] = old[p[1]] /\ new[p[2]] = old[p[2]]
    BY <1>1, <2>1
  <2>3. x \in UNION {Found(r, "archive", u, new[p[2]]) : r \in Found(<<>>, "access", u, new[p[1]])}
    BY <2>1, <2>2
  <2>4. QED
    BY <1>1, <2>2, <2>3 DEF Given
<1>4. QED
  BY <1>2, <1>3
-----------------------------------------------------------------------------
(* The steps of a query that is answered by chains.                         *)

SameQuery(j, k) == k.q = j.q /\ k.kind = j.kind /\ k.params = j.params /\ k.had = j.had /\ IsJob(k)

\* The result stays as it is, and no stream is at hand whose ranges are known.
Quiet(j, k) ==
  /\ SameQuery(j, k) /\ k.asked = j.asked /\ k.req = j.req /\ k.result = j.result /\ k.err = j.err
  /\ k.copies = j.copies

\* The steps in which such a query neither gets a result nor finds ranges.
Passes(j, k) ==
  Looks(j, k) \/ Leaves(j, k) \/ GoesOn(j, k) \/ Masks(j, k) \/ Panics(j, k) \/ \E found : Skips(j, k, found)

LEMMA StepSorts ==
  ASSUME NEW j, Typed(j), NEW k, JobStep(j, k)
  PROVE  \/ Asks(j, k) \/ k = NoJob
         \/ SameQuery(j, k) /\ k.kind \notin ByChains
         \/ /\ SameQuery(j, k) /\ j.kind \in ByChains
            /\ \/ Passes(j, k) \/ Prepares(j, k) \/ Stops(j, k) \/ Access(j, k) \/ Archival(j, k) \/ Narrows(j, k)
               \/ Limits(j, k) \/ Extends(j, k) \/ MasksOne(j, k)
<1>1. ASSUME Finding(j, k) PROVE SameQuery(j, k) /\ (j.kind \in ByChains => Prepares(j, k))
  BY <1>1 DEF Finding, FindsTags, FindsDistinct, Prepares, SameQuery, Only, Fields, ByChains
<1>2. ASSUME NEW b, Groups(j, k, b) PROVE SameQuery(j, k) /\ j.kind \notin ByChains
  BY <1>2 DEF Groups, SameQuery, Only, Fields, ByChains, Typed, KindsAt
<1>3. ASSUME Looking(j, k) PROVE SameQuery(j, k)
  BY <1>3 DEF Looking, Looks, Access, Archival, Narrows, Limits, SameQuery, Only, Fields
<1>4. ASSUME Leaves(j, k) \/ Extends(j, k) \/ GoesOn(j, k) \/ Masks(j, k) \/ MasksOne(j, k) PROVE SameQuery(j, k)
  BY <1>4 DEF Leaves, Extends, GoesOn, Masks, MasksOne, SameQuery, Only, Fields
<1>5. ASSUME Changes1(j, k) PROVE SameQuery(j, k) /\ j.kind \notin ByChains
  BY <1>5 DEF Changes1, SameQuery, Only, Fields, ByChains
<1>6. ASSUME NEW found, Skips(j, k, found) PROVE SameQuery(j, k)
  BY <1>6 DEF Skips, SameQuery, Only, Fields
<1>7. ASSUME Stops(j, k) \/ Panics(j, k) PROVE SameQuery(j, k)
  BY <1>7 DEF Stops, Panics, SameQuery, Only, Fields
<1>8. CASE Reading(j, k)
  BY <1>4, <1>5, <1>6, <1>8 DEF Reading, Passes, SameQuery
<1>9. CASE Looking(j, k)
  BY <1>3, <1>9 DEF Looking, Passes, SameQuery
<1>10. CASE Stops(j, k) \/ Panics(j, k)
  BY <1>7, <1>10 DEF Passes, SameQuery
<1>11. CASE Finding(j, k) \/ \E b \in BOOLEAN : Groups(j, k, b)
  BY <1>1, <1>2, <1>11 DEF SameQuery
<1>12. CASE Asks(j, k) \/ (j.pc = "done" /\ k = NoJob)
  BY <1>12
<1>13. QED
  BY <1>8, <1>9, <1>10, <1>11, <1>12 DEF JobStep

LEMMA PassesQuietly ==
  ASSUME NEW j, NEW k, Passes(j, k)
  PROVE  Quiet(j, k) /\ k.pc \notin {"idle", "find", "archival", "store", "mask", "read"}
<1>1. ASSUME Looks(j, k) \/ Leaves(j, k) \/ Masks(j, k) \/ Panics(j, k) PROVE Quiet(j, k) /\ k.pc \in {"lookup", "done", "uri", "panic"}
  BY <1>1 DEF Looks, Leaves, Goes, Masks, Panics, Quiet, SameQuery, Only, Fields
<1>2. ASSUME GoesOn(j, k) PROVE Quiet(j, k) /\ k.pc = "nearest"
  BY <1>2 DEF GoesOn, Quiet, SameQuery, Only, Fields
<1>3. ASSUME NEW found, Skips(j, k, found) PROVE Quiet(j, k) /\ k.pc \in {"streams", "nearest", "done"}
  BY <1>3 DEF Skips, Quiet, SameQuery, Only, Fields
<1>4. QED
  BY <1>1, <1>2, <1>3 DEF Passes

LEMMA PreparesIs ==
  ASSUME NEW j, NEW k, Prepares(j, k)
  PROVE  /\ SameQuery(j, k) /\ k.result = j.result /\ k.err = j.err /\ k.copies = j.copies /\ k.asked = k.req
         /\ k.series = j.series /\ k.pc \in {"done", "uri", "streams"} /\ j.pc = "find"
BY DEF Prepares, SameQuery, Only, Fields

LEMMA StopsIs ==
  ASSUME NEW j, NEW k, Stops(j, k)
  PROVE  /\ SameQuery(j, k) /\ k.result \in {j.result, <<>>} /\ k.pc = "done" /\ k.err = TRUE
         /\ k.asked = j.asked /\ k.req = j.req /\ k.series = j.series
BY DEF Stops, SameQuery, Only, Fields

-----------------------------------------------------------------------------
(* The ranges of a result were given, and those of the stream at hand.      *)

\* What limits the series of an answer was given by DOTs.
RangesOK(j) ==
  /\ j.kind \in ByChains =>
       /\ Listed(j.result)
       /\ \A ts \in Range(j.result) : IsSerie(ts) /\ ts.ranges \in Given(ts.uuid)
  /\ j.pc = "archival" => j.ranges \in GivenAccess(Head(j.uuids))
  /\ j.pc \in {"store", "mask"} => j.ranges \in Given(Head(j.uuids))
  /\ j.pc = "read" => j.result # <<>>

CachesGiven == \A u \in Streams : cache[u].ttl > 0 => cache[u].ranges \in Given(u)

LEMMA GoodGiven ==
  ASSUME World, CachesGiven, NEW j, Typed(j), RangesOK(j), NEW r, Good(j, r)
  PROVE  r \in Given(Head(j.uuids)) /\ r \in Seq(TimeRange)
<1>1. CASE j.pc = "lookup" /\ Cached(Head(j.uuids)) /\ r = cache[Head(j.uuids)].ranges
  <2>1. Head(j.uuids) \in Streams
    BY <1>1, AtHandIs, ApiAssumption DEF AtHand
  <2>2. QED
    BY <1>1, <2>1, GoodIs DEF Cached, CachesGiven
<1>2. CASE j.pc = "store" /\ r = j.ranges
  BY <1>2, GoodIs DEF RangesOK
<1>3. QED
  BY <1>1, <1>2 DEF Good

LEMMA RangesStep ==
  ASSUME World, CachesGiven, NEW j, Typed(j), RangesOK(j), NEW k, Typed(k), JobStep(j, k)
  PROVE  RangesOK(k)
<1>e. Listed(<<>>) /\ Range(<<>>) = {}
  BY ListedEmpty
<1>1. CASE Asks(j, k)
  BY <1>1, <1>e DEF Asks, RangesOK
<1>2. CASE k = NoJob
  <2>1. NoJob.pc = "idle" /\ NoJob.kind = "none"
    BY DEF NoJob
  <2>2. QED
    BY <1>2, <2>1 DEF RangesOK, ByChains
<1>3. CASE k.kind \notin ByChains
  <2>1. k.pc \notin {"archival", "store", "mask", "read"}
    BY <1>3 DEF Typed, KindsAt, ByChains
  <2>2. QED
    BY <1>3, <2>1 DEF RangesOK
<1>4. ASSUME SameQuery(j, k), j.kind \in ByChains, k.result \in {j.result, <<>>}, k.pc \notin {"archival", "store", "mask", "read"}
      PROVE  RangesOK(k)
  BY <1>4, <1>e DEF RangesOK, SameQuery
<1>5. ASSUME Access(j, k), j.kind \in ByChains PROVE RangesOK(k)
  <2>1. k.result = j.result /\ k.kind = j.kind /\ k.pc = "archival" /\ k.uuids = j.uuids /\ k.ranges \in GivenAccess(Head(j.uuids))
    BY <1>5, AccessGiven DEF Access, Only, Fields
  <2>2. QED
    BY <1>5, <2>1 DEF RangesOK
<1>6. ASSUME Archival(j, k), j.kind \in ByChains PROVE RangesOK(k)
  <2>1. j.ranges \in GivenAccess(Head(j.uuids))
    BY <1>6 DEF Archival, RangesOK
  <2>2. k.result = j.result /\ k.kind = j.kind /\ k.pc = "store" /\ k.uuids = j.uuids /\ k.ranges \in Given(Head(j.uuids))
    BY <1>6, <2>1, ArchivalGiven DEF Archival, Only, Fields
  <2>3. QED
    BY <1>6, <2>2 DEF RangesOK
<1>7. ASSUME Limits(j, k), j.kind \in ByChains PROVE RangesOK(k)
  <2>1. k.result = j.result /\ k.kind = j.kind /\ k.pc = "mask" /\ k.uuids = j.uuids /\ k.ranges \in Given(Head(j.uuids))
    BY <1>7, GoodGiven DEF Limits, Only, Fields
  <2>2. QED
    BY <1>7, <2>1 DEF RangesOK
<1>8. ASSUME j.kind \in ByChains, k.kind = j.kind, NEW ts, k.result = Append(j.result, ts), IsSerie(ts), ts.ranges \in Given(ts.uuid),
             k.pc \notin {"archival", "store", "mask"}
      PROVE  RangesOK(k)
  <2>1. Listed(j.result) /\ \A s \in Range(j.result) : IsSerie(s) /\ s.ranges \in Given(s.uuid)
    BY <1>8 DEF RangesOK
  <2>2. PICK s, t : s = j.result /\ t = k.result /\ t = Append(s, ts)
    BY <1>8
  <2>3. Listed(t) /\ Range(t) = Range(s) \cup {ts}
    BY <2>1, <2>2, ListedAppend
  <2>4. t # <<>>
    BY <1>e, <2>3
  <2>5. QED
    BY <1>8, <2>1, <2>2, <2>3, <2>4 DEF RangesOK
<1>9. ASSUME Narrows(j, k) PROVE RangesOK(k)
  <2>1. PICK ts : ts = TS(Head(j.uuids), <<>>, k.ranges)
    OBVIOUS
  <2>2. ts.uuid = Head(j.uuids) /\ ts.ranges = k.ranges /\ DOMAIN ts = {"uuid", "recs", "ranges"}
    BY <2>1 DEF TS
  <2>3. k.ranges \in Given(Head(j.uuids)) /\ k.ranges \in Seq(TimeRange) /\ Head(j.uuids) \in UUIDs
    BY <1>9, GoodGiven, GoodIs, AtHandIs DEF Narrows, AtHand
  <2>4. IsSerie(ts) /\ ts.ranges \in Given(ts.uuid)
    BY <2>2, <2>3 DEF IsSerie
  <2>5. j.kind \in ByChains /\ k.kind = j.kind /\ k.result = Append(j.result, ts) /\ k.pc = "read"
    BY <1>9, <2>1 DEF Narrows, Only, Fields, ByChains
  <2>6. QED
    BY <1>8, <2>4, <2>5
<1>10. ASSUME MasksOne(j, k) PROVE RangesOK(k)
  <2>1. PICK h : h = Head(j.series)
    OBVIOUS
  <2>2. PICK ts : ts = TS(h.uuid, Masked(h.recs, j.ranges), j.ranges)
    OBVIOUS
  <2>3. ts.uuid = h.uuid /\ ts.ranges = j.ranges /\ DOMAIN ts = {"uuid", "recs", "ranges"}
    BY <2>2 DEF TS
  <2>4. /\ j.pc = "mask" /\ j.kind \in {"before", "after"} /\ j.ranges \in Given(Head(j.uuids)) /\ j.ranges \in Seq(TimeRange)
        /\ Paired(j) /\ Head(j.uuids) \in UUIDs
    BY <1>10, AtHandIs DEF MasksOne, Typed, HasType, KindsAt, RangesOK, AtHand
  <2>5. h.uuid = Head(j.uuids)
    <3>1. /\ j.uuids \in Seq(UUIDs) /\ j.uuids # <<>> /\ j.series \in Seq(Serie) /\ Len(j.series) = Len(j.uuids)
          /\ \A i \in DOMAIN j.series : j.uuids[i] = j.series[i].uuid
      BY <2>4 DEF Typed, HasType, AtHand, Paired
    <3>2. j.series # <<>>
      BY <3>1
    <3>3. 1 \in DOMAIN j.series /\ h = j.series[1] /\ Head(j.uuids) = j.uuids[1]
      BY <2>1, <3>1, <3>2, Tails
    <3>4. QED
      BY <3>1, <3>3
  <2>6. IsSerie(ts) /\ ts.ranges \in Given(ts.uuid)
    BY <2>3, <2>4, <2>5 DEF IsSerie
  <2>7. j.kind \in ByChains /\ k.kind = j.kind /\ k.result = Append(j.result, ts) /\ k.pc \in {"done", "uri"}
    BY <1>10, <2>1, <2>2, <2>4 DEF MasksOne, Only, Fields, ByChains, Goes
  <2>8. QED
    BY <1>8, <2>6, <2>7
<1>11. ASSUME Extends(j, k), j.kind \in ByChains PROVE RangesOK(k)
  <2>1. j.result # <<>> /\ Listed(j.result) /\ \A s \in Range(j.result) : IsSerie(s) /\ s.ranges \in Given(s.uuid)
    BY <1>11 DEF RangesOK, Extends
  <2>2. PICK s : s = j.result
    OBVIOUS
  <2>3. PICK recs : k.result = [s EXCEPT ![Len(s)].recs = recs]
    BY <1>11, <2>2 DEF Extends
  <2>4. Listed(s) /\ s # <<>> /\ \A e \in Range(s) : IsSerie(e) /\ e.ranges \in Given(e.uuid)
    BY <2>1, <2>2
  <2>5. IsSerie(s[Len(s)]) /\ Len(s) \in DOMAIN s
    <3>1. Len(s) \in DOMAIN s
      BY <2>4, Tails DEF Listed
    <3>2. QED
      BY <2>4, <3>1 DEF Range
  <2>6. PICK t : t = k.result /\ Extended(s, t, recs)
    BY <2>3, <2>4, <2>5, ExtendedIs
  <2>7. ASSUME NEW i \in DOMAIN t PROVE IsSerie(t[i]) /\ t[i].ranges \in Given(t[i].uuid)
    <3>1. i \in DOMAIN s /\ s[i] \in Range(s)
      BY <2>6, <2>7 DEF Extended, Range
    <3>2. CASE i = Len(s)
      <4>1. IsSerie(s[i]) /\ s[i].ranges \in Given(s[i].uuid)
        BY <2>4, <3>1
      <4>2. DOMAIN t[i] = DOMAIN s[i] /\ t[i].uuid = s[i].uuid /\ t[i].ranges = s[i].ranges
        BY <2>6, <3>2 DEF Extended
      <4>3. QED
        BY <4>1, <4>2 DEF IsSerie
    <3>3. CASE i # Len(s)
      BY <2>4, <2>6, <3>1, <3>3 DEF Extended
    <3>4. QED
      BY <3>2, <3>3
  <2>8. k.pc = "read"
    BY <1>11 DEF Extends, Only, Fields
  <2>9. Listed(t) /\ t # <<>>
    <3>1. Listed(t) /\ Len(s) \in DOMAIN t
      BY <2>6 DEF Extended
    <3>2. QED
      BY <3>1
  <2>10. \A ts \in Range(t) : IsSerie(ts) /\ ts.ranges \in Given(ts.uuid)
    BY <2>7 DEF Range
  <2>11. QED
    BY <2>6, <2>8, <2>9, <2>10 DEF RangesOK
<1>12. CASE Passes(j, k) \/ Prepares(j, k) \/ Stops(j, k)
  <2>1. SameQuery(j, k) /\ k.result \in {j.result, <<>>} /\ k.pc \notin {"archival", "store", "mask", "read"}
    <3>1. CASE Passes(j, k)
      BY <3>1, PassesQuietly DEF Quiet
    <3>2. CASE Prepares(j, k)
      BY <3>2, PreparesIs
    <3>3. CASE Stops(j, k)
      BY <3>3, StopsIs
    <3>4. QED
      BY <1>12, <3>1, <3>2, <3>3
  <2>2. QED
    BY <1>3, <1>4, <2>1 DEF SameQuery
<1>13. QED
  BY <1>1, <1>2, <1>3, <1>5, <1>6, <1>7, <1>9, <1>10, <1>11, <1>12, StepSorts
-----------------------------------------------------------------------------
(* What is read and what is sent of it.                                     *)

LEMMA ConcatRange ==
  ASSUME NEW E, NEW a \in Seq(E), NEW b \in Seq(E)
  PROVE  a \o b \in Seq(E) /\ Range(a \o b) = Range(a) \cup Range(b)
<1>1. PICK m, n \in Nat : m = Len(a) /\ DOMAIN a = 1..m /\ n = Len(b) /\ DOMAIN b = 1..n
  OBVIOUS
<1>2. PICK c : c = a \o b
  OBVIOUS
<1>3. /\ c \in Seq(E) /\ Len(c) = m + n
      /\ \A i \in 1..m : c[i] = a[i]
      /\ \A i \in 1..n : c[m + i] = b[i]
  <2>1. /\ a \o b \in Seq(E) /\ Len(a \o b) = Len(a) + Len(b)
        /\ \A i \in 1..Len(a) : (a \o b)[i] = a[i]
        /\ \A i \in 1..Len(b) : (a \o b)[Len(a) + i] = b[i]
    BY ConcatProperties
  <2>2. QED
    BY <1>1, <1>2, <2>1
<1>4. DOMAIN c = 1..(m + n)
  BY <1>3
<1>5. ASSUME NEW i \in 1..(m + n) PROVE c[i] \in Range(a) \cup Range(b)
  <2>1. CASE i \in 1..m
    BY <1>1, <1>3, <2>1 DEF Range
  <2>2. CASE i \notin 1..m
    <3>1. i - m \in 1..n /\ m + (i - m) = i
      BY <2>2
    <3>2. c[i] = b[i - m]
      BY <1>3, <3>1
    <3>3. QED
      BY <1>1, <3>1, <3>2 DEF Range
  <2>3. QED
    BY <2>1, <2>2
<1>6. \A i \in 1..m : i \in 1..(m + n) /\ a[i] \in Range(c)
  <2>1. \A i \in 1..m : i \in 1..(m + n)
    OBVIOUS
  <2>2. QED
    BY <1>3, <1>4, <2>1 DEF Range
<1>7. \A i \in 1..n : b[i] \in Range(c)
  <2>1. \A i \in 1..n : m + i \in 1..(m + n)
    OBVIOUS
  <2>2. QED
    BY <1>3, <1>4, <2>1 DEF Range
<1>8. Range(c) \subseteq Range(a) \cup Range(b)
  BY <1>4, <1>5 DEF Range
<1>9. Range(a) \subseteq Range(c) /\ Range(b) \subseteq Range(c)
  BY <1>1, <1>6, <1>7 DEF Range
<1>10. QED
  BY <1>2, <1>3, <1>8, <1>9

LEMMA LimitIs ==
  ASSUME NEW j, j.params.DataLimit \in Int, NEW E, NEW s \in Seq(E)
  PROVE  /\ Limit(j, s) \in Seq(E) /\ Range(Limit(j, s)) \subseteq Range(s)
         /\ j.params.DataLimit <= 0 => Limit(j, s) = s
         /\ j.params.DataLimit > 0 => Len(Limit(j, s)) <= j.params.DataLimit
<1>1. PICK n \in Int : n = j.params.DataLimit
  OBVIOUS
<1>2. PICK m \in Nat : m = Len(s) /\ DOMAIN s = 1..m
  OBVIOUS
<1>3. CASE n > 0 /\ m > n
  <2>1. PICK t : t = SubSeq(s, 1, n)
    OBVIOUS
  <2>2. \A i \in 1..n : s[i] \in E /\ s[i] \in Range(s)
    <3>1. \A i \in 1..n : i \in 1..m
      BY <1>3
    <3>2. QED
      BY <1>2, <3>1, ElementOfSeq DEF Range
  <2>3. t \in Seq(E) /\ t \in Seq(Range(s)) /\ Len(t) = n
    <3>1. t \in Seq(E)
      BY <2>1, <2>2, SubSeqProperties
    <3>2. t \in Seq(Range(s))
      BY <2>1, <2>2, SubSeqProperties
    <3>3. Len(t) = n
      BY <1>3, <2>1, <2>2, SubSeqProperties
    <3>4. QED
      BY <3>1, <3>2, <3>3
  <2>4. Range(t) \subseteq Range(s)
    BY <2>3, FiniteRange
  <2>5. Limit(j, s) = t
    BY <1>1, <1>2, <1>3, <2>1 DEF Limit
  <2>6. QED
    BY <1>1, <1>3, <2>3, <2>4, <2>5
<1>4. CASE ~(n > 0 /\ m > n)
  BY <1>1, <1>2, <1>4 DEF Limit
<1>5. QED
  BY <1>3, <1>4

\* What a range query reads is what there is in the range that is left.
LEMMA FetchedIs ==
  ASSUME World, NEW j, j.kind = "in", j.req \in TimeRange, NEW u \in DOMAIN data
  PROVE  /\ Fetched(j, u) \in Seq(Int)
         /\ Range(Fetched(j, u)) = {t \in Times(u) : j.req.Start <= t /\ t < j.req.End}
<1>1. data[u] \in Seq(Stored)
  BY DEF World, Store
<1>2. IsFiniteSet(Times(u)) /\ Times(u) \subseteq Stored /\ Times(u) \subseteq Nat
  BY <1>1, FiniteRange, StoredIs DEF Times
<1>3. PICK S : S = {t \in Times(u) : j.req.Start <= t /\ t < j.req.End}
  OBVIOUS
<1>4. S \in SUBSET Int /\ IsFiniteSet(S)
  BY <1>2, <1>3, FS_Subset
<1>5. Fetched(j, u) = Series(S)
  BY <1>3 DEF Fetched, RawValues
<1>6. Series(S) \in Seq(S) /\ Range(Series(S)) = S
  BY <1>4, SeriesIs
<1>7. Series(S) \in Seq(Int)
  BY <1>4, <1>6, SeqMonotonic
<1>8. QED
  BY <1>3, <1>5, <1>6, <1>7

\* The series a worker reads, of the stream at hand.
LastOf(s) == s[Len(s)]

LEMMA LastIs ==
  ASSUME NEW s, Listed(s), s # <<>>
  PROVE  Len(s) \in DOMAIN s /\ LastOf(s) \in Range(s) /\ DOMAIN s = 1..Len(s) /\ Len(s) \in Nat \ {0}
<1>1. Len(s) \in DOMAIN s /\ DOMAIN s = 1..Len(s) /\ Len(s) \in Nat \ {0}
  BY Tails DEF Listed
<1>2. QED
  BY <1>1 DEF LastOf, Range

\* One more read of it.
LEMMA ExtendsIs ==
  ASSUME World, NEW j, Typed(j), RangesOK(j), NEW k, Extends(j, k)
  PROVE  \E recs : /\ Extended(j.result, k.result, recs)
                   /\ recs = Limit(j, LastOf(j.result).recs \o Fetched(j, Head(j.uuids)))
<1>1. j.pc = "read" /\ j.kind \in ByChains /\ j.result # <<>>
  BY DEF Extends, Typed, KindsAt, RangesOK, ByChains
<1>2. Listed(j.result) /\ \A ts \in Range(j.result) : IsSerie(ts)
  BY <1>1 DEF RangesOK
<1>3. PICK s : s = j.result
  OBVIOUS
<1>4. IsSerie(s[Len(s)])
  BY <1>1, <1>2, <1>3, LastIs DEF LastOf
<1>5. PICK recs : recs = Limit(j, LastOf(s).recs \o Fetched(j, Head(j.uuids)))
  OBVIOUS
<1>6. k.result = [s EXCEPT ![Len(s)].recs = recs]
  BY <1>3, <1>5 DEF Extends, LastOf
<1>7. Extended(s, k.result, recs)
  BY <1>1, <1>2, <1>3, <1>4, <1>6, ExtendedIs
<1>8. QED
  BY <1>3, <1>5, <1>7

-----------------------------------------------------------------------------
(* A reading that is sent is from a range that is valid.                    *)

FromValid(ts) == \A t \in Range(ts.recs) : \E r \in Range(ts.ranges) : r.Start <= t /\ t <= r.End
NotBehind(ts) == \A t \in Range(ts.recs) : \E r \in Range(ts.ranges) : t <= r.End

ValidOK(j) ==
  /\ j.kind = "in" => \A ts \in Range(j.result) : ts.recs \in Seq(Int) /\ FromValid(ts)
  /\ j.kind \in {"before", "after"} => \A ts \in Range(j.result) : NotBehind(ts)
  /\ j.pc = "read" => /\ LastOf(j.result).ranges = j.ranges /\ LastOf(j.result).uuid = Head(j.uuids)
                      /\ j.copies > 0 => \E r \in Range(j.ranges) : Inside(j.req, r)

LEMMA ValidStep ==
  ASSUME World, NEW j, Typed(j), RangesOK(j), ValidOK(j), NEW k, JobStep(j, k), Typed(k)
  PROVE  ValidOK(k)
<1>1. CASE Asks(j, k)
  BY <1>1, ListedEmpty DEF Asks, ValidOK
<1>2. CASE k = NoJob
  <2>1. NoJob.pc = "idle" /\ NoJob.kind = "none"
    BY DEF NoJob
  <2>2. QED
    BY <1>2, <2>1 DEF ValidOK
<1>3. CASE k.kind \notin ByChains
  <2>1. k.pc # "read"
    BY <1>3 DEF Typed, KindsAt, ByChains
  <2>2. QED
    BY <1>3, <2>1 DEF ValidOK, ByChains
<1>4. ASSUME k.kind = j.kind, k.result \in {j.result, <<>>}, k.pc # "read"
      PROVE  ValidOK(k)
  BY <1>4, ListedEmpty DEF ValidOK
<1>5. ASSUME Passes(j, k) \/ Prepares(j, k) \/ Stops(j, k) PROVE ValidOK(k)
  <2>1. SameQuery(j, k) /\ k.result \in {j.result, <<>>} /\ k.pc # "read"
    <3>1. CASE Passes(j, k)
      BY <3>1, PassesQuietly DEF Quiet
    <3>2. CASE Prepares(j, k)
      BY <3>2, PreparesIs
    <3>3. CASE Stops(j, k)
      BY <3>3, StopsIs
    <3>4. QED
      BY <1>5, <3>1, <3>2, <3>3
  <2>2. QED
    BY <1>4, <2>1 DEF SameQuery
<1>6. ASSUME Access(j, k) \/ Archival(j, k) \/ Limits(j, k) PROVE ValidOK(k)
  BY <1>4, <1>6 DEF Access, Archival, Limits, Only, Fields
<1>7. ASSUME Narrows(j, k) PROVE ValidOK(k)
  <2>1. PICK ts : ts = TS(Head(j.uuids), <<>>, k.ranges)
    OBVIOUS
  <2>2. ts.uuid = Head(j.uuids) /\ ts.ranges = k.ranges /\ ts.recs = <<>>
    BY <2>1 DEF TS
  <2>3. /\ k.kind = j.kind /\ k.kind \in {"in", "stat"} /\ k.uuids = j.uuids /\ k.pc = "read"
        /\ k.result = Append(j.result, ts)
        /\ k.req = Narrowed(j, k.ranges).rng /\ k.copies = Narrowed(j, k.ranges).n
    BY <1>7, <2>1 DEF Narrows, Only, Fields
  <2>4. k.copies > 0 => \E r \in Range(k.ranges) : Inside(k.req, r)
    <3>1. k.ranges \in Seq(TimeRange) /\ j.req \in TimeRange
      BY <1>7, GoodIs DEF Narrows, Typed, HasType
    <3>2. QED
      BY <2>3, <3>1, NarrowedIs
  <2>5. PICK s, t : s = j.result /\ t = k.result /\ t = Append(s, ts) /\ Listed(s)
    BY <2>3 DEF RangesOK, ByChains
  <2>6. /\ Len(s) \in Nat /\ DOMAIN s = 1..Len(s)
        /\ Len(t) = Len(s) + 1 /\ DOMAIN t = 1..(Len(s) + 1)
        /\ t[Len(s) + 1] = ts /\ Range(t) = Range(s) \cup {ts}
    <3>1. Listed(s) /\ t = Append(s, ts)
      BY <2>5
    <3>2. QED
      BY <3>1, ListedAppend
  <2>7. LastOf(t) = ts
    BY <2>6 DEF LastOf
  <2>8. ts.recs \in Seq(Int) /\ FromValid(ts)
    BY <2>2, ListedEmpty DEF FromValid
  <2>9. k.kind = "in" => \A e \in Range(t) : e.recs \in Seq(Int) /\ FromValid(e)
    BY <2>3, <2>5, <2>6, <2>8 DEF ValidOK
  <2>10. QED
    BY <2>2, <2>3, <2>4, <2>5, <2>7, <2>9 DEF ValidOK
<1>8. ASSUME MasksOne(j, k) PROVE ValidOK(k)
  <2>1. PICK h : h = Head(j.series)
    OBVIOUS
  <2>2. PICK ts : ts = TS(h.uuid, Masked(h.recs, j.ranges), j.ranges)
    OBVIOUS
  <2>3. /\ k.kind = j.kind /\ k.kind \in {"before", "after"} /\ k.pc \in {"done", "uri"}
        /\ k.result = Append(j.result, ts) /\ j.series \in Seq(Serie) /\ j.series # <<>> /\ j.ranges \in Seq(TimeRange)
    <3>1. j.pc = "mask" /\ j.kind \in {"before", "after"} /\ Paired(j) /\ j.uuids # <<>> /\ j.ranges \in Seq(TimeRange)
      BY <1>8 DEF MasksOne, Typed, HasType, KindsAt, AtHand
    <3>2. j.series # <<>>
      <4>1. j.uuids \in Seq(UUIDs) /\ Len(j.series) = Len(j.uuids)
        BY <3>1 DEF Paired, Typed, HasType
      <4>2. QED
        BY <3>1, <4>1
    <3>3. QED
      BY <1>8, <2>1, <2>2, <3>1, <3>2 DEF MasksOne, Only, Fields, Goes, Paired
  <2>4. h.recs \in Seq(Int)
    <3>1. h \in Serie
      BY <2>1, <2>3, Tails
    <3>2. h.recs \in Seq(Stored) /\ Stored \subseteq Int
      BY <3>1, StoredIs DEF Serie
    <3>3. QED
      BY <3>2, SeqMonotonic
  <2>5. PICK m : m = Masked(h.recs, j.ranges) /\ m \in MaskedType(h.recs, j.ranges)
    BY <2>3, <2>4, MaskedIs
  <2>6. ts.recs = m /\ ts.ranges = j.ranges
    BY <2>2, <2>5 DEF TS
  <2>7. NotBehind(ts)
    BY <2>5, <2>6 DEF NotBehind, MaskedType, Range
  <2>8. PICK s, t : s = j.result /\ t = k.result /\ t = Append(s, ts) /\ Listed(s)
    BY <2>3 DEF RangesOK, ByChains
  <2>9. Range(t) = Range(s) \cup {ts}
    BY <2>8, ListedAppend
  <2>10. \A e \in Range(t) : NotBehind(e)
    BY <2>3, <2>7, <2>8, <2>9 DEF ValidOK
  <2>11. QED
    BY <2>3, <2>8, <2>10 DEF ValidOK
<1>9. ASSUME Extends(j, k) PROVE ValidOK(k)
  <2>1. PICK s, t : s = j.result /\ t = k.result
    OBVIOUS
  <2>2. PICK recs : Extended(s, t, recs) /\ recs = Limit(j, LastOf(s).recs \o Fetched(j, Head(j.uuids)))
    BY <1>9, <2>1, ExtendsIs
  <2>3. /\ k.kind = j.kind /\ k.pc = "read" /\ j.pc = "read" /\ j.copies > 0 /\ k.copies = j.copies - 1 /\ k.req = j.req
        /\ k.ranges = j.ranges /\ k.uuids = j.uuids /\ k.kind \in {"in", "stat"}
    BY <1>9 DEF Extends, Only, Fields, Typed, KindsAt
  <2>4. /\ LastOf(s).ranges = j.ranges /\ LastOf(s).uuid = Head(j.uuids)
        /\ \E r \in Range(j.ranges) : Inside(j.req, r)
    BY <2>1, <2>3 DEF ValidOK
  <2>5. LastOf(t).ranges = j.ranges /\ LastOf(t).uuid = Head(j.uuids) /\ LastOf(t).recs = recs
    BY <2>2, <2>4 DEF Extended, LastOf
  <2>6. ASSUME k.kind = "in" PROVE \A e \in Range(t) : e.recs \in Seq(Int) /\ FromValid(e)
    <3>1. LastOf(s) \in Range(s) /\ Len(s) \in DOMAIN s
      BY <2>2 DEF Extended, LastOf, Range
    <3>2. LastOf(s).recs \in Seq(Int) /\ FromValid(LastOf(s))
      BY <2>1, <2>3, <2>6, <3>1 DEF ValidOK
    <3>3. PICK u : u = Head(j.uuids) /\ u \in DOMAIN data
      BY <1>9 DEF Extends, StreamExists
    <3>4. PICK f : /\ f = Fetched(j, u) /\ f \in Seq(Int)
                   /\ Range(f) = {x \in Times(u) : j.req.Start <= x /\ x < j.req.End}
      BY <2>3, <2>6, <3>3, FetchedIs DEF Typed, HasType
    <3>5. PICK old : old = LastOf(s).recs /\ old \in Seq(Int)
      BY <3>2
    <3>6. PICK c : c = old \o f /\ c \in Seq(Int) /\ Range(c) = Range(old) \cup Range(f)
      <4>1. f \in Seq(Int) /\ old \in Seq(Int)
        BY <3>4, <3>5
      <4>2. old \o f \in Seq(Int) /\ Range(old \o f) = Range(old) \cup Range(f)
        BY <4>1, ConcatRange
      <4>3. QED
        BY <4>2
    <3>7. recs = Limit(j, c)
      BY <2>2, <3>3, <3>4, <3>5, <3>6
    <3>8. recs \in Seq(Int) /\ Range(recs) \subseteq Range(c)
      BY <2>3, <3>6, <3>7, LimitIs DEF Typed, Asked, HasNumbers
    <3>9. ASSUME NEW x \in Range(recs) PROVE \E r \in Range(j.ranges) : r.Start <= x /\ x <= r.End
      <4>1. CASE x \in Range(old)
        BY <2>4, <3>2, <3>5, <4>1 DEF FromValid
      <4>2. CASE x \in Range(f)
        <5>1. PICK r \in Range(j.ranges) : Inside(j.req, r)
          BY <2>4
        <5>2. r \in TimeRange /\ j.req \in TimeRange
          BY FiniteRange DEF Typed, HasType
        <5>3. x \in Int /\ j.req.Start <= x /\ x < j.req.End
          BY <3>4, <4>2, FiniteRange
        <5>4. r.Start <= x /\ x <= r.End
          BY <5>1, <5>2, <5>3 DEF Inside, TimeRange
        <5>5. QED
          BY <5>1, <5>4
      <4>3. QED
        BY <3>6, <3>8, <3>9, <4>1, <4>2
    <3>10. LastOf(t).recs \in Seq(Int) /\ FromValid(LastOf(t))
      BY <2>5, <3>8, <3>9 DEF FromValid
    <3>11. ASSUME NEW i \in DOMAIN t PROVE t[i].recs \in Seq(Int) /\ FromValid(t[i])
      <4>1. CASE i = Len(s)
        BY <2>2, <3>10, <4>1 DEF Extended, LastOf
      <4>2. CASE i # Len(s)
        <5>1. t[i] = s[i] /\ s[i] \in Range(s)
          BY <2>2, <3>11, <4>2 DEF Extended, Range
        <5>2. QED
          BY <2>1, <2>3, <2>6, <5>1 DEF ValidOK
      <4>3. QED
        BY <4>1, <4>2
    <3>12. QED
      BY <3>11 DEF Range
  <2>7. QED
    BY <2>1, <2>3, <2>4, <2>5, <2>6 DEF ValidOK
<1>10. QED
  BY <1>1, <1>2, <1>3, <1>5, <1>6, <1>7, <1>8, <1>9, StepSorts
-----------------------------------------------------------------------------
(* The data there were at first are still there.                            *)

HadOK(j) == \A u \in DOMAIN j.had : u \in DOMAIN data /\ Range(j.had[u]) \subseteq Times(u)

LEMMA HadStep ==
  ASSUME NEW j, Typed(j), HadOK(j), NEW k, JobStep(j, k)
  PROVE  HadOK(k)
<1>1. CASE Asks(j, k)
  BY <1>1 DEF Asks, HadOK, Times
<1>2. CASE k = NoJob
  <2>1. DOMAIN NoJob.had = {}
    BY DEF NoJob
  <2>2. QED
    BY <1>2, <2>1 DEF HadOK
<1>3. CASE SameQuery(j, k)
  BY <1>3 DEF SameQuery, HadOK
<1>4. QED
  BY <1>1, <1>2, <1>3, StepSorts

\* What a stream had at first.
HadOf(j, u) == IF u \in DOMAIN j.had THEN Range(j.had[u]) ELSE {}

LEMMA HadOfIs ==
  ASSUME NEW j, HadOK(j), NEW u \in DOMAIN data
  PROVE  HadOf(j, u) \subseteq Times(u)
BY DEF HadOK, HadOf

-----------------------------------------------------------------------------
(* What nearest finds is nearest among what there was at first.             *)

IsNear(j, ts) ==
  \A t \in Range(ts.recs) :
    IF j.kind = "before" THEN t < j.asked.Start /\ \A x \in HadOf(j, ts.uuid) : x < j.asked.Start => x <= t
                         ELSE t >= j.asked.Start /\ \A x \in HadOf(j, ts.uuid) : x >= j.asked.Start => t <= x

NearOK(j) ==
  j.kind \in {"before", "after"} =>
    /\ j.req = j.asked
    /\ j.pc = "find" => j.result = <<>>
    /\ \A ts \in Range(j.result) : IsNear(j, ts)
    /\ j.pc \in {"nearest", "uri", "lookup", "archival", "store", "mask"} =>
         \A ts \in Range(j.series) : IsNear(j, ts)

LEMMA StillNear ==
  ASSUME NEW j, NEW k, k.kind = j.kind, k.asked = j.asked, k.had = j.had, NEW ts, IsNear(j, ts)
  PROVE  IsNear(k, ts)
BY DEF IsNear, HadOf

LEMMA PointIsNear ==
  ASSUME World, NEW j, Typed(j), HadOK(j), NearOK(j), j.pc = "nearest", j.kind \in {"before", "after"},
         NEW ts \in Range(With(j)), Point(j) # <<>>
  PROVE  IsNear(j, ts)
<1>1. PICK u : u = Head(j.uuids) /\ u \in DOMAIN data
  BY WithIs
<1>2. PICK back \in BOOLEAN : back = (j.kind = "before")
  OBVIOUS
<1>3. PICK from \in Int : from = j.req.Start /\ from = j.asked.Start
  BY DEF NearOK, Typed, HasType, TimeRange
<1>4. Point(j) = Nearest(u, from, back)
  BY <1>1, <1>2, <1>3 DEF Point, From
<1>5. PICK t \in Times(u) : /\ Point(j) = <<t>>
                            /\ IF back THEN t < from /\ \A x \in Times(u) : x < from => x <= t
                                       ELSE t >= from /\ \A x \in Times(u) : x >= from => t <= x
  BY <1>1, <1>3, <1>4, NearestIs
<1>6. PICK p, new : p = Point(j) /\ new = TS(u, p, <<>>)
  OBVIOUS
<1>7. new.uuid = u /\ Range(new.recs) = {t}
  <2>1. new.uuid = u /\ new.recs = <<t>>
    BY <1>5, <1>6 DEF TS
  <2>2. Range(<<t>>) = {t}
    BY DEF Range
  <2>3. QED
    BY <2>1, <2>2
<1>8. IsNear(j, new)
  <2>1. HadOf(j, u) \subseteq Times(u)
    BY <1>1, HadOfIs
  <2>2. QED
    BY <1>2, <1>3, <1>5, <1>7, <2>1 DEF IsNear
<1>9. Listed(j.series) /\ \A x \in Range(j.series) : IsNear(j, x)
  BY ListedIs DEF NearOK, Typed
<1>10. Range(Append(j.series, new)) = Range(j.series) \cup {new}
  BY <1>9, AppendRange
<1>11. With(j) = Append(j.series, new)
  BY <1>1, <1>6 DEF With
<1>12. QED
  BY <1>8, <1>9, <1>10, <1>11

LEMMA NearStep ==
  ASSUME World, NEW j, Typed(j), RangesOK(j), HadOK(j), NearOK(j), NEW k, JobStep(j, k), Typed(k)
  PROVE  NearOK(k)
<1>e. Range(<<>>) = {}
  BY ListedEmpty
<1>1. CASE Asks(j, k)
  BY <1>1, <1>e, PreparesIs DEF Asks, NearOK
<1>2. CASE k = NoJob
  <2>1. NoJob.kind = "none"
    BY DEF NoJob
  <2>2. QED
    BY <1>2, <2>1 DEF NearOK
<1>3. CASE k.kind \notin {"before", "after"}
  BY <1>3 DEF NearOK
<1>4. ASSUME SameQuery(j, k), k.asked = j.asked, k.req = j.req, k.result \in {j.result, <<>>}, k.pc # "find",
             j.kind \in {"before", "after"},
             k.pc \in {"nearest", "uri", "lookup", "archival", "store", "mask"} => \A ts \in Range(k.series) : IsNear(j, ts)
      PROVE  NearOK(k)
  BY <1>4, <1>e, StillNear DEF NearOK, SameQuery
<1>5. ASSUME j.kind \in {"before", "after"}, Prepares(j, k) PROVE NearOK(k)
  <2>1. /\ k.result = <<>> /\ k.kind = j.kind /\ k.asked = k.req /\ k.series = <<>>
    BY <1>5, PreparesIs DEF NearOK, SameQuery, Typed
  <2>2. QED
    BY <2>1, <1>e DEF NearOK
<1>6. ASSUME j.kind \in {"before", "after"}, Stops(j, k) PROVE NearOK(k)
  BY <1>4, <1>6, StopsIs
<1>7. ASSUME j.kind \in {"before", "after"}, Access(j, k) \/ Archival(j, k) \/ Limits(j, k) PROVE NearOK(k)
  <2>1. /\ SameQuery(j, k) /\ k.asked = j.asked /\ k.req = j.req /\ k.result = j.result /\ k.pc # "find" /\ k.series = j.series
        /\ j.pc \in {"lookup", "archival", "store"}
    BY <1>7 DEF Access, Archival, Limits, Good, SameQuery, Only, Fields
  <2>2. QED
    BY <1>4, <1>7, <2>1 DEF NearOK
<1>8. ASSUME j.kind \in {"before", "after"}, Passes(j, k) PROVE NearOK(k)
  <2>1. Quiet(j, k) /\ k.pc # "find"
    BY <1>8, PassesQuietly
  <2>2. ASSUME k.pc \in {"nearest", "uri", "lookup", "archival", "store", "mask"}, NEW ts \in Range(k.series) PROVE IsNear(j, ts)
    <3>1. CASE Looks(j, k)
      <4>1. k.series = j.series /\ j.pc = "uri"
        BY <3>1 DEF Looks, Only, Fields
      <4>2. QED
        BY <1>8, <2>2, <4>1 DEF NearOK
    <3>2. CASE Leaves(j, k) \/ Panics(j, k)
      BY <1>8, <2>2, <3>2 DEF Leaves, Panics, Typed, KindsAt
    <3>3. CASE GoesOn(j, k) \/ Masks(j, k)
      <4>1. j.pc = "nearest" /\ (k.series = j.series \/ (Point(j) # <<>> /\ k.series = With(j)))
        BY <3>3 DEF GoesOn, Masks
      <4>2. QED
        BY <1>8, <2>2, <4>1, PointIsNear DEF NearOK
    <3>4. ASSUME NEW found, Skips(j, k, found) PROVE IsNear(j, ts)
      <4>1. Len(j.uuids) \in Nat \ {0}
        BY <3>4, AtHandIs DEF Skips, AtHand
      <4>2. PICK n \in Nat \ {0} : n = Len(j.uuids)
        BY <4>1
      <4>3. n = 1
        <5>1. n > 1 => k.pc = "streams"
          BY <3>4, <4>2 DEF Skips
        <5>2. ~(n > 1)
          BY <2>2, <5>1
        <5>3. QED
          BY <5>2
      <4>4. k.series = <<>>
        BY <3>4, <4>2, <4>3 DEF Skips
      <4>5. QED
        BY <1>e, <2>2, <4>4
    <3>5. QED
      BY <1>8, <3>1, <3>2, <3>3, <3>4 DEF Passes
  <2>3. QED
    BY <1>4, <1>8, <2>1, <2>2 DEF Quiet
<1>9. ASSUME MasksOne(j, k) PROVE NearOK(k)
  <2>1. /\ j.pc = "mask" /\ j.kind \in {"before", "after"} /\ Paired(j) /\ j.uuids # <<>> /\ j.ranges \in Seq(TimeRange)
        /\ j.uuids \in Seq(UUIDs)
    BY <1>9 DEF MasksOne, Typed, HasType, KindsAt, AtHand
  <2>2. j.series \in Seq(Serie) /\ j.series # <<>>
    BY <2>1 DEF Paired
  <2>3. PICK h : h = Head(j.series) /\ h \in Serie /\ h \in Range(j.series) /\ Range(Tail(j.series)) \subseteq Range(j.series)
    <3>1. PICK s, t : s = j.series /\ t = Tail(s)
      OBVIOUS
    <3>2. /\ Len(s) \in Nat \ {0} /\ DOMAIN s = 1..Len(s) /\ Head(s) = s[1] /\ Head(s) \in Serie
          /\ DOMAIN t = 1..(Len(s) - 1) /\ \A i \in 1..(Len(s) - 1) : t[i] = s[i + 1] /\ i + 1 \in DOMAIN s
      BY <2>2, <3>1, Tails
    <3>3. 1 \in DOMAIN s
      BY <3>2
    <3>4. QED
      BY <3>1, <3>2, <3>3 DEF Range
  <2>4. PICK m : m = Masked(h.recs, j.ranges) /\ m \in MaskedType(h.recs, j.ranges)
    <3>1. h.recs \in Seq(Int)
      <4>1. h.recs \in Seq(Stored) /\ Stored \subseteq Int
        BY <2>3, StoredIs DEF Serie
      <4>2. QED
        BY <4>1, SeqMonotonic
    <3>2. QED
      BY <2>1, <3>1, MaskedIs
  <2>5. PICK ts : ts = TS(h.uuid, m, j.ranges)
    OBVIOUS
  <2>6. /\ SameQuery(j, k) /\ k.asked = j.asked /\ k.req = j.req /\ k.pc \in {"done", "uri"}
        /\ k.series = Tail(j.series) /\ k.result = Append(j.result, ts)
    BY <1>9, <2>3, <2>4, <2>5 DEF MasksOne, Goes, SameQuery, Only, Fields
  <2>7. IsNear(j, h) /\ \A x \in Range(k.series) : IsNear(j, x)
    BY <2>1, <2>3, <2>6 DEF NearOK
  <2>8. IsNear(j, ts)
    <3>1. ts.uuid = h.uuid /\ ts.recs = m
      BY <2>5 DEF TS
    <3>2. Range(m) \subseteq Range(h.recs)
      BY <2>4 DEF MaskedType, Range
    <3>3. QED
      BY <2>7, <3>1, <3>2 DEF IsNear
  <2>9. PICK s, t : s = j.result /\ t = k.result /\ t = Append(s, ts) /\ Listed(s)
    BY <2>1, <2>6 DEF RangesOK, ByChains
  <2>10. Range(t) = Range(s) \cup {ts}
    BY <2>9, ListedAppend
  <2>11. \A x \in Range(k.result) : IsNear(j, x)
    BY <2>1, <2>8, <2>9, <2>10 DEF NearOK
  <2>12. k.req = k.asked
    BY <2>1, <2>6 DEF NearOK
  <2>13. QED
    BY <2>6, <2>7, <2>11, <2>12, StillNear DEF NearOK, SameQuery
<1>10. ASSUME Narrows(j, k) \/ Extends(j, k) PROVE NearOK(k)
  <2>1. k.kind \in {"in", "stat"}
    BY <1>10 DEF Narrows, Extends, Typed, KindsAt, Only, Fields
  <2>2. QED
    BY <1>3, <2>1
<1>11. CASE SameQuery(j, k) /\ k.kind \in {"before", "after"}
  <2>1. j.kind \in {"before", "after"}
    BY <1>11 DEF SameQuery
  <2>2. \/ Passes(j, k) \/ Prepares(j, k) \/ Stops(j, k) \/ Access(j, k) \/ Archival(j, k) \/ Limits(j, k)
        \/ MasksOne(j, k) \/ Narrows(j, k) \/ Extends(j, k) \/ k = NoJob \/ Asks(j, k)
    BY <1>11, StepSorts DEF ByChains
  <2>3. QED
    BY <1>1, <1>2, <1>5, <1>6, <1>7, <1>8, <1>9, <1>10, <2>1, <2>2
<1>12. QED
  BY <1>1, <1>2, <1>3, <1>11, StepSorts
-----------------------------------------------------------------------------
(* A range query has what was there and is in what is left.                 *)

Within(r, t) == r.Start <= t /\ t < r.End

\* Each of the first i series is limited to one range; t is in all of these.
Single(s, i) == \A n \in 1..i : Len(s[n].ranges) = 1
IsLeft(j, s, i, t) == Within(j.asked, t) /\ \A n \in 1..i : \A r \in Range(s[n].ranges) : Within(r, t)

\* The i-th series has all of the stream that is left.
CompleteAt(j, s, i) ==
  Single(s, i) => \A t \in HadOf(j, s[i].uuid) : IsLeft(j, s, i, t) => t \in Range(s[i].recs)

\* What is left after all series is what the range has been narrowed to.
NarrowedTo(j, s) ==
  Single(s, Len(s)) => \A t \in Int : IsLeft(j, s, Len(s), t) => Within(j.req, t)

CompleteOK(j) ==
  j.kind = "in" /\ j.params.DataLimit <= 0 /\ ~j.err /\ j.pc # "panic" =>
    /\ j.pc = "find" => j.result = <<>>
    /\ NarrowedTo(j, j.result)
    /\ \A i \in DOMAIN j.result :
         CompleteAt(j, j.result, i) \/ (j.pc = "read" /\ i = Len(j.result) /\ j.copies > 0)

\* A series with the same ranges before it, and no fewer readings, is as complete.
LEMMA AsComplete ==
  ASSUME NEW j, NEW k, k.had = j.had, k.asked = j.asked,
         NEW s, NEW t, NEW i \in Nat \ {0}, \A n \in 1..i : t[n].ranges = s[n].ranges,
         t[i].uuid = s[i].uuid, Range(s[i].recs) \subseteq Range(t[i].recs), CompleteAt(j, s, i)
  PROVE  CompleteAt(k, t, i)
BY DEF CompleteAt, Single, IsLeft, HadOf

\* The range is narrowed to what is in the next one as well.
LEMMA NarrowsMore ==
  ASSUME World, NEW j, Typed(j), RangesOK(j), NEW k, Narrows(j, k),
         NEW s, s = j.result, NEW t, t = k.result, NarrowedTo(j, s), Single(t, Len(t)),
         NEW x \in Int, IsLeft(k, t, Len(t), x)
  PROVE  Within(k.req, x) /\ k.copies > 0
<1>1. PICK ranges, ts : ranges = k.ranges /\ ranges \in Seq(TimeRange) /\ ts = TS(Head(j.uuids), <<>>, ranges)
  BY GoodIs DEF Narrows
<1>2. t = Append(s, ts) /\ Listed(s) /\ k.asked = j.asked /\ ts.ranges = ranges
  BY <1>1 DEF Narrows, Only, Fields, RangesOK, ByChains, TS
<1>3. PICK n \in Nat : /\ n = Len(s) /\ Len(t) = n + 1 /\ t[n + 1] = ts
                       /\ \A i \in 1..n : t[i] = s[i]
  BY <1>2, ListedAppend
<1>4. \A i \in 1..n : i \in 1..(n + 1)
  OBVIOUS
<1>5. n + 1 \in 1..(n + 1)
  OBVIOUS
<1>6. Single(s, n) /\ Len(ranges) = 1
  BY <1>2, <1>3, <1>4, <1>5 DEF Single
<1>7. IsLeft(j, s, n, x) /\ \A r \in Range(ranges) : Within(r, x)
  BY <1>2, <1>3, <1>4, <1>5 DEF IsLeft
<1>8. Within(j.req, x)
  BY <1>3, <1>6, <1>7 DEF NarrowedTo
<1>9. PICK r \in TimeRange : r = ranges[1] /\ Within(r, x)
  <2>1. 1 \in DOMAIN ranges
    BY <1>1, <1>6
  <2>2. ranges[1] \in TimeRange
    BY <1>1, <2>1, ElementOfSeq
  <2>3. ranges[1] \in Range(ranges)
    BY <2>1 DEF Range
  <2>4. QED
    BY <1>7, <2>2, <2>3
<1>10. PICK q \in TimeRange : q = j.req
  BY DEF Typed, HasType
<1>11. ~IsDisjoint(q, r)
  BY <1>8, <1>9, <1>10 DEF IsDisjoint, Within, TimeRange
<1>12. PICK o : o = Narrowed(j, ranges) /\ k.req = o.rng /\ k.copies = o.n
  BY <1>1 DEF Narrows
<1>13. o.rng = [Start |-> Late(q.Start, r.Start), End |-> Early(q.End, r.End)] /\ o.n = 1
  <2>1. PICK b0 : b0 = [rng |-> q, n |-> 0] /\ o = FoldLeft(Overlap, b0, ranges)
    BY <1>10, <1>12 DEF Narrowed
  <2>2. Len(ranges) = 1 /\ ~IsDisjoint(q, ranges[1]) =>
          o.rng = [Start |-> Late(q.Start, ranges[1].Start), End |-> Early(q.End, ranges[1].End)] /\ o.n = 1
    BY <1>1, <2>1, OverlapIs
  <2>3. QED
    BY <1>6, <1>9, <1>11, <2>2
<1>14. Within(o.rng, x)
  BY <1>8, <1>9, <1>10, <1>13 DEF Within, Late, Early, TimeRange
<1>15. QED
  BY <1>12, <1>13, <1>14

\* The series are the same, but for more readings.
LongerReadings(s, t) ==
  /\ Len(s) \in Nat \ {0} /\ Len(t) = Len(s) /\ DOMAIN s = 1..Len(s) /\ DOMAIN t = 1..Len(s)
  /\ \A i \in 1..Len(s) : t[i].ranges = s[i].ranges /\ t[i].uuid = s[i].uuid
  /\ \A i \in 1..Len(s) : Range(s[i].recs) \subseteq Range(t[i].recs)

\* One read has all that is left of the stream.
LEMMA ReadsAll ==
  ASSUME World, NEW j, Typed(j), RangesOK(j), ValidOK(j), HadOK(j), j.kind = "in", j.params.DataLimit <= 0,
         NEW k, Extends(j, k), NarrowedTo(j, j.result)
  PROVE  LongerReadings(j.result, k.result) /\ CompleteAt(k, k.result, Len(j.result))
<1>s. PICK s, t : s = j.result /\ t = k.result /\ NarrowedTo(j, s)
  OBVIOUS
<1>1. PICK recs : /\ Extended(s, t, recs)
                  /\ recs = Limit(j, LastOf(s).recs \o Fetched(j, Head(j.uuids)))
  BY <1>s, ExtendsIs
<1>2. PICK n \in Nat \ {0} : n = Len(s) /\ DOMAIN s = 1..n /\ Listed(s)
  <2>1. Listed(s) /\ s # <<>>
    BY <1>s DEF Extends, Typed, KindsAt, RangesOK, ByChains
  <2>2. QED
    BY <2>1, LastIs
<1>3. /\ Len(t) = n /\ DOMAIN t = 1..n /\ \A i \in 1..n : i # n => t[i] = s[i]
      /\ t[n].ranges = s[n].ranges /\ t[n].uuid = s[n].uuid /\ t[n].recs = recs
  BY <1>1, <1>2 DEF Extended
<1>4. n \in 1..n
  OBVIOUS
<1>5. PICK u : u = Head(j.uuids) /\ u \in DOMAIN data /\ s[n].uuid = u
  BY <1>s, <1>2 DEF Extends, StreamExists, ValidOK, LastOf
<1>6. PICK f : f = Fetched(j, u) /\ f \in Seq(Int) /\ Range(f) = {x \in Times(u) : j.req.Start <= x /\ x < j.req.End}
  BY <1>5, FetchedIs DEF Typed, HasType
<1>7. PICK old \in Seq(Int) : old = s[n].recs
  <2>1. s[n] \in Range(s)
    BY <1>2, <1>4 DEF Range
  <2>2. QED
    BY <1>s, <2>1 DEF ValidOK
<1>8. PICK c : c = old \o f /\ c \in Seq(Int) /\ Range(c) = Range(old) \cup Range(f)
  <2>1. f \in Seq(Int) /\ old \in Seq(Int)
    BY <1>6, <1>7
  <2>2. old \o f \in Seq(Int) /\ Range(old \o f) = Range(old) \cup Range(f)
    BY <2>1, ConcatRange
  <2>3. QED
    BY <2>2
<1>9. recs = c
  <2>1. recs = Limit(j, c)
    BY <1>1, <1>2, <1>5, <1>6, <1>7, <1>8 DEF LastOf
  <2>2. j.params.DataLimit \in Int
    BY DEF Typed, Asked, HasNumbers, Extends
  <2>3. QED
    BY <1>8, <2>1, <2>2, LimitIs
<1>10. \A i \in 1..n : t[i].ranges = s[i].ranges /\ t[i].uuid = s[i].uuid
  BY <1>3
<1>11. \A i \in 1..n : Range(s[i].recs) \subseteq Range(t[i].recs)
  BY <1>3, <1>7, <1>8, <1>9
<1>12. k.had = j.had /\ k.asked = j.asked
  BY DEF Extends, Only, Fields
<1>13. ASSUME Single(t, n), NEW x \in HadOf(k, u), IsLeft(k, t, n, x) PROVE x \in Range(recs)
  <2>1. x \in Times(u) /\ x \in Int
    <3>1. x \in Times(u)
      BY <1>5, <1>12, <1>13, HadOfIs DEF HadOf
    <3>2. data[u] \in Seq(Stored)
      BY <1>5 DEF World, Store
    <3>3. QED
      BY <3>1, <3>2, FiniteRange, StoredIs DEF Times
  <2>2. Single(s, n) /\ IsLeft(j, s, n, x)
    BY <1>10, <1>12, <1>13 DEF Single, IsLeft
  <2>3. Within(j.req, x)
    BY <1>s, <1>2, <2>1, <2>2 DEF NarrowedTo
  <2>4. QED
    BY <1>6, <1>8, <1>9, <2>1, <2>3 DEF Within
<1>14. CompleteAt(k, t, n)
  BY <1>3, <1>5, <1>13 DEF CompleteAt
<1>15. LongerReadings(s, t)
  BY <1>2, <1>3, <1>10, <1>11 DEF LongerReadings
<1>16. QED
  BY <1>s, <1>2, <1>14, <1>15

LEMMA CompleteStep ==
  ASSUME World, NEW j, Typed(j), RangesOK(j), ValidOK(j), HadOK(j), CompleteOK(j), NEW k, JobStep(j, k), Typed(k)
  PROVE  CompleteOK(k)
<1> SUFFICES ASSUME k.kind = "in", k.params.DataLimit <= 0, ~k.err, k.pc # "panic"
             PROVE  /\ k.pc = "find" => k.result = <<>>
                    /\ NarrowedTo(k, k.result)
                    /\ \A i \in DOMAIN k.result :
                         CompleteAt(k, k.result, i) \/ (k.pc = "read" /\ i = Len(k.result) /\ k.copies > 0)
  BY DEF CompleteOK
<1>e. Len(<<>>) = 0 /\ DOMAIN <<>> = {}
  OBVIOUS
<1>1. ASSUME k.req = k.asked, k.result = <<>>
      PROVE  NarrowedTo(k, k.result) /\ DOMAIN k.result = {}
  <2>1. NarrowedTo(k, <<>>)
    BY <1>e, <1>1 DEF NarrowedTo, IsLeft
  <2>2. QED
    BY <1>e, <1>1, <2>1
<1>2. CASE Asks(j, k)
  BY <1>1, <1>2 DEF Asks
<1>3. k # NoJob
  BY DEF NoJob
<1>4. ASSUME SameQuery(j, k), j.err = FALSE, j.pc # "panic"
      PROVE  /\ j.kind = "in" /\ j.params.DataLimit <= 0
             /\ j.pc = "find" => j.result = <<>>
             /\ NarrowedTo(j, j.result) /\ Listed(j.result)
             /\ \A i \in DOMAIN j.result :
                  CompleteAt(j, j.result, i) \/ (j.pc = "read" /\ i = Len(j.result) /\ j.copies > 0)
  BY <1>4 DEF CompleteOK, SameQuery, RangesOK, ByChains
<1>5. ASSUME SameQuery(j, k), j.err = FALSE, Prepares(j, k) PROVE k.req = k.asked /\ k.result = <<>> /\ k.pc # "find"
  BY <1>4, <1>5, PreparesIs
\* Nothing changes that is looked at.
<1>6. ASSUME SameQuery(j, k), k.asked = j.asked, k.req = j.req, k.err = j.err, k.result = j.result, k.pc # "find",
             j.pc # "panic", j.pc = "read" => j.copies = 0
      PROVE  NarrowedTo(k, k.result) /\ \A i \in DOMAIN k.result : CompleteAt(k, k.result, i)
  <2>1. j.err = FALSE
    BY <1>6 DEF Typed, HasType
  <2>2. NarrowedTo(j, j.result) /\ \A i \in DOMAIN j.result : CompleteAt(j, j.result, i)
    <3>1. ~(j.pc = "read" /\ j.copies > 0)
      BY <1>6
    <3>2. QED
      BY <1>4, <1>6, <2>1, <3>1
  <2>3. QED
    BY <1>6, <2>2 DEF SameQuery, NarrowedTo, IsLeft, CompleteAt, HadOf
<1>7. ASSUME Passes(j, k) PROVE k.pc \notin {"find", "panic"} /\ Quiet(j, k) /\ j.pc # "panic" /\ (j.pc = "read" => j.copies = 0)
  <2>1. k.pc # "find" /\ Quiet(j, k)
    BY <1>7, PassesQuietly
  <2>2. ~Panics(j, k)
    BY DEF Panics
  <2>3. QED
    BY <1>7, <2>1, <2>2 DEF Passes, Looks, Leaves, GoesOn, Masks, Skips
<1>8. ASSUME Access(j, k) \/ Archival(j, k) \/ Limits(j, k)
      PROVE  /\ SameQuery(j, k) /\ k.asked = j.asked /\ k.req = j.req /\ k.err = j.err /\ k.result = j.result
             /\ k.pc # "find" /\ j.pc \in {"lookup", "archival", "store"}
  BY <1>8 DEF Access, Archival, Limits, Good, SameQuery, Only, Fields
<1>9. ASSUME Stops(j, k) PROVE FALSE
  BY <1>9 DEF Stops
<1>10. ASSUME MasksOne(j, k) PROVE FALSE
  BY <1>10 DEF MasksOne, Typed, KindsAt, Only, Fields
<1>11. CASE Narrows(j, k)
  <2>1. /\ SameQuery(j, k) /\ k.asked = j.asked /\ j.err = FALSE /\ k.pc = "read" /\ j.pc \in {"lookup", "store"}
    BY <1>11 DEF Narrows, Good, SameQuery, Only, Fields, Typed, HasType
  <2>2. PICK s, t : s = j.result /\ t = k.result /\ Listed(s) /\ NarrowedTo(j, s) /\ \A i \in DOMAIN s : CompleteAt(j, s, i)
    BY <1>4, <2>1
  <2>3. PICK ts : t = Append(s, ts)
    BY <1>11, <2>2 DEF Narrows
  <2>4. PICK n \in Nat : n = Len(s) /\ DOMAIN s = 1..n /\ Len(t) = n + 1 /\ DOMAIN t = 1..(n + 1) /\ \A i \in 1..n : t[i] = s[i]
    BY <2>2, <2>3, ListedAppend
  <2>5. ASSUME Single(t, Len(t)), NEW x \in Int, IsLeft(k, t, Len(t), x) PROVE Within(k.req, x) /\ k.copies > 0
    BY <1>11, <2>2, <2>5, NarrowsMore
  <2>6. NarrowedTo(k, t)
    BY <2>5 DEF NarrowedTo
  <2>7. ASSUME NEW i \in DOMAIN t PROVE CompleteAt(k, t, i) \/ (k.pc = "read" /\ i = Len(t) /\ k.copies > 0)
    <3>1. CASE i \in 1..n
      <4>1. CompleteAt(j, s, i) /\ i \in Nat \ {0} /\ \A m \in 1..i : m \in 1..n
        BY <2>2, <2>4, <3>1
      <4>2. \A m \in 1..i : t[m].ranges = s[m].ranges
        BY <2>4, <4>1
      <4>3. t[i] = s[i] /\ k.had = j.had
        BY <2>1, <2>4, <3>1 DEF SameQuery
      <4>4. QED
        BY <2>1, <4>1, <4>2, <4>3, AsComplete
    <3>2. CASE i \notin 1..n
      <4>1. i = Len(t)
        BY <2>4, <3>2
      <4>2. CASE k.copies > 0
        BY <2>1, <4>1, <4>2
      <4>3. CASE ~(k.copies > 0)
        <5>1. HadOf(k, t[i].uuid) \subseteq Int
          <6>1. HadOf(j, t[i].uuid) \subseteq Int
            <7>1. \A u \in DOMAIN data : Times(u) \subseteq Int
              <8>1. \A u \in DOMAIN data : data[u] \in Seq(Stored)
                BY DEF World, Store
              <8>2. QED
                BY <8>1, FiniteRange, StoredIs DEF Times
            <7>2. QED
              BY <7>1 DEF HadOf, HadOK
          <6>2. QED
            BY <2>1, <6>1 DEF SameQuery, HadOf
        <5>2. CompleteAt(k, t, i)
          BY <2>5, <4>1, <4>3, <5>1 DEF CompleteAt
        <5>3. QED
          BY <5>2
      <4>4. QED
        BY <4>2, <4>3
    <3>3. QED
      BY <3>1, <3>2
  <2>8. QED
    BY <2>1, <2>2, <2>6, <2>7
<1>12. CASE Extends(j, k)
  <2>1. /\ SameQuery(j, k) /\ k.asked = j.asked /\ k.req = j.req /\ j.err = FALSE /\ k.pc = "read" /\ j.pc = "read"
    BY <1>12 DEF Extends, SameQuery, Only, Fields, Typed, HasType
  <2>2. PICK s, t : s = j.result /\ t = k.result /\ NarrowedTo(j, s)
    BY <1>4, <2>1
  <2>3. \A i \in DOMAIN s : CompleteAt(j, s, i) \/ i = Len(s)
    BY <1>4, <2>1, <2>2
  <2>4. PICK n : /\ n = Len(s)
                 /\ n \in Nat \ {0} /\ Len(t) = n /\ DOMAIN s = 1..n /\ DOMAIN t = 1..n
                 /\ \A i \in 1..n : t[i].ranges = s[i].ranges /\ t[i].uuid = s[i].uuid
                 /\ \A i \in 1..n : Range(s[i].recs) \subseteq Range(t[i].recs)
                 /\ CompleteAt(k, t, n)
    <3>1. j.kind = "in" /\ j.params.DataLimit <= 0
      BY <1>4, <2>1
    <3>2. LongerReadings(s, t) /\ CompleteAt(k, t, Len(s))
      BY <1>12, <2>2, <3>1, ReadsAll
    <3>3. QED
      BY <3>2 DEF LongerReadings
  <2>5. NarrowedTo(k, t)
    BY <2>1, <2>2, <2>4 DEF NarrowedTo, Single, IsLeft
  <2>6. ASSUME NEW i \in DOMAIN t PROVE CompleteAt(k, t, i)
    <3>1. CASE i = n
      BY <2>4, <3>1
    <3>2. CASE i # n
      <4>1. CompleteAt(j, s, i) /\ i \in 1..n /\ i \in Nat \ {0} /\ \A m \in 1..i : m \in 1..n
        BY <2>3, <2>4, <3>2
      <4>2. /\ \A m \in 1..i : t[m].ranges = s[m].ranges
            /\ t[i].uuid = s[i].uuid /\ Range(s[i].recs) \subseteq Range(t[i].recs)
        BY <2>4, <4>1
      <4>3. k.had = j.had
        BY <2>1 DEF SameQuery
      <4>4. QED
        BY <2>1, <4>1, <4>2, <4>3, AsComplete
    <3>3. QED
      BY <3>1, <3>2
  <2>7. QED
    BY <2>1, <2>2, <2>5, <2>6
<1>13. ASSUME SameQuery(j, k), Prepares(j, k)
       PROVE  /\ k.pc = "find" => k.result = <<>>
              /\ NarrowedTo(k, k.result) /\ DOMAIN k.result = {}
  <2>1. j.err = FALSE
    BY <1>13, PreparesIs DEF Typed, HasType
  <2>2. QED
    BY <1>1, <1>5, <1>13, <2>1
<1>14. CASE SameQuery(j, k) /\ j.kind \in ByChains
  <2>1. \/ Passes(j, k) \/ Prepares(j, k) \/ Stops(j, k) \/ Access(j, k) \/ Archival(j, k) \/ Narrows(j, k)
        \/ Limits(j, k) \/ Extends(j, k) \/ MasksOne(j, k) \/ Asks(j, k)
    BY <1>3, <1>14, StepSorts DEF SameQuery, ByChains
  <2>2. ASSUME Passes(j, k) PROVE NarrowedTo(k, k.result) /\ (\A i \in DOMAIN k.result : CompleteAt(k, k.result, i)) /\ k.pc # "find"
    BY <1>6, <1>7, <2>2 DEF Quiet
  <2>3. ASSUME Access(j, k) \/ Archival(j, k) \/ Limits(j, k)
        PROVE NarrowedTo(k, k.result) /\ (\A i \in DOMAIN k.result : CompleteAt(k, k.result, i)) /\ k.pc # "find"
    BY <1>6, <1>8, <2>3
  <2>4. QED
    BY <1>2, <1>9, <1>10, <1>11, <1>12, <1>13, <1>14, <2>1, <2>2, <2>3
<1>15. QED
  BY <1>2, <1>3, <1>14, StepSorts DEF ByChains, SameQuery
-----------------------------------------------------------------------------
(* Which documents may be read.                                             *)

\* Whether there was a chain, at some time until now.
Readable(u) == {Chains("access", u, registry[i]) # {} : i \in DOMAIN registry}

\* A document may be missing if a call failed, or if it could not be read.
MayMiss(u, f) == f > 0 \/ FALSE \in Readable(u)

AnswersOK(f) ==
  \A u \in Streams : /\ canread[u] = "yes" => TRUE \in Readable(u)
                     /\ canread[u] = "no" => MayMiss(u, f)

TagsOK(j, f) ==
  j.kind = "tags" =>
    LET sel == j.params.Where.sel
    IN  /\ j.pc = "find" => j.result = <<>>
        /\ Listed(j.result)
        /\ \A u \in Range(j.result) : u \in sel /\ TRUE \in Readable(u)
        /\ j.pc = "canread" => Range(j.uuids) \subseteq sel
        /\ j.pc \in {"canread", "done"} /\ ~j.err =>
             \A u \in DOMAIN j.had \cap sel :
               u \in Range(j.result) \/ (j.pc = "canread" /\ u \in Range(j.uuids)) \/ MayMiss(u, f)

LEMMA BuildAnyChainIs ==
  ASSUME World, NEW u
  PROVE  BuildAnyChain(u) \in BOOLEAN /\ BuildAnyChain(u) \in Readable(u)
<1>1. Len(registry) \in DOMAIN registry /\ Current = registry[Len(registry)]
  BY CurrentIs
<1>2. QED
  BY <1>1 DEF BuildAnyChain, Readable

\* What counts as readable was, and what does not need not be in the answer.
LEMMA ReadsIs ==
  ASSUME World, AnswersOK(faults), NEW j, Head(j.uuids) \in Streams, NEW b \in BOOLEAN, Reads(j, b),
         NEW f \in Nat, f = faults', f >= faults
  PROVE  /\ b => TRUE \in Readable(Head(j.uuids))
         /\ ~b => MayMiss(Head(j.uuids), f)
<1>1. PICK u \in Streams : u = Head(j.uuids)
  OBVIOUS
<1>2. PICK g \in Nat : g = faults
  BY ApiAssumption DEF World
<1>3. MayMiss(u, g) => MayMiss(u, f)
  <2>1. g > 0 => f > 0
    BY <1>2
  <2>2. QED
    BY <2>1 DEF MayMiss
<1>4. CASE canread[u] # "none" /\ b = (canread[u] = "yes")
  <2>1. canread[u] \in {"none", "yes", "no"}
    BY DEF World, Dots
  <2>2. (canread[u] = "yes" => TRUE \in Readable(u)) /\ (canread[u] = "no" => MayMiss(u, g))
    BY <1>2 DEF AnswersOK
  <2>3. QED
    BY <1>1, <1>3, <1>4, <2>1, <2>2
<1>5. CASE b = BuildAnyChain(u)
  BY <1>1, <1>5, BuildAnyChainIs DEF MayMiss
<1>6. CASE b = FALSE /\ faults' > faults
  <2>1. f > 0
    BY <1>2, <1>6
  <2>2. QED
    BY <1>6, <2>1 DEF MayMiss
<1>7. QED
  BY <1>1, <1>4, <1>5, <1>6 DEF Reads

LEMMA TagSteps ==
  ASSUME NEW j, Typed(j), NEW k, JobStep(j, k), k.kind = "tags"
  PROVE  Asks(j, k) \/ FindsTags(j, k) \/ Stops(j, k) \/ \E b \in BOOLEAN : Groups(j, k, b) /\ Reads(j, b)
<1>1. k # NoJob
  BY DEF NoJob
<1>2. ASSUME Finding(j, k) PROVE FindsTags(j, k)
  BY <1>2 DEF Finding, FindsTags, FindsDistinct, Prepares, Only, Fields, DataKinds
<1>3. ASSUME Looking(j, k) PROVE FALSE
  <2>1. k.kind = j.kind /\ j.pc \in {"uri", "lookup", "archival", "store"}
    BY <1>3 DEF Looking, Looks, Access, Archival, Narrows, Limits, Good, Only, Fields
  <2>2. QED
    BY <2>1 DEF Typed, KindsAt, ByChains
<1>4. ASSUME Reading(j, k) PROVE FALSE
  <2>1. ASSUME NEW found, Skips(j, k, found) PROVE FALSE
    BY <2>1 DEF Skips, Only, Fields, Typed, KindsAt
  <2>2. CASE Leaves(j, k) \/ Extends(j, k) \/ Changes1(j, k) \/ GoesOn(j, k) \/ Masks(j, k) \/ MasksOne(j, k)
    <3>1. k.kind = j.kind /\ j.pc \in {"read", "nearest", "mask"}
      BY <2>2 DEF Leaves, Extends, Changes1, GoesOn, Masks, MasksOne, Only, Fields
    <3>2. QED
      BY <3>1 DEF Typed, KindsAt
  <2>3. QED
    BY <1>4, <2>1, <2>2 DEF Reading
<1>5. ASSUME Panics(j, k) PROVE FALSE
  <2>1. k.kind = j.kind /\ j.pc \in {"uri", "read"}
    BY <1>5 DEF Panics, Only, Fields
  <2>2. QED
    BY <2>1 DEF Typed, KindsAt, ByChains
<1>6. QED
  BY <1>1, <1>2, <1>3, <1>4, <1>5 DEF JobStep

LEMMA TagsStep ==
  ASSUME World, AnswersOK(faults), NEW j, Typed(j), HadOK(j), TagsOK(j, faults), NEW k, JobStep(j, k),
         NEW f \in Nat, f = faults', f >= faults
  PROVE  TagsOK(k, f)
<1> SUFFICES ASSUME k.kind = "tags" PROVE TagsOK(k, f)
  BY DEF TagsOK
<1>e. Listed(<<>>) /\ Range(<<>>) = {}
  BY ListedEmpty
<1>g. \A u : MayMiss(u, faults) => MayMiss(u, f)
  <2>1. faults \in Nat
    BY ApiAssumption DEF World
  <2>2. faults > 0 => f > 0
    BY <2>1
  <2>3. QED
    BY <2>2 DEF MayMiss
<1>1. CASE Asks(j, k)
  BY <1>1, <1>e DEF Asks, TagsOK
<1>2. CASE Stops(j, k)
  <2>1. k.kind = j.kind /\ k.params = j.params /\ k.pc = "done" /\ k.err = TRUE /\ k.result \in {j.result, <<>>}
    BY <1>2 DEF Stops, Only, Fields
  <2>2. QED
    BY <1>e, <2>1 DEF TagsOK
<1>3. CASE FindsTags(j, k)
  <2>1. PICK S : S = j.params.Where.sel \cap docs
    OBVIOUS
  <2>2. /\ k.kind = j.kind /\ k.params = j.params /\ k.had = j.had /\ k.result = j.result
        /\ j.pc = "find" /\ k.uuids \in SetToSeqs(S) /\ k.pc = IF k.uuids = <<>> THEN "done" ELSE "canread"
    BY <1>3, <2>1 DEF FindsTags, Only, Fields
  <2>3. k.result = <<>>
    BY <2>2 DEF TagsOK
  <2>4. IsFiniteSet(S)
    <3>1. S \subseteq UUIDs
      BY <2>1 DEF World, Store
    <3>2. QED
      BY <3>1, FS_Subset, QueryAssumption
  <2>5. PICK q : /\ q = k.uuids /\ q \in Seq(S) /\ DOMAIN q = 1..Len(q) /\ Len(q) \in Nat
                 /\ \A x \in S : \E i \in DOMAIN q : q[i] = x
    BY <2>2, <2>4, SeqsOfSet
  <2>6. Range(q) = S
    BY <2>5, ElementOfSeq DEF Range
  <2>7. DOMAIN k.had \subseteq docs
    BY <2>2 DEF HadOK, World, Store
  <2>8. q = <<>> => S = {}
    BY <1>e, <2>6
  <2>9. QED
    BY <1>e, <2>1, <2>2, <2>3, <2>5, <2>6, <2>7, <2>8 DEF TagsOK
<1>4. ASSUME NEW b \in BOOLEAN, Groups(j, k, b), Reads(j, b) PROVE TagsOK(k, f)
  <2>1. PICK u, q : u = Head(j.uuids) /\ q = Tail(j.uuids)
    OBVIOUS
  <2>2. /\ k.kind = j.kind /\ k.params = j.params /\ k.had = j.had /\ k.err = j.err
        /\ j.pc = "canread" /\ k.uuids = q /\ k.pc = IF Len(j.uuids) = 1 THEN "done" ELSE "canread"
        /\ k.result = IF b THEN Append(j.result, u) ELSE j.result
    BY <1>4, <2>1 DEF Groups, Only, Fields
  <2>3. u \in Streams /\ Range(j.uuids) = {u} \cup Range(q) /\ (Len(j.uuids) = 1 => Range(q) = {})
    <3>1. PICK s : s = j.uuids /\ s \in Seq(UUIDs) /\ s # <<>>
      BY <2>2 DEF Typed, HasType, AtHand
    <3>2. PICK n \in Nat \ {0} : /\ n = Len(s) /\ DOMAIN s = 1..n /\ u = s[1] /\ u \in UUIDs
                                 /\ DOMAIN q = 1..(n - 1) /\ \A i \in 1..(n - 1) : q[i] = s[i + 1]
      BY <2>1, <3>1, Tails
    <3>3. \A i \in 1..n : i = 1 \/ (i - 1 \in 1..(n - 1) /\ (i - 1) + 1 = i)
      OBVIOUS
    <3>4. Range(s) \subseteq {u} \cup Range(q)
      <4>1. ASSUME NEW i \in 1..n PROVE s[i] \in {u} \cup Range(q)
        <5>1. CASE i = 1
          BY <3>2, <5>1
        <5>2. CASE i - 1 \in 1..(n - 1) /\ (i - 1) + 1 = i
          BY <3>2, <5>2 DEF Range
        <5>3. QED
          BY <3>3, <5>1, <5>2
      <4>2. QED
        BY <3>2, <4>1 DEF Range
    <3>5. \A i \in 1..(n - 1) : i + 1 \in 1..n
      OBVIOUS
    <3>6. 1 \in 1..n
      OBVIOUS
    <3>7. {u} \cup Range(q) \subseteq Range(s)
      BY <3>2, <3>5, <3>6 DEF Range
    <3>8. n = 1 => DOMAIN q = {}
      BY <3>2
    <3>9. n = 1 => Range(q) = {}
      BY <3>8 DEF Range
    <3>10. QED
      BY <3>1, <3>2, <3>4, <3>7, <3>9, ApiAssumption
  <2>4. (b => TRUE \in Readable(u)) /\ (~b => MayMiss(u, f))
    BY <1>4, <2>1, <2>3, ReadsIs
  <2>5. PICK sel : /\ sel = j.params.Where.sel /\ Listed(j.result)
                   /\ \A v \in Range(j.result) : v \in sel /\ TRUE \in Readable(v)
                   /\ Range(j.uuids) \subseteq sel
                   /\ ~j.err => \A v \in DOMAIN j.had \cap sel : v \in Range(j.result) \/ v \in Range(j.uuids) \/ MayMiss(v, faults)
    BY <2>2 DEF TagsOK
  <2>6. /\ Listed(k.result) /\ Range(j.result) \subseteq Range(k.result)
        /\ Range(k.result) \subseteq Range(j.result) \cup {u}
        /\ IF b THEN u \in Range(k.result) ELSE k.result = j.result
    <3>1. Listed(Append(j.result, u)) /\ Range(Append(j.result, u)) = Range(j.result) \cup {u}
      BY <2>5, AppendRange
    <3>2. QED
      BY <2>2, <2>5, <3>1
  <2>7. \A v \in Range(k.result) : v \in sel /\ TRUE \in Readable(v)
    BY <2>3, <2>4, <2>5, <2>6
  <2>8. ASSUME ~k.err, NEW v \in DOMAIN k.had \cap sel
        PROVE  v \in Range(k.result) \/ (k.pc = "canread" /\ v \in Range(q)) \/ MayMiss(v, f)
    <3>1. v \in Range(j.result) \/ v = u \/ v \in Range(q) \/ MayMiss(v, f)
      BY <1>g, <2>2, <2>3, <2>5, <2>8
    <3>2. v \in Range(q) => k.pc = "canread"
      BY <2>2, <2>3
    <3>3. v = u => v \in Range(k.result) \/ MayMiss(v, f)
      BY <2>4, <2>6
    <3>4. QED
      BY <2>6, <3>1, <3>2, <3>3
  <2>9. k.pc # "find" /\ Range(q) \subseteq sel
    BY <2>2, <2>3, <2>5
  <2>10. QED
    BY <2>2, <2>5, <2>6, <2>7, <2>8, <2>9 DEF TagsOK
<1>5. QED
  BY <1>1, <1>2, <1>3, <1>4, TagSteps
-----------------------------------------------------------------------------
(* Which streams an answer is about.                                        *)

\* The streams that have no series in the result yet.
Rest(j) == IF j.pc = "done" THEN <<>> ELSE IF j.pc = "read" THEN Tail(j.uuids) ELSE j.uuids

\* The streams that were chosen when the query was prepared.
About(j, f) ==
  LET n == j.params.StreamLimit
  IN  /\ \A i \in DOMAIN f : /\ f[i] \in UUIDs /\ f[i] \in j.params.Where.sel
                             /\ \A m \in DOMAIN f : f[i] = f[m] => i = m
      /\ IF n > 0 THEN Len(f) <= n ELSE DOMAIN j.had \cap j.params.Where.sel \subseteq Range(f)

\* In this order they get their series.
Split(j, f) ==
  /\ f \in Seq(UUIDs) /\ Len(f) = Len(j.result) + Len(Rest(j))
  /\ \A i \in 1..Len(j.result) : j.result[i].uuid = f[i]
  /\ \A i \in 1..Len(Rest(j)) : Rest(j)[i] = f[Len(j.result) + i]

StreamsOK(j) ==
  /\ j.kind \in DataKinds => IsWhere(j.q.where) /\ j.params.Where = whereList(j.q.where)
  /\ j.kind \in {"in", "stat"} =>
       /\ j.pc = "find" => j.result = <<>>
       /\ j.pc \notin {"find", "panic"} /\ ~j.err =>
            j.params.Where.form # "refused" /\ \E f : About(j, f) /\ Split(j, f)

LEMMA AboutStays ==
  ASSUME NEW j, NEW k, SameQuery(j, k), NEW f, About(j, f)
  PROVE  About(k, f)
BY DEF About, SameQuery

\* A stream that is at hand no more has got its series.
LEMMA SplitStays ==
  ASSUME NEW j, NEW k, NEW f, Split(j, f), Len(k.result) = Len(j.result), Rest(k) = Rest(j),
         \A i \in 1..Len(j.result) : k.result[i].uuid = j.result[i].uuid
  PROVE  Split(k, f)
BY DEF Split

\* The stream at hand gets its series.
LEMMA SplitMoves ==
  ASSUME NEW j, NEW k, NEW f, Split(j, f), NEW u, NEW s, s \in Seq(UUIDs), s # <<>>,
         Rest(j) = s, Rest(k) = Tail(s), u = Head(s), Listed(j.result),
         NEW ts, ts.uuid = u, k.result = Append(j.result, ts)
  PROVE  Split(k, f)
<1>1. PICK n, m \in Nat : n = Len(j.result) /\ Len(s) = m + 1
  <2>1. Len(j.result) \in Nat /\ Len(s) \in Nat \ {0}
    BY Tails DEF Listed
  <2>2. Len(s) - 1 \in Nat /\ (Len(s) - 1) + 1 = Len(s)
    BY <2>1
  <2>3. QED
    BY <2>1, <2>2
<1>2. /\ u = s[1] /\ Len(Tail(s)) = m /\ \A i \in 1..m : Tail(s)[i] = s[i + 1]
  <2>1. /\ Head(s) = s[1] /\ Len(Tail(s)) = Len(s) - 1
        /\ \A i \in 1..(Len(s) - 1) : Tail(s)[i] = s[i + 1]
    BY Tails
  <2>2. Len(s) - 1 = m
    BY <1>1
  <2>3. QED
    BY <2>1, <2>2
<1>3. PICK r : r = k.result /\ Len(r) = n + 1 /\ r[n + 1] = ts /\ \A i \in 1..n : r[i] = j.result[i]
  <2>1. PICK a, r : a = j.result /\ r = k.result /\ Listed(a) /\ r = Append(a, ts)
    OBVIOUS
  <2>2. Len(r) = Len(a) + 1 /\ r[Len(a) + 1] = ts /\ \A i \in 1..Len(a) : r[i] = a[i]
    BY <2>1, ListedAppend
  <2>3. QED
    BY <1>1, <2>1, <2>2
<1>4. /\ f \in Seq(UUIDs) /\ Len(f) = n + (m + 1)
      /\ \A i \in 1..n : j.result[i].uuid = f[i]
      /\ \A i \in 1..(m + 1) : s[i] = f[n + i]
  BY <1>1 DEF Split
<1>5. ASSUME NEW i \in 1..(n + 1) PROVE r[i].uuid = f[i]
  <2>1. CASE i \in 1..n
    BY <1>3, <1>4, <2>1
  <2>2. CASE i = n + 1
    <3>1. s[1] = f[n + 1]
      <4>1. 1 \in 1..(m + 1)
        OBVIOUS
      <4>2. QED
        BY <1>4, <4>1
    <3>2. QED
      BY <1>2, <1>3, <2>2, <3>1
  <2>3. QED
    BY <1>5, <2>1, <2>2
<1>6. ASSUME NEW i \in 1..m PROVE Tail(s)[i] = f[(n + 1) + i]
  <2>1. i + 1 \in 1..(m + 1) /\ n + (i + 1) = (n + 1) + i
    OBVIOUS
  <2>2. s[i + 1] = f[n + (i + 1)]
    BY <1>4, <2>1
  <2>3. QED
    BY <1>2, <2>1, <2>2
<1>7. Len(f) = (n + 1) + m
  BY <1>4
<1>8. QED
  BY <1>2, <1>3, <1>4, <1>5, <1>6, <1>7 DEF Split

\* At first they are those that were chosen.
LEMMA PreparesStreams ==
  ASSUME World, NEW j, Typed(j), HadOK(j), StreamsOK(j), j.kind \in {"in", "stat"}, NEW k, Prepares(j, k)
  PROVE  About(k, k.uuids) /\ Split(k, k.uuids) /\ k.params.Where.form # "refused"
<1>1. /\ SameQuery(j, k) /\ k.result = j.result /\ j.pc = "find" /\ k.pc \in {"done", "uri"}
      /\ k.uuids \in Seq(UUIDs) /\ (k.pc = "done" <=> k.uuids = <<>>)
      /\ j.params.Where.form # "refused" /\ Chosen(j, k.uuids)
  BY PreparesIs DEF Prepares
<1>2. k.result = <<>> /\ k.params.Where.form # "refused"
  BY <1>1 DEF StreamsOK, SameQuery
<1>3. DOMAIN j.had \subseteq docs
  BY DEF HadOK, World, Store
<1>4. PICK us : us = k.uuids /\ us \in Seq(UUIDs) /\ Chosen(j, us)
  BY <1>1
<1>5. \A i \in DOMAIN us : us[i] \in UUIDs
  BY <1>4
<1>6. About(j, us)
  BY <1>3, <1>4, <1>5 DEF About, Chosen
<1>7. Rest(k) = us
  BY <1>1, <1>4 DEF Rest
<1>8. Split(k, us)
  <2>1. PICK n \in Nat : n = Len(us)
    BY <1>4
  <2>2. Len(k.result) = 0
    BY <1>2
  <2>3. n = 0 + n /\ \A i \in 1..n : 0 + i = i
    OBVIOUS
  <2>4. 1..0 = {}
    OBVIOUS
  <2>5. QED
    BY <1>4, <1>7, <2>1, <2>2, <2>3, <2>4 DEF Split
<1>9. QED
  BY <1>1, <1>2, <1>4, <1>6, <1>8, AboutStays

LEMMA StreamsStep ==
  ASSUME World, NEW j, Typed(j), RangesOK(j), HadOK(j), StreamsOK(j), NEW k, JobStep(j, k)
  PROVE  StreamsOK(k)
<1>1. CASE Asks(j, k)
  BY <1>1 DEF Asks, StreamsOK, DataKinds
<1>2. CASE k = NoJob
  BY <1>2 DEF NoJob, StreamsOK, DataKinds
<1>3. ASSUME SameQuery(j, k)
      PROVE  k.kind \in DataKinds => IsWhere(k.q.where) /\ k.params.Where = whereList(k.q.where)
  BY <1>3 DEF SameQuery, StreamsOK
<1>4. ASSUME SameQuery(j, k), k.kind \notin {"in", "stat"} \/ (k.err /\ k.pc # "find") \/ k.pc = "panic" PROVE StreamsOK(k)
  BY <1>3, <1>4 DEF StreamsOK
<1>5. ASSUME SameQuery(j, k), k.kind \in {"in", "stat"}, k.pc # "find", k.params.Where.form # "refused",
             NEW f, About(k, f), Split(k, f)
      PROVE  StreamsOK(k)
  BY <1>3, <1>5 DEF StreamsOK
<1>6. ASSUME SameQuery(j, k), j.kind \in {"in", "stat"}, k.pc # "find", j.pc \notin {"find", "panic"}, k.err = j.err,
             \A f : Split(j, f) => Split(k, f)
      PROVE  StreamsOK(k)
  <2>1. CASE j.err
    BY <1>4, <1>6, <2>1
  <2>2. CASE ~j.err
    <3>1. PICK f : j.params.Where.form # "refused" /\ About(j, f) /\ Split(j, f)
      BY <1>6, <2>2 DEF StreamsOK
    <3>2. k.kind \in {"in", "stat"} /\ k.params.Where.form # "refused" /\ About(k, f) /\ Split(k, f)
      BY <1>6, <3>1, AboutStays DEF SameQuery
    <3>3. QED
      BY <1>5, <1>6, <3>2
  <2>3. QED
    BY <2>1, <2>2
<1>7. ASSUME SameQuery(j, k), j.kind \in {"in", "stat"}, Looks(j, k) \/ Access(j, k) \/ Archival(j, k) PROVE StreamsOK(k)
  <2>1. /\ k.result = j.result /\ k.uuids = j.uuids /\ k.err = j.err /\ k.pc \in {"lookup", "archival", "store"}
        /\ j.pc \in {"uri", "lookup", "archival"}
    BY <1>7 DEF Looks, Access, Archival, Only, Fields
  <2>2. Rest(k) = Rest(j)
    BY <2>1 DEF Rest
  <2>3. \A f : Split(j, f) => Split(k, f)
    BY <2>1, <2>2, SplitStays
  <2>4. QED
    BY <1>6, <1>7, <2>1, <2>3
<1>8. ASSUME SameQuery(j, k), j.kind \in {"in", "stat"}, Leaves(j, k) PROVE StreamsOK(k)
  <2>1. /\ k.result = j.result /\ k.uuids = Tail(j.uuids) /\ k.err = j.err /\ j.pc = "read"
        /\ k.pc = IF Len(j.uuids) = 1 THEN "done" ELSE "uri"
    BY <1>8 DEF Leaves, Goes, Only, Fields
  <2>2. Tail(j.uuids) = <<>> <=> Len(j.uuids) = 1
    <3>1. j.uuids \in Seq(UUIDs) /\ j.uuids # <<>>
      BY <2>1 DEF Typed, HasType, AtHand
    <3>2. QED
      BY <3>1, Tails
  <2>3. Rest(k) = Rest(j)
    BY <2>1, <2>2 DEF Rest
  <2>4. \A f : Split(j, f) => Split(k, f)
    BY <2>1, <2>3, SplitStays
  <2>5. QED
    BY <1>6, <1>8, <2>1, <2>4
<1>9. ASSUME SameQuery(j, k), j.kind \in {"in", "stat"}, Extends(j, k) PROVE StreamsOK(k)
  <2>1. k.uuids = j.uuids /\ k.err = j.err /\ j.pc = "read" /\ k.pc = "read"
    BY <1>9 DEF Extends, Only, Fields
  <2>2. Rest(k) = Rest(j)
    BY <2>1 DEF Rest
  <2>3. Listed(j.result)
    BY <1>9 DEF RangesOK, ByChains
  <2>4. PICK recs : Extended(j.result, k.result, recs)
    BY <1>9, ExtendsIs
  <2>5. Len(k.result) = Len(j.result) /\ \A i \in DOMAIN j.result : k.result[i].uuid = j.result[i].uuid
    BY <2>4 DEF Extended
  <2>6. DOMAIN j.result = 1..Len(j.result)
    BY <2>3 DEF Listed
  <2>7. \A f : Split(j, f) => Split(k, f)
    BY <2>2, <2>5, <2>6, SplitStays
  <2>8. QED
    BY <1>6, <1>9, <2>1, <2>7
<1>10. ASSUME SameQuery(j, k), j.kind \in {"in", "stat"}, Narrows(j, k) PROVE StreamsOK(k)
  <2>1. PICK ts : ts = TS(Head(j.uuids), <<>>, k.ranges) /\ ts.uuid = Head(j.uuids)
    <3>1. TS(Head(j.uuids), <<>>, k.ranges).uuid = Head(j.uuids)
      BY DEF TS
    <3>2. QED
      BY <3>1
  <2>2. /\ k.uuids = j.uuids /\ k.err = j.err /\ k.pc = "read" /\ j.pc \in {"lookup", "store"}
        /\ k.result = Append(j.result, ts)
    BY <1>10, <2>1 DEF Narrows, Good, Only, Fields
  <2>3. PICK s : s = j.uuids /\ s \in Seq(UUIDs) /\ s # <<>>
    BY <2>2 DEF Typed, HasType, AtHand
  <2>4. Rest(j) = s /\ Rest(k) = Tail(s) /\ Listed(j.result)
    BY <1>10, <2>2, <2>3 DEF Rest, RangesOK, ByChains
  <2>5. ASSUME NEW f, Split(j, f) PROVE Split(k, f)
    BY <2>1, <2>2, <2>3, <2>4, <2>5, SplitMoves
  <2>6. QED
    BY <1>6, <1>10, <2>2, <2>5
<1>11. ASSUME SameQuery(j, k), j.kind \in {"in", "stat"}, Prepares(j, k) PROVE StreamsOK(k)
  <2>1. About(k, k.uuids) /\ Split(k, k.uuids) /\ k.params.Where.form # "refused"
    BY <1>11, PreparesStreams
  <2>2. k.kind \in {"in", "stat"} /\ k.pc # "find"
    BY <1>11, PreparesIs DEF SameQuery
  <2>3. QED
    BY <1>5, <1>11, <2>1, <2>2
<1>12. ASSUME SameQuery(j, k), Stops(j, k) PROVE StreamsOK(k)
  BY <1>4, <1>12, StopsIs
<1>13. ASSUME SameQuery(j, k), j.kind \in {"in", "stat"}, Passes(j, k) PROVE StreamsOK(k)
  <2>1. j.pc \notin {"nearest", "streams"}
    BY <1>13 DEF Typed, KindsAt
  <2>2. Looks(j, k) \/ Leaves(j, k) \/ Panics(j, k)
    BY <1>13, <2>1 DEF Passes, GoesOn, Masks, Skips
  <2>3. ASSUME Panics(j, k) PROVE StreamsOK(k)
    BY <1>4, <1>13, <2>3 DEF Panics
  <2>4. QED
    BY <1>7, <1>8, <1>13, <2>2, <2>3
<1>14. ASSUME SameQuery(j, k), j.kind \notin {"in", "stat"} PROVE StreamsOK(k)
  BY <1>4, <1>14 DEF SameQuery
<1>15. ASSUME j.kind \in {"in", "stat"}, Limits(j, k) \/ MasksOne(j, k) PROVE FALSE
  BY <1>15 DEF Limits, MasksOne, Typed, KindsAt
<1>16. ASSUME SameQuery(j, k), j.kind \in {"in", "stat"},
              \/ Passes(j, k) \/ Prepares(j, k) \/ Stops(j, k) \/ Access(j, k) \/ Archival(j, k) \/ Narrows(j, k)
              \/ Limits(j, k) \/ Extends(j, k) \/ MasksOne(j, k)
       PROVE  StreamsOK(k)
  BY <1>7, <1>9, <1>10, <1>11, <1>12, <1>13, <1>15, <1>16
<1>17. QED
  BY <1>1, <1>2, <1>14, <1>16, StepSorts DEF SameQuery, ByChains
-----------------------------------------------------------------------------
(* The range that is asked for.                                             *)

RangeAsWritten(j) ==
  LET t1 == Exactly(j.q.clause.from)
      t2 == Exactly(j.q.clause.to)
  IN  {t1, t2} \subseteq US_HIGH..MaxInt => j.asked = [Start |-> Early(t1, t2), End |-> Late(t1, t2)]

\* Before the range is made, its bounds are right.
WrittenOK(j) ==
  j.kind \in {"in", "stat"} =>
    /\ j.pc = "find" => BoundsAsWritten(j)
    /\ j.asked # NoRange => RangeAsWritten(j)

LEMMA WrittenStep ==
  ASSUME NEW j, Typed(j), WrittenOK(j), NEW k, JobStep(j, k)
  PROVE  WrittenOK(k)
<1>1. CASE Asks(j, k)
  BY <1>1 DEF Asks, WrittenOK
<1>2. CASE k = NoJob
  BY <1>2 DEF NoJob, WrittenOK
<1>3. CASE k.kind \notin ByChains
  BY <1>3 DEF WrittenOK, ByChains
<1>4. ASSUME SameQuery(j, k), k.asked = j.asked, k.pc # "find" PROVE WrittenOK(k)
  BY <1>4 DEF WrittenOK, RangeAsWritten, SameQuery
<1>5. ASSUME Prepares(j, k), j.kind \in {"in", "stat"} PROVE WrittenOK(k)
  <2>1. SameQuery(j, k) /\ j.pc = "find" /\ k.pc # "find"
    BY <1>5, PreparesIs
  <2>2. PICK t1, t2 : t1 = Exactly(j.q.clause.from) /\ t2 = Exactly(j.q.clause.to)
    OBVIOUS
  <2>3. ASSUME t1 \in US_HIGH..MaxInt, t2 \in US_HIGH..MaxInt
        PROVE  k.asked = [Start |-> Early(t1, t2), End |-> Late(t1, t2)]
    <3>1. j.params.Begin = t1 /\ j.params.End = t2
      BY <1>5, <2>1, <2>2, <2>3 DEF WrittenOK, BoundsAsWritten
    <3>2. InNanoseconds(t1).val = t1 /\ InNanoseconds(t2).val = t2
      BY <2>3, NanosecondsStay DEF InNanoseconds, Value
    <3>3. k.asked = InOrder(j)
      BY <1>5 DEF Prepares
    <3>4. QED
      BY <3>1, <3>2, <3>3 DEF InOrder
  <2>4. RangeAsWritten(k)
    BY <2>1, <2>2, <2>3 DEF RangeAsWritten, SameQuery
  <2>5. QED
    BY <2>1, <2>4 DEF WrittenOK
<1>6. ASSUME SameQuery(j, k), Passes(j, k) \/ Stops(j, k) PROVE WrittenOK(k)
  <2>1. k.asked = j.asked /\ k.pc # "find"
    BY <1>6, PassesQuietly, StopsIs DEF Quiet
  <2>2. QED
    BY <1>4, <1>6, <2>1
<1>7. ASSUME SameQuery(j, k), Access(j, k) \/ Archival(j, k) \/ Narrows(j, k) \/ Limits(j, k) PROVE WrittenOK(k)
  <2>1. k.asked = j.asked /\ k.pc # "find"
    BY <1>7 DEF Access, Archival, Narrows, Limits, Only, Fields
  <2>2. QED
    BY <1>4, <1>7, <2>1
<1>8. ASSUME SameQuery(j, k), Extends(j, k) \/ MasksOne(j, k) PROVE WrittenOK(k)
  <2>1. k.asked = j.asked /\ k.pc # "find"
    BY <1>8 DEF Extends, MasksOne, Goes, Only, Fields
  <2>2. QED
    BY <1>4, <1>8, <2>1
<1>9. CASE SameQuery(j, k) /\ Prepares(j, k)
  <2>1. CASE j.kind \in {"in", "stat"}
    BY <1>5, <1>9, <2>1
  <2>2. CASE j.kind \notin {"in", "stat"}
    BY <1>9, <2>2 DEF SameQuery, WrittenOK
  <2>3. QED
    BY <2>1, <2>2
<1>10. QED
  BY <1>1, <1>2, <1>3, <1>6, <1>7, <1>8, <1>9, StepSorts

-----------------------------------------------------------------------------
(* What is sent is of the range that is asked for.                          *)

\* What a bound comes to in nanoseconds fits, whatever unit it is taken for.
LEMMA NanosecondsFit ==
  ASSUME NEW t \in Int64
  PROVE  InNanoseconds(t).val \in Int64
<1>1. PICK from : from = GuessTimeUnit(t) /\ from \in {UOT_S, UOT_MS, UOT_US, UOT_NS}
  BY DEF GuessTimeUnit
<1>2. from \in UnitOfTime /\ t \in Int
  BY <1>1, Int64IsInt DEF UnitOfTime
<1>3. PICK k \in Nat : k = unitmultiplier[UOT_NS] \div unitmultiplier[from]
  BY <1>2, Factors
<1>4. PICK r \in Int64 : r = Wrap(t * k)
  <2>1. t * k \in Int
    BY <1>2
  <2>2. QED
    BY <2>1, WrapIsSame
<1>5. InNanoseconds(t) = ConvertTime(t, from, UOT_NS)
  BY <1>1 DEF InNanoseconds
<1>6. CASE from = UOT_NS
  <2>1. ~(UOT_NS < from)
    BY <1>6 DEF UOT_NS
  <2>2. ConvertTime(t, from, UOT_NS) = Value(t, FALSE)
    BY <1>6, <2>1 DEF ConvertTime
  <2>3. QED
    BY <1>5, <2>2 DEF Value
<1>7. CASE from # UOT_NS
  <2>1. UOT_NS < from
    BY <1>1, <1>7 DEF UOT_NS, UOT_US, UOT_MS, UOT_S
  <2>2. ConvertTime(t, from, UOT_NS) = IF r < t THEN Value(t, TRUE) ELSE Value(r, FALSE)
    BY <1>3, <1>4, <1>7, <2>1 DEF ConvertTime
  <2>3. QED
    BY <1>5, <2>2 DEF Value
<1>8. QED
  BY <1>6, <1>7

\* Division with a rest, rounding down.
LEMMA Quotients ==
  ASSUME NEW a \in Int, NEW w \in Nat \ {0}
  PROVE  \E q \in Int, r \in 0..(w - 1) :
           /\ q = a \div w /\ r = a % w /\ q * w \in Int /\ a = q * w + r
           /\ a >= 0 => q * w >= 0 /\ r <= a
<1>1. a % w \in 0..(w - 1) /\ a \div w \in Int /\ a = w * (a \div w) + (a % w)
  OBVIOUS
<1>2. PICK q \in Int, r \in 0..(w - 1) : q = a \div w /\ r = a % w /\ a = w * q + r
  BY <1>1
<1>3. q * w \in Int /\ q * w = w * q
  OBVIOUS
<1>4. PICK y \in Int : y = q * w /\ a = y + r
  BY <1>2, <1>3
<1>5. ASSUME a >= 0 PROVE y >= 0
  <2>1. 0 \div w = 0
    OBVIOUS
  <2>2. 0 <= q
    BY <1>2, <1>5, <2>1, DivMonotone
  <2>3. 0 * w <= q * w
    BY <2>2, TimesMonotone
  <2>4. QED
    BY <1>4, <2>3
<1>6. a >= 0 => y >= 0 /\ r <= a
  BY <1>4, <1>5
<1>7. QED
  BY <1>2, <1>4, <1>6

IsMultiple(a, w) == \E k \in Int : a = k * w

\* Clearing the low bits rounds down, and keeps the order.
LEMMA AlignedIs ==
  ASSUME NEW a \in Int, NEW b \in Int, a <= b, NEW w \in Nat \ {0}
  PROVE  /\ Aligned(a, w) \in Int /\ Aligned(b, w) \in Int
         /\ Aligned(a, w) <= Aligned(b, w) /\ Aligned(b, w) <= b
         /\ IsMultiple(Aligned(a, w), w)
<1>1. PICK q \in Int, r \in 0..(w - 1) : q = a \div w /\ r = a % w /\ q * w \in Int /\ a = q * w + r
  BY Quotients
<1>2. PICK p \in Int, s \in 0..(w - 1) : p = b \div w /\ s = b % w /\ p * w \in Int /\ b = p * w + s
  BY Quotients
<1>3. q <= p
  BY <1>1, <1>2, DivMonotone
<1>4. q * w <= p * w
  BY <1>3, TimesMonotone
<1>5. PICK x, y \in Int : x = q * w /\ y = p * w /\ x <= y /\ a = x + r /\ b = y + s
  BY <1>1, <1>2, <1>4
<1>6. Aligned(a, w) = x
  <2>1. Aligned(a, w) = a - r
    BY <1>1 DEF Aligned
  <2>2. QED
    BY <1>5, <2>1
<1>7. Aligned(b, w) = y
  <2>1. Aligned(b, w) = b - s
    BY <1>2 DEF Aligned
  <2>2. QED
    BY <1>5, <2>1
<1>8. IsMultiple(x, w)
  BY <1>5 DEF IsMultiple
<1>9. QED
  BY <1>5, <1>6, <1>7, <1>8

\* A window begins at a reading or before it, but not before the first window.
LEMMA BeginIs ==
  ASSUME NEW t \in Nat, NEW start \in Int, start <= t, NEW w \in Nat \ {0},
         NEW x, x = t - ((t - start) % w)
  PROVE  x \in Int /\ start <= x /\ x <= t /\ (IsMultiple(start, w) => x >= 0)
<1>1. PICK a \in Int : a = t - start /\ a >= 0
  OBVIOUS
<1>2. PICK q \in Int, r \in 0..(w - 1) :
        /\ q = a \div w /\ r = a % w /\ q * w \in Int /\ a = q * w + r
        /\ a >= 0 => q * w >= 0 /\ r <= a
  BY Quotients
<1>3. PICK y \in Int : y = q * w /\ y >= 0
  BY <1>1, <1>2
<1>4. a = y + r
  BY <1>2, <1>3
<1>5. x = t - r
  BY <1>1, <1>2
<1>6. x \in Int /\ x <= t /\ r <= a
  BY <1>1, <1>2, <1>5
<1>7. x = start + y
  BY <1>1, <1>4, <1>5
<1>8. start <= x
  BY <1>3, <1>7
<1>9. ASSUME NEW k \in Int, start = k * w PROVE x >= 0
  <2>1. PICK m \in Int : m = k + q
    OBVIOUS
  <2>2. x = m * w
    BY <1>3, <1>7, <1>9, <2>1
  <2>3. x > -w
    BY <1>5
  <2>4. m > -1
    <3>1. SUFFICES ASSUME m <= -1 PROVE FALSE
      OBVIOUS
    <3>2. m * w <= (-1) * w
      BY <3>1, TimesMonotone
    <3>3. QED
      BY <1>6, <2>2, <2>3, <3>2
  <2>5. 0 * w <= m * w
    BY <2>4, TimesMonotone
  <2>6. QED
    BY <2>2, <2>5
<1>10. QED
  BY <1>6, <1>8, <1>9 DEF IsMultiple

\* Windows are numbers from the start on and not after the end, if there are any.
LEMMA WindowsAre ==
  ASSUME World, NEW u \in DOMAIN data, NEW width \in Nat, NEW start \in Int, NEW end \in Int,
         start \in Int64 \/ (width # 0 /\ IsMultiple(start, width))
  PROVE  /\ Windows(u, width, start, end) \in Seq(Int64)
         /\ \A x \in Range(Windows(u, width, start, end)) : start <= x /\ x <= end
<1>1. CASE width = 0 \/ end <= start
  BY <1>1, ListedEmpty DEF Windows
<1>2. CASE width # 0 /\ ~(end <= start)
  <2>1. PICK w \in Nat \ {0} : w = width
    BY <1>2
  <2>2. PICK last : last = start + w * ((end - start) \div w)
    OBVIOUS
  <2>3. last \in Int /\ last <= end
    <3>1. PICK a \in Int : a = end - start /\ a >= 0
      BY <1>2
    <3>2. PICK q \in Int, r \in 0..(w - 1) : q = a \div w /\ q * w \in Int /\ a = q * w + r
      BY Quotients
    <3>3. PICK y \in Int : y = w * q /\ a = y + r
      BY <3>2
    <3>4. last = start + y
      BY <2>2, <3>1, <3>2, <3>3
    <3>5. QED
      BY <3>1, <3>3, <3>4
  <2>4. PICK S : S = {t \in Times(u) : start <= t /\ t < last}
    OBVIOUS
  <2>5. IsFiniteSet(S) /\ S \subseteq Stored
    <3>1. data[u] \in Seq(Stored)
      BY DEF World, Store
    <3>2. IsFiniteSet(Times(u)) /\ Times(u) \subseteq Stored
      BY <3>1, FiniteRange DEF Times
    <3>3. QED
      BY <2>4, <3>2, FS_Subset
  <2>6. PICK begin : begin = {t - ((t - start) % w) : t \in S}
    OBVIOUS
  <2>7. ASSUME NEW x \in begin PROVE x \in Int64 /\ start <= x /\ x <= end
    <3>1. PICK t \in S : x = t - ((t - start) % w)
      BY <2>6
    <3>2. t \in Nat /\ t <= MaxInt /\ start <= t /\ t < last
      BY <2>4, <2>5, UnitAssumption DEF Stored
    <3>3. x \in Int /\ start <= x /\ x <= t /\ (IsMultiple(start, w) => x >= 0)
      BY <3>1, <3>2, BeginIs
    <3>4. x <= end
      BY <2>3, <3>2, <3>3
    <3>5. start \in Int64 \/ x >= 0
      BY <2>1, <3>3
    <3>6. x \in Int64
      BY <3>2, <3>3, <3>5, UnitAssumption DEF Int64
    <3>7. QED
      BY <3>3, <3>4, <3>6
  <2>8. begin \in SUBSET Int64 /\ begin \in SUBSET Int
    BY <2>7, Int64IsInt
  <2>9. IsFiniteSet(begin)
    <3>1. PICK f : f = [t \in S |-> t - ((t - start) % w)]
      OBVIOUS
    <3>2. f \in Surjection(S, begin)
      BY <2>6, <3>1 DEF Surjection
    <3>3. QED
      BY <2>5, <3>2, FS_Surjection
  <2>10. Windows(u, width, start, end) = Series(begin)
    BY <1>2, <2>1, <2>2, <2>4, <2>6 DEF Windows
  <2>11. Series(begin) \in Seq(begin) /\ Range(Series(begin)) = begin
    BY <2>8, <2>9, SeriesIs
  <2>12. Series(begin) \in Seq(Int64)
    BY <2>8, <2>11, SeqMonotonic
  <2>13. QED
    BY <2>7, <2>10, <2>11, <2>12
<1>3. QED
  BY <1>1, <1>2

\* A width is at least one.
LEMMA WidthType ==
  ASSUME NEW pointWidth \in Int
  PROVE  WidthOf(pointWidth) \in Nat \ {0}
<1>1. PICK n \in Nat : n = pointWidth % 256
  OBVIOUS
<1>2. 2^n \in Nat \ {0}
  <2>1. IsFiniteSet(1..n) /\ Cardinality(1..n) = n
    <3>1. 1 \in Int /\ n \in Int /\ (1 > n => n = 0)
      OBVIOUS
    <3>2. QED
      BY <3>1, FS_Interval
  <2>2. PICK S : S = SUBSET (1..n) /\ IsFiniteSet(S) /\ Cardinality(S) = 2^n
    BY <2>1, FS_SUBSET
  <2>3. S # {}
    BY <2>2
  <2>4. QED
    BY <2>2, <2>3, FS_CardinalityType, FS_EmptySet
<1>3. QED
  BY <1>1, <1>2 DEF WidthOf

\* From where on what is read of the range of a query begins.
Low(j) == IF j.kind = "stat" THEN LowBound(j) ELSE j.asked.Start

InAsked(j, ts) == \A t \in Range(ts.recs) : Low(j) <= t /\ t <= j.asked.End

\* A series of a range query.
OfAsked(j, ts) ==
  /\ ts.recs \in Seq(Int64) /\ InAsked(j, ts)
  /\ j.params.DataLimit > 0 => Len(ts.recs) <= j.params.DataLimit

RangeFits(j) == j.asked.Start \in Int64 /\ j.asked.End \in Int64 /\ Inside(j.req, j.asked)

AskedOK(j) ==
  j.kind \in ByChains =>
    /\ RangeFits(j)
    /\ j.pc = "find" => j.result = <<>>
    /\ \A ts \in Range(j.result) : IF j.kind \in {"in", "stat"} THEN OfAsked(j, ts) ELSE ts.recs \in Seq(Int64)

LEMMA FetchedIsAsked ==
  ASSUME World, NEW j, Typed(j), j.pc = "read", RangeFits(j), NEW u \in DOMAIN data
  PROVE  /\ Fetched(j, u) \in Seq(Int64)
         /\ \A t \in Range(Fetched(j, u)) : Low(j) <= t /\ t <= j.asked.End
<1>1. /\ j.req \in TimeRange /\ j.kind \in {"in", "stat"} /\ HasNumbers(j.params)
  BY DEF Typed, HasType, KindsAt, Asked
<1>2. PICK a, b, s, e \in Int :
        /\ a = j.asked.Start /\ b = j.asked.End /\ s = j.req.Start /\ e = j.req.End
        /\ a \in Int64 /\ b \in Int64 /\ a <= s /\ e <= b
  BY <1>1, Int64IsInt DEF RangeFits, Inside, TimeRange
<1>3. CASE j.kind = "in"
  <2>1. PICK f : /\ f = Fetched(j, u) /\ f \in Seq(Int)
                 /\ Range(f) = {x \in Times(u) : s <= x /\ x < e}
    BY <1>1, <1>2, <1>3, FetchedIs
  <2>2. Times(u) \subseteq Stored
    <3>1. data[u] \in Seq(Stored)
      BY DEF World, Store
    <3>2. QED
      BY <3>1, FiniteRange DEF Times
  <2>3. Range(f) \subseteq Int64
    BY <2>1, <2>2, StoredIs
  <2>4. f \in Seq(Range(f))
    BY <2>1, ListedIs DEF Listed
  <2>5. f \in Seq(Int64)
    BY <2>3, <2>4, SeqMonotonic
  <2>6. \A t \in Range(f) : t \in Int /\ s <= t /\ t < e
    BY <2>1, <2>3, Int64IsInt
  <2>7. \A t \in Range(f) : a <= t /\ t <= b
    BY <1>2, <2>6
  <2>8. Low(j) = a
    BY <1>2, <1>3 DEF Low
  <2>9. QED
    BY <1>2, <2>1, <2>5, <2>7, <2>8
<1>4. CASE j.kind = "stat" /\ j.params.IsStatistical
  <2>1. PICK w \in Nat \ {0} : w = WidthOf(j.params.PointWidth)
    BY <1>1, WidthType DEF HasNumbers
  <2>2. PICK f : f = Fetched(j, u)
    OBVIOUS
  <2>3. f = Windows(u, w, Aligned(s, w), Aligned(e, w))
    BY <1>2, <1>4, <2>1, <2>2 DEF Fetched, AlignedWindows
  <2>4. PICK x, y, z \in Int : /\ x = Aligned(a, w) /\ y = Aligned(s, w) /\ z = Aligned(e, w)
                               /\ x <= y /\ z <= e /\ IsMultiple(y, w)
    <3>1. Aligned(a, w) \in Int /\ Aligned(s, w) \in Int /\ Aligned(a, w) <= Aligned(s, w)
      BY <1>2, <2>1, AlignedIs
    <3>2. IsMultiple(Aligned(s, w), w)
      BY <1>2, <2>1, AlignedIs
    <3>3. Aligned(e, w) \in Int /\ Aligned(e, w) <= e
      BY <1>2, <2>1, AlignedIs
    <3>4. QED
      BY <3>1, <3>2, <3>3
  <2>5. f \in Seq(Int64) /\ \A t \in Range(f) : y <= t /\ t <= z
    BY <2>1, <2>3, <2>4, WindowsAre
  <2>6. \A t \in Range(f) : t \in Int
    BY <2>5, FiniteRange, Int64IsInt
  <2>7. \A t \in Range(f) : x <= t /\ t <= b
    BY <1>2, <2>4, <2>5, <2>6
  <2>8. Low(j) = x
    BY <1>2, <1>4, <2>1, <2>4 DEF Low, LowBound
  <2>9. QED
    BY <1>2, <2>2, <2>5, <2>7, <2>8
<1>5. CASE j.kind = "stat" /\ ~j.params.IsStatistical
  <2>1. PICK w \in Nat : w = j.params.Width
    BY <1>1 DEF HasNumbers
  <2>2. PICK f : f = Fetched(j, u)
    OBVIOUS
  <2>3. f = Windows(u, w, s, e)
    BY <1>2, <1>5, <2>1, <2>2 DEF Fetched
  <2>4. CASE e <= s
    <3>1. f = <<>>
      BY <2>3, <2>4 DEF Windows
    <3>2. QED
      BY <2>2, <3>1, ListedEmpty
  <2>5. CASE ~(e <= s)
    <3>1. s \in Int64
      BY <1>2, <2>5, UnitAssumption DEF Int64
    <3>2. f \in Seq(Int64) /\ \A t \in Range(f) : s <= t /\ t <= e
      BY <2>1, <2>3, <3>1, WindowsAre
    <3>3. \A t \in Range(f) : t \in Int
      BY <3>2, FiniteRange, Int64IsInt
    <3>4. \A t \in Range(f) : a <= t /\ t <= b
      BY <1>2, <3>2, <3>3
    <3>5. Low(j) = a
      BY <1>2, <1>5 DEF Low, LowBound
    <3>6. QED
      BY <1>2, <2>2, <3>2, <3>4, <3>5
  <2>6. QED
    BY <2>4, <2>5
<1>6. QED
  BY <1>1, <1>3, <1>4, <1>5

\* What is known of a series depends on the query and on the range asked for only.
LEMMA StillAsked ==
  ASSUME NEW j, NEW k, k.kind = j.kind, k.params = j.params, k.asked = j.asked
  PROVE  Low(k) = Low(j) /\ \A ts : OfAsked(j, ts) => OfAsked(k, ts)
<1>1. Low(k) = Low(j)
  BY DEF Low, LowBound
<1>2. QED
  BY <1>1 DEF OfAsked, InAsked

LEMMA InsideInside ==
  ASSUME NEW a \in TimeRange, NEW b \in TimeRange, NEW c, c.Start \in Int, c.End \in Int, Inside(a, b), Inside(b, c)
  PROVE  Inside(a, c)
BY DEF Inside, TimeRange

LEMMA AskedStep ==
  ASSUME World, NEW j, Typed(j), RangesOK(j), AskedOK(j), NEW k, JobStep(j, k), Typed(k)
  PROVE  AskedOK(k)
<1>1. CASE Asks(j, k)
  <2>1. k.result = <<>> /\ k.req = NoRange /\ k.asked = NoRange
    BY <1>1 DEF Asks
  <2>2. RangeFits(k)
    BY <2>1, Int64IsInt DEF RangeFits, Inside, NoRange
  <2>3. QED
    BY <2>1, <2>2, ListedEmpty DEF AskedOK
<1>2. CASE k = NoJob
  <2>1. NoJob.kind = "none"
    BY DEF NoJob
  <2>2. QED
    BY <1>2, <2>1 DEF AskedOK, ByChains
<1>3. CASE k.kind \notin ByChains
  BY <1>3 DEF AskedOK
<1>4. ASSUME SameQuery(j, k), j.kind \in ByChains, k.asked = j.asked, RangeFits(k), k.pc # "find",
             k.result \in {j.result, <<>>}
      PROVE  AskedOK(k)
  <2>1. \A ts : OfAsked(j, ts) => OfAsked(k, ts)
    BY <1>4, StillAsked DEF SameQuery
  <2>2. QED
    BY <1>4, <2>1, ListedEmpty DEF AskedOK, SameQuery
<1>5. ASSUME SameQuery(j, k), j.kind \in ByChains, Passes(j, k) \/ Stops(j, k) PROVE AskedOK(k)
  <2>1. k.asked = j.asked /\ k.req = j.req /\ k.result \in {j.result, <<>>} /\ k.pc # "find"
    BY <1>5, PassesQuietly, StopsIs DEF Quiet
  <2>2. RangeFits(k)
    BY <1>5, <2>1 DEF AskedOK, RangeFits
  <2>3. QED
    BY <1>4, <1>5, <2>1, <2>2
<1>6. ASSUME SameQuery(j, k), j.kind \in ByChains, Prepares(j, k) PROVE AskedOK(k)
  <2>1. k.result = <<>> /\ k.asked = k.req /\ k.pc # "find"
    BY <1>6, PreparesIs DEF AskedOK
  <2>2. PICK b, e \in Int64 : b = InNanoseconds(j.params.Begin).val /\ e = InNanoseconds(j.params.End).val
    <3>1. j.params.Begin \in Int64 /\ j.params.End \in Int64
      BY <1>6 DEF Prepares, Typed, Asked, HasNumbers
    <3>2. QED
      BY <3>1, NanosecondsFit
  <2>3. k.asked = [Start |-> Early(b, e), End |-> Late(b, e)]
    BY <1>6, <2>2 DEF Prepares, InOrder
  <2>4. k.asked.Start \in Int64 /\ k.asked.End \in Int64
    BY <2>2, <2>3 DEF Early, Late
  <2>5. RangeFits(k)
    <3>1. k.asked.Start \in Int /\ k.asked.End \in Int
      BY <2>4, Int64IsInt
    <3>2. QED
      BY <2>1, <2>4, <3>1 DEF RangeFits, Inside
  <2>6. QED
    BY <2>1, <2>5, ListedEmpty DEF AskedOK
<1>7. ASSUME SameQuery(j, k), j.kind \in ByChains, Access(j, k) \/ Archival(j, k) \/ Limits(j, k) PROVE AskedOK(k)
  <2>1. k.asked = j.asked /\ k.req = j.req /\ k.result = j.result /\ k.pc # "find"
    BY <1>7 DEF Access, Archival, Limits, Only, Fields
  <2>2. RangeFits(k)
    BY <1>7, <2>1 DEF AskedOK, RangeFits
  <2>3. QED
    BY <1>4, <1>7, <2>1, <2>2
<1>8. ASSUME SameQuery(j, k), j.kind \in ByChains, Narrows(j, k) PROVE AskedOK(k)
  <2>1. PICK ts : ts = TS(Head(j.uuids), <<>>, k.ranges)
    OBVIOUS
  <2>2. /\ k.kind \in {"in", "stat"} /\ k.asked = j.asked /\ k.pc = "read"
        /\ k.result = Append(j.result, ts) /\ k.req = Narrowed(j, k.ranges).rng
    BY <1>8, <2>1 DEF Narrows, Only, Fields, SameQuery
  <2>3. RangeFits(k)
    <3>1. k.ranges \in Seq(TimeRange) /\ j.req \in TimeRange
      BY <1>8, GoodIs DEF Narrows, Typed, HasType
    <3>2. k.req \in TimeRange /\ Inside(k.req, j.req)
      BY <2>2, <3>1, NarrowedIs
    <3>3. PICK c : c = j.asked /\ c.Start \in Int64 /\ c.End \in Int64 /\ Inside(j.req, c)
      BY <1>8 DEF AskedOK, RangeFits
    <3>4. Inside(k.req, c)
      BY <3>1, <3>2, <3>3, InsideInside, Int64IsInt
    <3>5. QED
      BY <2>2, <3>3, <3>4 DEF RangeFits
  <2>4. OfAsked(k, ts)
    <3>1. ts.recs = <<>>
      BY <2>1 DEF TS
    <3>2. ts.recs \in Seq(Int64) /\ Range(ts.recs) = {} /\ Len(ts.recs) = 0
      <4>1. <<>> \in Seq(Int64) /\ Len(<<>>) = 0
        OBVIOUS
      <4>2. QED
        BY <3>1, <4>1, ListedEmpty
    <3>3. k.params.DataLimit \in Int
      BY <1>8, <2>2 DEF Typed, Asked, HasNumbers
    <3>4. k.params.DataLimit > 0 => Len(ts.recs) <= k.params.DataLimit
      BY <3>2, <3>3
    <3>5. QED
      BY <3>2, <3>4 DEF OfAsked, InAsked
  <2>5. Range(k.result) = Range(j.result) \cup {ts}
    <3>1. Listed(j.result)
      BY <1>8 DEF RangesOK
    <3>2. QED
      BY <2>2, <3>1, AppendRange
  <2>6. \A e \in Range(j.result) : OfAsked(k, e)
    <3>1. \A e \in Range(j.result) : OfAsked(j, e)
      BY <1>8, <2>2 DEF AskedOK, SameQuery
    <3>2. QED
      BY <1>8, <2>2, <3>1, StillAsked DEF SameQuery
  <2>7. QED
    BY <2>2, <2>3, <2>4, <2>5, <2>6 DEF AskedOK
<1>9. ASSUME SameQuery(j, k), j.kind \in ByChains, MasksOne(j, k) PROVE AskedOK(k)
  <2>1. PICK h : h = Head(j.series)
    OBVIOUS
  <2>2. PICK ts : ts = TS(h.uuid, Masked(h.recs, j.ranges), j.ranges)
    OBVIOUS
  <2>3. /\ k.kind \in {"before", "after"} /\ k.pc \in {"done", "uri"} /\ k.asked = j.asked /\ k.req = j.req
        /\ k.result = Append(j.result, ts)
        /\ j.series \in Seq(Serie) /\ j.series # <<>> /\ j.ranges \in Seq(TimeRange)
    <3>1. j.pc = "mask" /\ j.kind \in {"before", "after"} /\ Paired(j) /\ j.uuids # <<>> /\ j.ranges \in Seq(TimeRange)
      BY <1>9 DEF MasksOne, Typed, HasType, KindsAt, AtHand
    <3>2. j.series # <<>>
      <4>1. j.uuids \in Seq(UUIDs) /\ Len(j.series) = Len(j.uuids)
        BY <3>1 DEF Paired, Typed, HasType
      <4>2. QED
        BY <3>1, <4>1
    <3>3. QED
      BY <1>9, <2>1, <2>2, <3>1, <3>2 DEF MasksOne, Only, Fields, Goes, Paired
  <2>4. h.recs \in Seq(Stored) /\ h.recs \in Seq(Int)
    <3>1. h \in Serie
      BY <2>1, <2>3, Tails
    <3>2. h.recs \in Seq(Stored) /\ Stored \subseteq Int
      BY <3>1, StoredIs DEF Serie
    <3>3. QED
      BY <3>2, SeqMonotonic
  <2>5. PICK m : m = Masked(h.recs, j.ranges) /\ m \in MaskedType(h.recs, j.ranges)
    BY <2>3, <2>4, MaskedIs
  <2>6. ts.recs = m
    BY <2>2, <2>5 DEF TS
  <2>7. m \in Seq(Int64)
    <3>1. Range(h.recs) \subseteq Int64
      BY <2>4, FiniteRange, StoredIs
    <3>2. m \in Seq(Int) /\ Range(m) \subseteq Range(h.recs)
      BY <2>5 DEF MaskedType, Range
    <3>3. m \in Seq(Range(m)) /\ Range(m) \subseteq Int64
      BY <3>1, <3>2, ListedIs DEF Listed
    <3>4. QED
      BY <3>3, SeqMonotonic
  <2>8. Range(k.result) = Range(j.result) \cup {ts}
    <3>1. Listed(j.result)
      BY <1>9 DEF RangesOK
    <3>2. QED
      BY <2>3, <3>1, AppendRange
  <2>9. RangeFits(k)
    BY <1>9, <2>3 DEF AskedOK, RangeFits
  <2>10. \A e \in Range(j.result) : e.recs \in Seq(Int64)
    BY <1>9, <2>3 DEF AskedOK, SameQuery
  <2>11. QED
    BY <2>3, <2>6, <2>7, <2>8, <2>9, <2>10 DEF AskedOK
<1>10. ASSUME SameQuery(j, k), j.kind \in ByChains, Extends(j, k) PROVE AskedOK(k)
  <2>1. PICK s, t : s = j.result /\ t = k.result
    OBVIOUS
  <2>2. PICK recs : Extended(s, t, recs) /\ recs = Limit(j, LastOf(s).recs \o Fetched(j, Head(j.uuids)))
    BY <1>10, <2>1, ExtendsIs
  <2>3. /\ k.pc = "read" /\ j.pc = "read" /\ k.req = j.req /\ k.asked = j.asked /\ k.kind \in {"in", "stat"}
    BY <1>10 DEF Extends, Only, Fields, Typed, KindsAt
  <2>4. RangeFits(j) /\ RangeFits(k) /\ \A e \in Range(s) : OfAsked(j, e)
    BY <1>10, <2>1, <2>3 DEF AskedOK, RangeFits, SameQuery
  <2>5. LastOf(s) \in Range(s) /\ Len(s) \in DOMAIN s
    BY <2>2 DEF Extended, LastOf, Range
  <2>6. PICK old : old = LastOf(s).recs /\ old \in Seq(Int64) /\ \A x \in Range(old) : Low(j) <= x /\ x <= j.asked.End
    BY <2>4, <2>5 DEF OfAsked, InAsked
  <2>7. PICK f : /\ f = Fetched(j, Head(j.uuids)) /\ f \in Seq(Int64)
                 /\ \A x \in Range(f) : Low(j) <= x /\ x <= j.asked.End
    <3>1. Head(j.uuids) \in DOMAIN data
      BY <1>10 DEF Extends, StreamExists
    <3>2. QED
      BY <2>3, <2>4, <3>1, FetchedIsAsked
  <2>8. PICK c : c = old \o f /\ c \in Seq(Int64) /\ Range(c) = Range(old) \cup Range(f)
    <3>1. old \o f \in Seq(Int64) /\ Range(old \o f) = Range(old) \cup Range(f)
      BY <2>6, <2>7, ConcatRange
    <3>2. QED
      BY <3>1
  <2>9. recs = Limit(j, c)
    BY <2>2, <2>6, <2>7, <2>8
  <2>10. j.params.DataLimit \in Int
    BY <2>3 DEF Typed, Asked, HasNumbers
  <2>11. /\ recs \in Seq(Int64) /\ Range(recs) \subseteq Range(c)
         /\ j.params.DataLimit > 0 => Len(recs) <= j.params.DataLimit
    BY <2>8, <2>9, <2>10, LimitIs
  <2>12. \A x \in Range(recs) : Low(j) <= x /\ x <= j.asked.End
    BY <2>6, <2>7, <2>8, <2>11
  <2>13. OfAsked(j, LastOf(t))
    <3>1. LastOf(t).recs = recs
      BY <2>2 DEF Extended, LastOf
    <3>2. QED
      BY <2>11, <2>12, <3>1 DEF OfAsked, InAsked
  <2>14. ASSUME NEW i \in DOMAIN t PROVE OfAsked(j, t[i])
    <3>1. CASE i = Len(s)
      BY <2>2, <2>13, <3>1 DEF Extended, LastOf
    <3>2. CASE i # Len(s)
      <4>1. t[i] = s[i] /\ s[i] \in Range(s)
        BY <2>2, <2>14, <3>2 DEF Extended, Range
      <4>2. QED
        BY <2>4, <4>1
    <3>3. QED
      BY <3>1, <3>2
  <2>15. \A e \in Range(t) : OfAsked(k, e)
    <3>1. \A e \in Range(t) : OfAsked(j, e)
      BY <2>14 DEF Range
    <3>2. QED
      BY <1>10, <2>3, <3>1, StillAsked DEF SameQuery
  <2>16. QED
    BY <2>1, <2>3, <2>4, <2>15 DEF AskedOK
<1>11. QED
  BY <1>1, <1>2, <1>3, <1>5, <1>6, <1>7, <1>8, <1>9, <1>10, StepSorts
-----------------------------------------------------------------------------
(* The inductive invariant.                                                 *)

JobOK(j, f) ==
  /\ Typed(j) /\ RangesOK(j) /\ ValidOK(j) /\ HadOK(j) /\ NearOK(j) /\ CompleteOK(j)
  /\ StreamsOK(j) /\ WrittenOK(j) /\ AskedOK(j) /\ TagsOK(j, f)

ApiInv ==
  /\ World /\ CachesGiven /\ AnswersOK(faults)
  /\ DOMAIN job = Workers /\ \A w \in Workers : JobOK(job[w], faults)

\* What could be read at some time could be, and what may miss may miss.
LEMMA ReadableStays ==
  ASSUME World, Grows, NEW u
  PROVE  Readable(u) \subseteq Readable(u)'
<1>1. PICK old, new : old = registry /\ new = registry' /\ DOMAIN old \subseteq DOMAIN new /\ \A i \in DOMAIN old : new[i] = old[i]
  BY RegistryKept
<1>2. QED
  BY <1>1 DEF Readable

LEMMA MayMissStays ==
  ASSUME World, Grows, NEW u, NEW f \in Nat, NEW g \in Nat, g >= f, MayMiss(u, f)
  PROVE  MayMiss(u, g)'
<1>1. CASE f > 0
  <2>1. g > 0
    BY <1>1
  <2>2. QED
    BY <2>1 DEF MayMiss
<1>2. CASE FALSE \in Readable(u)
  <2>1. FALSE \in Readable(u)'
    BY <1>2, ReadableStays
  <2>2. QED
    BY <2>1 DEF MayMiss
<1>3. QED
  BY <1>1, <1>2 DEF MayMiss

\* As nothing is undone, what is known of a job stays true whatever others do.
LEMMA JobStays ==
  ASSUME World, Grows, NEW j, NEW f \in Nat, NEW g \in Nat, g >= f, JobOK(j, f)
  PROVE  JobOK(j, g)'
<1>1. Typed(j)'
  BY TypedStays DEF JobOK
<1>2. RangesOK(j)'
  <2>1. RangesOK(j) /\ \A u : Given(u) \subseteq Given(u)' /\ GivenAccess(u) \subseteq GivenAccess(u)'
    BY GivenStays DEF JobOK
  <2>2. QED
    BY <2>1 DEF RangesOK, IsSerie, Listed
<1>3. ValidOK(j)' /\ NearOK(j)' /\ CompleteOK(j)' /\ StreamsOK(j)' /\ WrittenOK(j)' /\ AskedOK(j)'
  BY DEF JobOK, ValidOK, NearOK, CompleteOK, StreamsOK, WrittenOK, AskedOK
<1>4. HadOK(j)'
  BY DEF JobOK, HadOK, Grows, Times
<1>5. TagsOK(j, g)'
  <2>1. TagsOK(j, f) /\ \A u : (TRUE \in Readable(u) => TRUE \in Readable(u)') /\ (MayMiss(u, f) => MayMiss(u, g)')
    BY ReadableStays, MayMissStays DEF JobOK
  <2>2. QED
    BY <2>1 DEF TagsOK
<1>6. QED
  BY <1>1, <1>2, <1>3, <1>4, <1>5 DEF JobOK

\* A worker takes its job from one that is all right to another.
LEMMA JobGoesOn ==
  ASSUME World, CachesGiven, AnswersOK(faults), NEW j, JobOK(j, faults), NEW k, JobStep(j, k),
         NEW f \in Nat, f = faults', f >= faults
  PROVE  JobOK(k, f)
<1>1. /\ Typed(j) /\ RangesOK(j) /\ ValidOK(j) /\ HadOK(j) /\ NearOK(j) /\ CompleteOK(j)
      /\ StreamsOK(j) /\ WrittenOK(j) /\ AskedOK(j) /\ TagsOK(j, faults)
  BY DEF JobOK
<1>2. Typed(k)
  BY <1>1, StepTyped
<1>3. RangesOK(k)
  BY <1>1, <1>2, RangesStep
<1>4. ValidOK(k)
  BY <1>1, <1>2, ValidStep
<1>5. HadOK(k)
  BY <1>1, HadStep
<1>6. NearOK(k)
  BY <1>1, <1>2, NearStep
<1>7. CompleteOK(k)
  BY <1>1, <1>2, CompleteStep
<1>8. TagsOK(k, f)
  BY <1>1, TagsStep
<1>9. StreamsOK(k)
  BY <1>1, StreamsStep
<1>10. WrittenOK(k)
  BY <1>1, WrittenStep
<1>11. AskedOK(k)
  BY <1>1, <1>2, AskedStep
<1>12. QED
  BY <1>2, <1>3, <1>4, <1>5, <1>6, <1>7, <1>8, <1>9, <1>10, <1>11 DEF JobOK

-----------------------------------------------------------------------------
(* What is cached.                                                          *)

\* Ranges that stay as good, or get worse with time, were given.
LEMMA CachesStay ==
  ASSUME World, Grows, CachesGiven,
         \A u \in Streams : cache'[u].ttl > 0 => cache[u].ttl > 0 /\ cache'[u].ranges = cache[u].ranges
  PROVE  CachesGiven'
<1>1. \A u : Given(u) \subseteq Given(u)'
  BY GivenStays
<1>2. QED
  BY <1>1 DEF CachesGiven

\* Answers that are remembered stay right.
LEMMA AnswersStay ==
  ASSUME World, Grows, NEW f \in Nat, NEW g \in Nat, g >= f, AnswersOK(f), UNCHANGED canread
  PROVE  AnswersOK(g)'
<1>1. \A u : (TRUE \in Readable(u) => TRUE \in Readable(u)') /\ (MayMiss(u, f) => MayMiss(u, g)')
  BY ReadableStays, MayMissStays
<1>2. QED
  BY <1>1 DEF AnswersOK

LEMMA WorkersRemember ==
  ASSUME ApiInv, NEW w \in Workers, Touches(w), NEW f \in Nat, f = faults, NEW g \in Nat, g = faults', g >= f
  PROVE  CachesGiven' /\ AnswersOK(g)'
<1>1. World /\ CachesGiven /\ AnswersOK(f) /\ JobOK(job[w], f) /\ Grows
  BY TouchesGrows DEF ApiInv
<1>2. ASSUME UNCHANGED cache PROVE CachesGiven'
  BY <1>1, <1>2, CachesStay
<1>3. ASSUME UNCHANGED canread PROVE AnswersOK(g)'
  BY <1>1, <1>3, AnswersStay
<1>4. ASSUME job[w].pc \in AtHand PROVE Stream(w) \in Streams
  BY <1>1, <1>4, AtHandIs, ApiAssumption DEF JobOK, Stream
<1>5. ASSUME job[w].pc = "store", SetCache(Stream(w), job[w].ranges) PROVE CachesGiven' /\ UNCHANGED canread
  <2>1. PICK r, s : r = job[w].ranges /\ s = Stream(w) /\ s \in Streams
    BY <1>4, <1>5 DEF AtHand
  <2>2. PICK e : e = [ranges |-> r, ttl |-> Expiry]
    OBVIOUS
  <2>3. cache' = [cache EXCEPT ![s] = e] /\ UNCHANGED canread
    BY <1>5, <2>1, <2>2 DEF SetCache
  <2>4. DOMAIN cache = Streams
    BY <1>1 DEF World, Dots
  <2>5. \A u \in Streams : IF u = s THEN cache'[u] = e ELSE cache'[u] = cache[u]
    BY <2>3, <2>4
  <2>6. r \in Given(s)
    BY <1>1, <1>5, <2>1 DEF JobOK, RangesOK, Stream
  <2>7. \A u : Given(u) \subseteq Given(u)'
    BY <1>1, GivenStays
  <2>8. ASSUME NEW u \in Streams, cache'[u].ttl > 0 PROVE cache'[u].ranges \in Given(u)'
    <3>1. CASE u = s
      BY <2>2, <2>5, <2>6, <2>7, <3>1
    <3>2. CASE u # s
      BY <1>1, <2>5, <2>7, <2>8, <3>2 DEF CachesGiven
    <3>3. QED
      BY <3>1, <3>2
  <2>9. QED
    BY <2>3, <2>8 DEF CachesGiven
<1>6. ASSUME job[w].pc = "canread", NEW b \in BOOLEAN, Reads(job[w], b), SetCanRead(Stream(w), b)
      PROVE  AnswersOK(g)' /\ UNCHANGED cache
  <2>1. PICK s \in Streams : s = Stream(w)
    BY <1>4, <1>6 DEF AtHand
  <2>2. PICK e : e = IF b THEN "yes" ELSE "no"
    OBVIOUS
  <2>3. canread' = [canread EXCEPT ![s] = e] /\ UNCHANGED cache
    BY <1>6, <2>1, <2>2 DEF SetCanRead
  <2>4. DOMAIN canread = Streams
    BY <1>1 DEF World, Dots
  <2>5. \A u \in Streams : IF u = s THEN canread'[u] = e ELSE canread'[u] = canread[u]
    BY <2>3, <2>4
  <2>6. (b => TRUE \in Readable(s)) /\ (~b => MayMiss(s, g))
    BY <1>1, <1>6, <2>1, ReadsIs DEF Stream
  <2>7. /\ \A u : (TRUE \in Readable(u) => TRUE \in Readable(u)') /\ (MayMiss(u, f) => MayMiss(u, g)')
        /\ MayMiss(s, g) => MayMiss(s, g)'
    <3>1. g >= g
      OBVIOUS
    <3>2. QED
      BY <1>1, <3>1, ReadableStays, MayMissStays
  <2>8. ASSUME NEW u \in Streams
        PROVE  (canread'[u] = "yes" => TRUE \in Readable(u)') /\ (canread'[u] = "no" => MayMiss(u, g)')
    <3>1. CASE u = s
      BY <2>2, <2>5, <2>6, <2>7, <3>1
    <3>2. CASE u # s
      BY <1>1, <2>5, <2>7, <3>2 DEF AnswersOK
    <3>3. QED
      BY <3>1, <3>2
  <2>9. QED
    BY <2>3, <2>8 DEF AnswersOK
<1>7. QED
  BY <1>2, <1>3, <1>5, <1>6 DEF Touches, Remembers

\* Time makes nothing good again.
LEMMA OthersRemember ==
  ASSUME ApiInv, Others
  PROVE  CachesGiven' /\ UNCHANGED canread
<1>1. World /\ CachesGiven /\ Grows
  BY OthersWorld DEF ApiInv
<1>2. CASE UNCHANGED <<cache, canread>>
  BY <1>1, <1>2, CachesStay
<1>3. CASE Tick
  <2>1. cache \in [Streams -> [ranges : Seq(TimeRange), ttl : 0..Expiry]] /\ Expiry \in Nat
    BY <1>1, DOTAssumption DEF World, Dots
  <2>2. ASSUME NEW u \in Streams PROVE cache'[u].ttl > 0 => cache[u].ttl > 0 /\ cache'[u].ranges = cache[u].ranges
    <3>1. PICK c \in [ranges : Seq(TimeRange), ttl : 0..Expiry] : c = cache[u]
      BY <2>1
    <3>2. PICK t : t = IF c.ttl > 0 THEN c.ttl - 1 ELSE 0
      OBVIOUS
    <3>3. cache'[u] = [c EXCEPT !.ttl = t]
      BY <1>3, <3>1, <3>2 DEF Tick
    <3>4. cache'[u].ttl = t /\ cache'[u].ranges = c.ranges
      BY <3>1, <3>3
    <3>5. t > 0 => c.ttl > 0
      BY <3>2
    <3>6. QED
      BY <3>1, <3>4, <3>5
  <2>3. QED
    BY <1>1, <1>3, <2>2, CachesStay DEF Tick
<1>4. QED
  BY <1>2, <1>3 DEF Others, Registry, Change, dotVars

-----------------------------------------------------------------------------
(* It holds at first, and every step keeps it.                              *)

LEMMA InitInv == Init => ApiInv
<1> SUFFICES ASSUME Init PROVE ApiInv
  OBVIOUS
<1>1. Types
  BY InitTypes
<1>2. job = [w \in Workers |-> NoJob] /\ faults = 0 /\ DotInit
  BY DEF Init
<1>3. CachesGiven /\ AnswersOK(faults)
  BY <1>2 DEF DotInit, NotCached, CachesGiven, AnswersOK
<1>4. NoJob.pc = "idle" /\ NoJob.kind = "none" /\ DOMAIN NoJob.had = {}
  BY DEF NoJob
<1>5. /\ RangesOK(NoJob) /\ ValidOK(NoJob) /\ HadOK(NoJob) /\ NearOK(NoJob) /\ CompleteOK(NoJob)
      /\ StreamsOK(NoJob) /\ WrittenOK(NoJob) /\ AskedOK(NoJob) /\ TagsOK(NoJob, faults)
  BY <1>4 DEF RangesOK, ValidOK, HadOK, NearOK, CompleteOK, StreamsOK, WrittenOK, AskedOK, TagsOK, ByChains, DataKinds
<1>6. \A w \in Workers : JobOK(job[w], faults)
  BY <1>1, <1>2, <1>5 DEF Types, JobOK
<1>7. QED
  BY <1>1, <1>3, <1>6 DEF Types, ApiInv

LEMMA NextInv == ApiInv /\ [Next]_vars => ApiInv'
<1> SUFFICES ASSUME ApiInv, [Next]_vars PROVE ApiInv'
  OBVIOUS
<1>1. World /\ CachesGiven /\ AnswersOK(faults) /\ DOMAIN job = Workers /\ \A w \in Workers : JobOK(job[w], faults)
  BY DEF ApiInv
<1>2. Types /\ Types'
  <2>1. Types
    BY <1>1 DEF Types, JobOK
  <2>2. QED
    BY <2>1, NextTypes
<1>3. World' /\ DOMAIN job' = Workers
  BY <1>2 DEF Types
<1>4. PICK f, g : f = faults /\ g = faults' /\ f \in Nat /\ g \in Nat
  <2>1. faults \in Nat /\ faults' \in Nat
    BY <1>1, <1>3, ApiAssumption DEF World
  <2>2. QED
    BY <2>1
<1>5. ASSUME Grows, g >= f, CachesGiven', AnswersOK(g)',
             \A v \in Workers : \E i : job'[v] = i /\ (JobOK(i, f) \/ JobOK(i, g))
      PROVE  ApiInv'
  <2>1. ASSUME NEW v \in Workers PROVE JobOK(job[v], faults)'
    <3>1. PICK i : job'[v] = i /\ (JobOK(i, f) \/ JobOK(i, g))
      BY <1>5
    <3>2. JobOK(i, g)'
      BY <1>1, <1>4, <1>5, <3>1, JobStays
    <3>3. QED
      BY <1>4, <3>1, <3>2
  <2>2. AnswersOK(faults)'
    BY <1>4, <1>5
  <2>3. QED
    BY <1>3, <1>5, <2>1, <2>2 DEF ApiInv
<1>6. ASSUME NEW w \in Workers, Touches(w), NEW k, Jobs(w, k), JobStep(job[w], k)
      PROVE  ApiInv'
  <2>1. g >= f
    BY <1>4, <1>6 DEF Touches, Fault, NoFault
  <2>2. CachesGiven' /\ AnswersOK(g)' /\ Grows
    BY <1>4, <1>6, <2>1, WorkersRemember, TouchesGrows
  <2>3. JobOK(k, g)
    BY <1>1, <1>4, <1>6, <2>1, JobGoesOn
  <2>4. \A v \in Workers : job'[v] = IF v = w THEN k ELSE job[v]
    BY <1>1, <1>6 DEF Jobs
  <2>5. \A v \in Workers : \E i : job'[v] = i /\ (JobOK(i, f) \/ JobOK(i, g))
    BY <1>1, <1>4, <2>3, <2>4
  <2>6. QED
    BY <1>5, <2>1, <2>2, <2>5
<1>7. CASE Others
  <2>1. Grows /\ CachesGiven' /\ UNCHANGED canread /\ job' = job /\ g = f
    BY <1>1, <1>4, <1>7, OthersWorld, OthersRemember DEF Others
  <2>2. g >= f
    BY <1>4, <2>1
  <2>3. AnswersOK(g)'
    BY <1>1, <1>4, <2>1, <2>2, AnswersStay
  <2>4. QED
    BY <1>1, <1>4, <1>5, <2>1, <2>2, <2>3
<1>8. CASE UNCHANGED vars
  <2>1. UNCHANGED <<load, registry, cache, canread, data, job, faults>>
    BY <1>8 DEF vars, dotVars
  <2>2. Grows /\ g = f /\ g >= f
    BY <1>4, <2>1 DEF Grows
  <2>3. CachesGiven' /\ AnswersOK(g)'
    BY <1>1, <1>4, <2>1, <2>2, CachesStay, AnswersStay
  <2>4. QED
    BY <1>1, <1>4, <1>5, <2>1, <2>2, <2>3
<1>9. QED
  BY <1>2, <1>6, <1>7, <1>8, Steps

LEMMA Invariance == Spec => []ApiInv
BY InitInv, NextInv, PTL DEF Spec
-----------------------------------------------------------------------------
(* What follows, for any queries, DOTs, streams and workers.                *)

\* Whenever DOTs come and go, ranges that are good, and those that limit a series of an
\* answer, come from DOTs there were when they were looked for, access DOTs first.
THEOREM RangesGivenByDOTs == Spec => []RangesWereGiven
<1>1. ApiInv => RangesWereGiven
  <2> SUFFICES ASSUME ApiInv PROVE RangesWereGiven
    OBVIOUS
  <2>1. CachesGiven /\ \A w \in Workers : RangesOK(job[w])
    BY DEF ApiInv, JobOK
  <2>2. ASSUME NEW w \in Workers, NEW i \in DOMAIN job[w].result, job[w].kind \in ByChains
        PROVE  job[w].result[i].ranges \in Given(job[w].result[i].uuid)
    <3>1. job[w].result[i] \in Range(job[w].result)
      BY DEF Range
    <3>2. QED
      BY <2>1, <2>2, <3>1 DEF RangesOK
  <2>3. QED
    BY <2>1, <2>2 DEF RangesWereGiven, CachesGiven, ByChains
<1>2. QED
  BY <1>1, Invariance, PTL

\* A reading of a range query is in a range that is valid for its stream, and a nearest reading
\* is not behind all of them, whatever else is read, granted or inserted meanwhile.
THEOREM OnlyValidIsSent == Spec => []OnlyFromValidRanges
<1>1. ApiInv => OnlyFromValidRanges
  <2> SUFFICES ASSUME ApiInv, NEW w \in Workers, NEW i \in DOMAIN job[w].result
               PROVE  LET ts == job[w].result[i]
                      IN  /\ job[w].kind = "in" => \A t \in Range(ts.recs) :
                               \E r \in Range(ts.ranges) : r.Start <= t /\ t <= r.End
                          /\ job[w].kind \in {"before", "after"} => \A t \in Range(ts.recs) :
                               \E r \in Range(ts.ranges) : t <= r.End
    BY DEF OnlyFromValidRanges
  <2>1. ValidOK(job[w]) /\ job[w].result[i] \in Range(job[w].result)
    BY DEF ApiInv, JobOK, Range
  <2>2. QED
    BY <2>1 DEF ValidOK, FromValid, NotBehind
<1>2. QED
  BY <1>1, Invariance, PTL

\* Without a limit, an answered range query has every reading there was when it came that is in the
\* range asked for and in the one valid range of its stream and of the streams before it.
THEOREM NothingLeftOut == Spec => []CompleteForWhatIsLeft
<1>1. ApiInv => CompleteForWhatIsLeft
  <2> SUFFICES ASSUME ApiInv, NEW w \in Workers, Done(w), job[w].kind = "in", job[w].params.DataLimit <= 0,
                      NEW i \in DOMAIN job[w].result
               PROVE  LET ts == job[w].result[i]
                          left == {job[w].asked} \cup UNION {Range(job[w].result[k].ranges) : k \in 1..i}
                          had == IF ts.uuid \in DOMAIN job[w].had THEN Range(job[w].had[ts.uuid]) ELSE {}
                      IN  (\A k \in 1..i : Len(job[w].result[k].ranges) = 1) =>
                            {t \in had : \A r \in left : r.Start <= t /\ t < r.End} \subseteq Range(ts.recs)
    BY DEF CompleteForWhatIsLeft
  <2>1. CompleteAt(job[w], job[w].result, i)
    BY DEF ApiInv, JobOK, CompleteOK, Done
  <2>2. QED
    BY <2>1 DEF CompleteAt, Single, IsLeft, Within, HadOf
<1>2. QED
  BY <1>1, Invariance, PTL

\* Of each stream a BEFORE query gives a reading before the start of its range, and no reading there was
\* when the query came is nearer to it; AFTER likewise.
THEOREM NearestIsNearest == Spec => []NearestFromEarlier
<1>1. ApiInv => NearestFromEarlier
  <2> SUFFICES ASSUME ApiInv, NEW w \in Workers, job[w].kind \in {"before", "after"},
                      NEW ts \in Results(w), NEW t \in Range(ts.recs)
               PROVE  LET from == job[w].asked.Start
                          had == IF ts.uuid \in DOMAIN job[w].had THEN Range(job[w].had[ts.uuid]) ELSE {}
                      IN  IF job[w].kind = "before"
                          THEN t < from /\ \A x \in had : x < from => x <= t
                          ELSE t >= from /\ \A x \in had : x >= from => t <= x
    BY DEF NearestFromEarlier
  <2>1. NearOK(job[w])
    BY DEF ApiInv, JobOK
  <2>2. IsNear(job[w], ts)
    BY <2>1 DEF NearOK, Results
  <2>3. QED
    BY <2>2 DEF IsNear, HadOf
<1>2. QED
  BY <1>1, Invariance, PTL

\* For any where clause, streams and limits: an answered range query has series of streams the clause
\* means, of none twice, of no more than the limit, and without one of all there were when it came.
THEOREM StreamsAreMeant == Spec => []StreamsAsMeant
<1>1. ApiInv => StreamsAsMeant
  <2> SUFFICES ASSUME ApiInv, NEW w \in Workers, Done(w), job[w].kind \in {"in", "stat"}
               PROVE  LET us == [i \in DOMAIN job[w].result |-> job[w].result[i].uuid]
                          n == job[w].params.StreamLimit
                      IN  /\ \A i \in DOMAIN us : Meant(job[w].q, us[i]) /\ \A k \in DOMAIN us : us[i] = us[k] => i = k
                          /\ IF n > 0 THEN Len(us) <= n
                                      ELSE \A u \in DOMAIN job[w].had : Meant(job[w].q, u) => u \in Range(us)
    BY DEF StreamsAsMeant
  <2>1. PICK j : j = job[w] /\ StreamsOK(j) /\ HadOK(j) /\ RangesOK(j) /\ World /\ j.pc = "done" /\ ~j.err /\ j.kind \in {"in", "stat"}
    BY DEF ApiInv, JobOK, Done
  <2>2. PICK sel, n, f : /\ sel = j.params.Where.sel /\ n = j.params.StreamLimit
                         /\ IsWhere(j.q.where) /\ j.params.Where = whereList(j.q.where)
                         /\ j.params.Where.form # "refused" /\ About(j, f) /\ Split(j, f)
    BY <2>1 DEF StreamsOK, DataKinds
  <2>3. \A u \in UUIDs : u \in sel <=> Meant(j.q, u)
    BY <2>2, WhereIs
  <2>4. PICK us : us = [i \in DOMAIN j.result |-> j.result[i].uuid]
    OBVIOUS
  <2>5. PICK m \in Nat : m = Len(j.result) /\ DOMAIN j.result = 1..m
    BY <2>1 DEF RangesOK, ByChains, Listed
  <2>6. DOMAIN f = 1..m /\ Len(f) = m /\ f \in Seq(UUIDs)
    <3>1. Rest(j) = <<>>
      BY <2>1 DEF Rest
    <3>2. Len(Rest(j)) = 0
      BY <3>1
    <3>3. Len(f) = m /\ f \in Seq(UUIDs)
      BY <2>2, <2>5, <3>2 DEF Split
    <3>4. QED
      BY <3>3
  <2>7. us = f
    <3>1. DOMAIN us = 1..m /\ \A i \in 1..m : us[i] = f[i]
      BY <2>2, <2>4, <2>5 DEF Split
    <3>2. f \in [1..m -> UUIDs] /\ \A i \in 1..m : f[i] \in UUIDs
      BY <2>6
    <3>3. us \in [1..m -> UUIDs]
      BY <2>4, <2>5, <3>1, <3>2
    <3>4. QED
      BY <3>1, <3>2, <3>3
  <2>8. \A i \in DOMAIN f : Meant(j.q, f[i]) /\ \A k \in DOMAIN f : f[i] = f[k] => i = k
    BY <2>2, <2>3 DEF About
  <2>9. IF n > 0 THEN Len(f) <= n ELSE \A u \in DOMAIN j.had : Meant(j.q, u) => u \in Range(f)
    <3>1. DOMAIN j.had \subseteq UUIDs
      BY <2>1 DEF HadOK, World, Store
    <3>2. QED
      BY <2>2, <2>3, <3>1 DEF About
  <2>10. QED
    BY <2>1, <2>2, <2>4, <2>7, <2>8, <2>9
<1>2. QED
  BY <1>1, Invariance, PTL

\* For any queries, whatever instants and durations they are written with: a range query reads
\* the range that was written, in order, if its bounds are numbers of nanoseconds that fit and
\* are not taken for a coarser unit.  What wraps on the way does not matter.
THEOREM RangeIsWritten == Spec => []RangeIsAsWritten
<1>1. ApiInv => RangeIsAsWritten
  <2> SUFFICES ASSUME ApiInv, NEW w \in Workers, job[w].kind \in {"in", "stat"}, job[w].asked # NoRange
               PROVE  RangeAsWritten(job[w])
    BY DEF RangeIsAsWritten, RangeAsWritten
  <2>1. QED
    BY DEF ApiInv, JobOK, WrittenOK
<1>2. QED
  BY <1>1, Invariance, PTL

\* Whatever is read, in how many pieces and under which ranges: a time that is sent, in the unit that
\* was asked for, is of the range that was asked for, or before its start, or after it, and a
\* series of a range query is no longer than the limit.
THEOREM OnlyIsAsked == Spec => []OnlyAskedFor
<1>1. ApiInv => OnlyAskedFor
  <2> SUFFICES ASSUME ApiInv, NEW w \in Workers, job[w].kind \in ByChains, NEW ts \in Results(w)
               PROVE  /\ job[w].params.DataLimit > 0 /\ job[w].kind \in {"in", "stat"} =>
                           Len(ts.recs) <= job[w].params.DataLimit
                      /\ \A t \in Range(Sent(job[w], ts)) : AskedFor(job[w], t)
    BY DEF OnlyAskedFor, ByChains
  <2>1. PICK j : /\ j = job[w] /\ j.kind \in {"in", "stat", "before", "after"} /\ Typed(j)
                 /\ AskedOK(j) /\ NearOK(j) /\ ts \in Range(j.result)
    BY DEF ApiInv, JobOK, Results, ByChains
  <2>2. /\ j.asked.Start \in Int64 /\ j.asked.End \in Int64
        /\ IF j.kind \in {"in", "stat"} THEN OfAsked(j, ts) ELSE ts.recs \in Seq(Int64)
    BY <2>1 DEF AskedOK, ByChains, RangeFits
  <2>3. ts.recs \in Seq(Int64)
    BY <2>2 DEF OfAsked
  <2>4. PICK a, b \in Int64 : a = j.asked.Start /\ b = j.asked.End
    BY <2>2
  <2>5. ASSUME NEW t \in Range(Sent(j, ts)) PROVE AskedFor(j, t)
    <3>1. PICK unit : unit = IF j.kind = "stat" THEN UOT_NS ELSE j.params.ConvertToUnit
      OBVIOUS
    <3>2. PICK i \in DOMAIN ts.recs : t = TimeAsUnit(ts.recs[i], unit)
      BY <3>1 DEF Sent, Range
    <3>3. PICK x : x = ts.recs[i] /\ x \in Range(ts.recs) /\ x \in Int64
      BY <2>3, ElementOfSeq DEF Range
    <3>4. t = TimeAsUnit(x, unit)
      BY <3>2, <3>3
    <3>5. CASE j.kind = "stat"
      <4>1. t = x
        BY <3>1, <3>3, <3>4, <3>5, SentNanoseconds
      <4>2. LowBound(j) <= x /\ x <= j.asked.End
        BY <2>2, <3>3, <3>5 DEF OfAsked, InAsked, Low
      <4>3. QED
        BY <3>5, <4>1, <4>2 DEF AskedFor
    <3>6. CASE j.kind = "in"
      <4>1. a <= x /\ x <= b
        BY <2>2, <2>4, <3>3, <3>6 DEF OfAsked, InAsked, Low
      <4>2. TimeAsUnit(a, unit) <= TimeAsUnit(x, unit) /\ TimeAsUnit(x, unit) <= TimeAsUnit(b, unit)
        BY <2>4, <3>3, <4>1, TimeAsUnitMonotone
      <4>3. QED
        BY <2>4, <3>1, <3>4, <3>6, <4>2 DEF AskedFor
    <3>7. CASE j.kind \in {"before", "after"}
      <4>1. IsNear(j, ts)
        BY <2>1, <3>7 DEF NearOK
      <4>2. x \in Int /\ a \in Int
        BY <3>3, Int64IsInt
      <4>3. IF j.kind = "before" THEN x <= a ELSE a <= x
        BY <2>4, <3>3, <4>1, <4>2 DEF IsNear
      <4>4. IF j.kind = "before" THEN TimeAsUnit(x, unit) <= TimeAsUnit(a, unit)
                                 ELSE TimeAsUnit(a, unit) <= TimeAsUnit(x, unit)
        BY <2>4, <3>3, <4>3, TimeAsUnitMonotone
      <4>5. TimeAsUnit(x, unit) \in Int /\ TimeAsUnit(a, unit) \in Int
        BY <3>3, <4>2, TimeAsUnitMonotone
      <4>6. QED
        BY <2>4, <3>1, <3>4, <3>7, <4>4, <4>5 DEF AskedFor
    <3>8. QED
      BY <2>1, <3>5, <3>6, <3>7
  <2>6. QED
    BY <2>1, <2>2, <2>5 DEF OfAsked
<1>2. QED
  BY <1>1, Invariance, PTL

\* Documents in an answer match and could be read at some time; one that is missing could not at
\* some time, or a call failed, whatever is remembered of earlier answers.
THEOREM TagsWereReadable == Spec => []TagsAsReadable
<1>1. ApiInv => TagsAsReadable
  <2> SUFFICES ASSUME ApiInv, NEW w \in Workers, Done(w), job[w].kind = "tags"
               PROVE  LET sel == job[w].params.Where.sel
                      IN  /\ \A u \in Results(w) : u \in sel /\ TRUE \in Readable(u)
                          /\ \A u \in DOMAIN job[w].had \cap sel :
                               u \notin Results(w) => faults > 0 \/ FALSE \in Readable(u)
    BY DEF TagsAsReadable, Readable
  <2>1. TagsOK(job[w], faults)
    BY DEF ApiInv, JobOK
  <2>2. QED
    BY <2>1 DEF TagsOK, Done, Results, MayMiss
<1>2. QED
  BY <1>1, Invariance, PTL

-----------------------------------------------------------------------------
(* Going down.                                                              *)

\* The reasons there are for a panic.
MayPanic(w) ==
  Panic(w) /\ (Fault \/ (NoFault /\ (Stream(w) \notin mapped \/ ~StreamExists(Stream(w)))))

LEMMA WorkersPanic ==
  ASSUME NEW w \in Workers, (\E q \in load.queries[w] : Ask(w, q)) \/ Work(w)
  PROVE  ~down /\ (UNCHANGED down \/ MayPanic(w))
<1>1. ASSUME NEW q, Ask(w, q) PROVE ~down /\ UNCHANGED down
  BY <1>1 DEF Ask, At, Own
<1>2. ASSUME Find(w) \/ CanRead(w) \/ uuidsToStreams(w) \/ nearest(w) \/ maskTimeseriesByPermission(w) \/ Answered(w)
      PROVE  ~down /\ UNCHANGED down
  BY <1>2 DEF Find, CanRead, uuidsToStreams, nearest, maskTimeseriesByPermission, Answered, At, Own
<1>3. ASSUME GetValidRanges(w) PROVE ~down /\ UNCHANGED down
  BY <1>3 DEF GetValidRanges, At
<1>4. ASSUME URIFromUUID(w) PROVE ~down /\ (UNCHANGED down \/ MayPanic(w))
  BY <1>4 DEF URIFromUUID, At, Own, MayPanic
<1>5. ASSUME Read(w) PROVE ~down /\ (UNCHANGED down \/ MayPanic(w))
  BY <1>5 DEF Read, At, Own, MayPanic
<1>6. QED
  BY <1>1, <1>2, <1>3, <1>4, <1>5 DEF Work

\* A panic, if a call failed or the stream was not there.
LEMMA PanicExplained ==
  ASSUME ApiInv, NEW w \in Workers, MayPanic(w)
  PROVE  NoPanicOnceThere'
<1>1. PICK j : j = job[w] /\ IsJob(j) /\ DOMAIN j.had \subseteq DOMAIN data /\ DOMAIN data \subseteq mapped
  BY DEF ApiInv, World, Store, JobOK, Typed, HasType, HadOK
<1>2. PICK k : /\ k = job'[w] /\ k.pc = "panic" /\ k.uuids = j.uuids /\ k.had = j.had
  <2>1. job'[w] = [j EXCEPT !.pc = "panic"]
    BY <1>1 DEF MayPanic, Panic, Becomes, ApiInv
  <2>2. QED
    BY <1>1, <2>1 DEF IsJob, Fields
<1>3. CASE Fault
  <2>1. faults \in Nat
    BY ApiAssumption DEF ApiInv, World
  <2>2. faults' > 0
    BY <1>3, <2>1 DEF Fault
  <2>3. QED
    BY <2>2 DEF NoPanicOnceThere
<1>4. CASE Stream(w) \notin mapped \/ ~StreamExists(Stream(w))
  <2>1. Head(j.uuids) \notin DOMAIN j.had
    BY <1>1, <1>4 DEF Stream, StreamExists
  <2>2. job'[w].pc = "panic" /\ Stream(w)' \notin DOMAIN job'[w].had
    BY <1>2, <2>1 DEF Stream
  <2>3. QED
    BY <2>2 DEF NoPanicOnceThere
<1>5. QED
  BY <1>3, <1>4 DEF MayPanic

LEMMA NextPanics == ApiInv /\ NoPanicOnceThere /\ [Next]_vars => NoPanicOnceThere'
<1> SUFFICES ASSUME ApiInv, NoPanicOnceThere, [Next]_vars PROVE NoPanicOnceThere'
  OBVIOUS
<1>1. ASSUME NEW w \in Workers, (\E q \in load.queries[w] : Ask(w, q)) \/ Work(w) PROVE NoPanicOnceThere'
  <2>1. ~down /\ (UNCHANGED down \/ MayPanic(w))
    BY <1>1, WorkersPanic
  <2>2. QED
    BY <2>1, PanicExplained DEF NoPanicOnceThere
<1>2. ASSUME ~down, UNCHANGED down PROVE NoPanicOnceThere'
  BY <1>2 DEF NoPanicOnceThere
<1>3. CASE UNCHANGED vars
  BY <1>3 DEF vars, NoPanicOnceThere, Stream
<1>4. QED
  BY <1>1, <1>2, <1>3 DEF Next

\* For any queries, DOTs, streams and workers: unless a call fails, the archiver goes down
\* only over a stream that was not in BtrDB when the query came.
THEOREM PanicsExplained == Spec => []NoPanicOnceThere
<1>1. Init => NoPanicOnceThere
  BY DEF Init, NoPanicOnceThere
<1>2. QED
  BY <1>1, Invariance, NextPanics, PTL DEF Spec
=============================================================================
