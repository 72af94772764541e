------------------------------- MODULE Ranges -------------------------------
(***************************************************************************)
(* Time ranges (dots/range.go) and what is computed with them: the hull    *)
(* and the intersection of two ranges, sets of ranges kept in a list that  *)
(* is extended by merging, and the overlap of a range with such a list.    *)
(* The list calls itself disjoint; whether it is depends on the order in   *)
(* which ranges are merged into it, for IsDisjoint looks at one side only. *)
(***************************************************************************)
EXTENDS Integers, SequencesExt

Early(s, t) == IF s <= t THEN s ELSE t
Late(s, t) == IF s <= t THEN t ELSE s

TimeRange == [Start : Int, End : Int]

\* TimeRange.IsDisjoint: r ends before r2 begins.  r may lie behind r2.
IsDisjoint(r, r2) == r.End < r2.Start

MergeFrom(r, r2) == [Start |-> Early(r.Start, r2.Start), End |-> Late(r.End, r2.End)]

\* Faulty variant: the earlier of the two ends is lost.
Intersect_end(r, r2) ==
  IF IsDisjoint(r, r2) THEN r
  ELSE [Start |-> Late(r.Start, r2.Start), End |-> Late(r.End, r2.End)]

\* Setting the receiver to nil has no effect outside: a disjoint range stays.
Intersect(r, r2) ==
  IF IsDisjoint(r, r2) THEN r
  ELSE [Start |-> Late(r.Start, r2.Start), End |-> Early(r.End, r2.End)]

\* DisjointRanges.Merge: into the first range that is not disjoint, or behind.
Merge(ranges, r) ==
  LET hit == {i \in DOMAIN ranges : ~IsDisjoint(r, ranges[i])}
      i   == CHOOSE j \in hit : \A k \in hit : j <= k
  IN  IF hit = {} THEN Append(ranges, r)
      ELSE [ranges EXCEPT ![i] = MergeFrom(@, r)]

\* The ranges of a list of chains, merged in its order.
MergeAll(start, rs) == FoldLeft(Merge, start, rs)

\* One turn of the loop in DisjointRanges.GetOverlap: the range asked for is
\* narrowed in place and merged into the result, every element of which is
\* that same range; n counts them.
Overlap(acc, old) ==
  IF IsDisjoint(acc.rng, old) THEN acc
  ELSE LET r == Intersect(acc.rng, old)
       IN  [rng |-> r, n |-> IF acc.n = 0 \/ IsDisjoint(r, r) THEN acc.n + 1 ELSE acc.n]

\* intersectDChainAccessTimes and intersectDChainArchivalTimes: the latest
\* start and the earliest end along a chain, which may be empty altogether.
Intersection(rs) ==
  FoldLeft(LAMBDA acc, r : [Start |-> Late(acc.Start, r.Start), End |-> Early(acc.End, r.End)],
           Head(rs), Tail(rs))
=============================================================================
