------------------------------ MODULE QueryLang ------------------------------
(***************************************************************************)
(* The query language (querylang/query.y, from which query.go is made, and *)
(* processor.go): what the actions of the grammar make of a query.  The    *)
(* input is the tree of a query that is in the language; a part whose      *)
(* action reports an error makes the whole query an error.                 *)
(*                                                                         *)
(* A literal is an integer; one that is no int64 stands for every number   *)
(* strconv.ParseInt refuses.  A where clause is a list of terms, since the *)
(* grammar reads and, or and not without precedence.  What the clause is   *)
(* turned into, a MongoDB selector, is modelled by what it selects.        *)
(***************************************************************************)
EXTENDS TimeUnits, FiniteSets, SequencesExt

CONSTANTS Now,   \* the clock, while a query is parsed
          UUIDs, \* streams, each with its document
          TagsOf \* for each UUID, the keys and values of its document

\* time.Time{}: far before the earliest time int64 nanoseconds reach.
CONSTANT ZeroTime
ASSUME QueryAssumption == ZeroTime \in Int /\ ZeroTime < -MaxInt - 1 /\ Now \in Nat /\ IsFiniteSet(UUIDs)

Failed(parts) == \E p \in parts : p.err

\* strconv.ParseInt with bit size 64 or 8
ParseInt(n) == IF n \in Int64 THEN Value(n, FALSE) ELSE Value(0, TRUE)
ParseInt8(n) == IF n \in -128..127 THEN Value(n % 256, FALSE) ELSE Value(0, TRUE)

-----------------------------------------------------------------------------
(* Times.                                                                  *)

abstime(a) ==
  LET Seconds(n) == [n EXCEPT !.val = Unix(@, 0)]
  IN  CASE a.is = "unit"   -> ParseAbsTime(a.num, ParseUOT(a.unit))
        [] a.is = "number" -> Seconds(ParseInt(a.num))
        [] a.is = "string" -> Value(a.time, FALSE)
        [] a.is = "now"    -> Value(Now, FALSE)
        [] OTHER           -> Value(ZeroTime, TRUE)  \* in no supported format

Sum(d, e) == Value(AddDurations(d.val, e.val), d.err \/ e.err)

\* The grammar adds from the right; what wraps comes to the same from the left.
reltime(rel) == FoldLeft(LAMBDA sum, r : Sum(sum, ParseReltime(r.num, r.unit)), Value(0, FALSE), rel)

\* time.Time.Add does not wrap.
timeref(t) ==
  LET Add(a, d) == Value(a.val + d.val, a.err \/ d.err)
  IN  IF t.rel = <<>> THEN abstime(t.abs) ELSE Add(abstime(t.abs), reltime(t.rel))

-----------------------------------------------------------------------------
(* Data clauses.                                                           *)

\* No number is -1, which is no limit.
limit(l) == [Limit |-> ParseInt(l.n), Streamlimit |-> ParseInt(l.streams)]

timeconv(as) == IF as = "" THEN Value(UOT_NS, FALSE) ELSE Value(ParseUOT(as), ParseUOT(as) = 0)

\* What a composite literal does not name is zero, and a zero time is ZeroTime.
DataQuery == [Dtype |-> "in", Start |-> ZeroTime, End |-> ZeroTime,
              Limit |-> 0, Streamlimit |-> 0, Timeconv |-> 0,
              IsStatistical |-> FALSE, IsWindow |-> FALSE, IsChangedRanges |-> FALSE,
              FromGen |-> 0, ToGen |-> 0, Resolution |-> 0, Width |-> 0, PointWidth |-> 0]

\* A data query with its limit and unit, and whether any part of it failed.
Limited(c, d, parts) ==
  LET With(l, conv) ==
        Value([d EXCEPT !.Limit = l.Limit.val, !.Streamlimit = l.Streamlimit.val, !.Timeconv = conv.val],
              Failed({l.Limit, l.Streamlimit, conv} \cup parts))
  IN  With(limit(c.limit), timeconv(c.as))

\* data in (from, to); statistical(n) data in; window(n unit) data in
dataIn(c) ==
  LET Between(from, to) ==
        Limited(c, [DataQuery EXCEPT !.Start = from.val, !.End = to.val], {from, to})
      Statistical(in, n) ==
        Value([in.val EXCEPT !.IsStatistical = TRUE, !.PointWidth = n.val], in.err \/ n.err)
      Window(in, width) ==
        Value([in.val EXCEPT !.IsWindow = TRUE, !.Width = width.val % (2 * MaxInt + 2)],
              in.err \/ width.err)
      Of(in) == CASE c.of = "in" -> in
                  [] c.of = "statistical" -> Statistical(in, ParseInt(c.n))
                  [] c.of = "window" -> Window(in, ParseReltime(c.n, c.unit))
  IN  Of(Between(timeref(c.from), timeref(c.to)))

\* changed(from, to, resolution) data
dataChanged(c) ==
  Value([DataQuery EXCEPT !.Dtype = "changed", !.IsChangedRanges = TRUE,
           !.FromGen = ParseInt(c.fromgen).val, !.ToGen = ParseInt(c.togen).val,
           !.Resolution = ParseInt8(c.n).val],
        Failed({ParseInt(c.fromgen), ParseInt(c.togen), ParseInt8(c.n)}))

\* data before t; data after t
dataNearest(c) ==
  LET From(start) == Limited(c, [DataQuery EXCEPT !.Dtype = c.of, !.Start = start.val], {start})
  IN  From(timeref(c.from))

dataClause(c) == CASE c.of \in {"in", "statistical", "window"} -> dataIn(c)
                   [] c.of = "changed" -> dataChanged(c)
                   [] c.of \in {"before", "after"} -> dataNearest(c)

-----------------------------------------------------------------------------
(* Where clauses.                                                          *)

Having(tag, vals) == {u \in UUIDs : tag \in DOMAIN TagsOf[u] /\ TagsOf[u][tag] \in vals}

\* A selector: the form of its value, and the documents it selects.  MongoDB
\* knows no $neq, and takes nothing but a string for $where.
Dict(form, sel) == [form |-> form, sel |-> sel]

whereTerm(t) ==
  CASE t.op = "="      -> Dict("value", Having(t.tag, t.vals))
    [] t.op = "like"   -> Dict("operator", Having(t.tag, t.vals))
    [] t.op = "!="     -> Dict("refused", {})
    [] t.op = "has"    -> Dict("operator", {u \in UUIDs : t.tag \in DOMAIN TagsOf[u]})
    [] t.op = "matches"-> Dict("script", UNION {Having(k, t.vals) : k \in UNION {DOMAIN TagsOf[u] : u \in UUIDs}})
    [] t.op = "in"     -> Dict("operator", Having(t.tag, t.vals))
    [] t.op = "not in" -> Dict("operator", UUIDs \ Having(t.tag, t.vals))

\* not: $ne in front of the value.  No document has an operator for a value.
Negated(d) == CASE d.form = "value" -> Dict("operator", UUIDs \ d.sel)
                [] d.form = "operator" -> Dict("operator", UUIDs)
                [] d.form \in {"script", "refused"} -> Dict("refused", {})

\* Faulty variant: a term joined with or narrows what is selected.
Joined_and(d1, join, d2) ==
  Dict(IF "refused" \in {d1.form, d2.form} THEN "refused" ELSE "list", d1.sel \cap d2.sel)

Joined(d1, join, d2) ==
  Dict(IF "refused" \in {d1.form, d2.form} THEN "refused" ELSE "list",
       IF join = "and" THEN d1.sel \cap d2.sel ELSE d1.sel \cup d2.sel)

\* From the left, without precedence; only the first term may be negated.
whereList(w) ==
  FoldLeft(LAMBDA d, t : Joined(d, t.join, whereTerm(t)),
           IF Head(w).join = "not" THEN Negated(whereTerm(Head(w))) ELSE whereTerm(Head(w)),
           Tail(w))

-----------------------------------------------------------------------------
(* The queries there are, as far as a tree is not free to be anything.     *)

Durations == [num : Int, unit : STRING]

IsTime(t) == (t.abs.is = "string" => t.abs.time \in Int) /\ t.rel \in Seq(Durations)

IsClause(c) ==
  \/ c.of \in {"in", "statistical", "window"} /\ IsTime(c.from) /\ IsTime(c.to)
  \/ c.of \in {"before", "after"} /\ IsTime(c.from)
  \/ c.of = "changed"

Operators == {"=", "like", "!=", "has", "matches", "in", "not in"}

IsWhere(w) ==
  /\ w \in Seq(Range(w)) /\ w # <<>>
  /\ \A i \in DOMAIN w : /\ w[i].op \in Operators
                        /\ w[i].join \in IF i = 1 THEN {"first", "not"} ELSE {"and", "or"}

\* A query for data has a where clause.
IsQuery(q) ==
  \/ q.type \in {"select", "delete tags", "syntax error"}
  \/ q.type \in {"data", "delete"} /\ IsClause(q.clause) /\ IsWhere(q.where)

-----------------------------------------------------------------------------
\* What mongo_store.GetUUIDs and GetMetadata do with a selector, or with none.
NoDict == Dict("none", UUIDs)

\* sqParse and Parse: the forms a query can have.
Parse(q) ==
  LET p == [QueryType |-> q.type, Target |-> <<>>, Distinct |-> FALSE, Data |-> DataQuery,
            Where |-> IF q.where = <<>> THEN NoDict ELSE whereList(q.where), Err |-> FALSE]
      Of(data) == [p EXCEPT !.Data = data.val, !.Err = data.err]
  IN  CASE q.type = "select" -> [p EXCEPT !.Target = q.tags, !.Distinct = q.distinct]
        [] q.type \in {"data", "delete"} -> Of(dataClause(q.clause))
        [] q.type = "delete tags" -> p
        [] q.type = "syntax error" -> [p EXCEPT !.Err = TRUE]

\* GetParams, for a query of type DATA_TYPE
GetParams(p) ==
  [Where |-> p.Where, StreamLimit |-> p.Data.Streamlimit, DataLimit |-> p.Data.Limit,
   Begin |-> UnixNano(p.Data.Start), End |-> UnixNano(p.Data.End),
   ConvertToUnit |-> p.Data.Timeconv,
   IsStatistical |-> p.Data.IsStatistical, IsWindow |-> p.Data.IsWindow,
   IsChangedRanges |-> p.Data.IsChangedRanges, Width |-> p.Data.Width,
   PointWidth |-> p.Data.PointWidth, FromGen |-> p.Data.FromGen, ToGen |-> p.Data.ToGen,
   Resolution |-> p.Data.Resolution]
=============================================================================
