---------------------------- MODULE MCArchiverApi ----------------------------
(* Instances of ArchiverApi for TLC.  Three of a unit make one of the next; *)
(* a number from 630 on is one of nanoseconds, and 2047 is the latest time.  *)
EXTENDS ArchiverApi

CONSTANTS u1, u2, w1, w2, AnyTime

TagsOfTwo == (u1 :> [room |-> "a", kind |-> "t"]) @@ (u2 :> [room |-> "b"])
Year1 == -5427
LengthsOfUnits == [m |-> 2, h |-> 4, d |-> 8]

Uri(start, end) == parseArchiveURI(start, end, AnyTime, 0, MaxInt)
DOT(kind, from, to, on, start, end) ==
  [kind |-> kind, from |-> from, to |-> to, on |-> on, rng |-> Uri(start, end)]

\* u1: a chain of two DOTs for access, and one for the archive that reaches
\* further back.  u2: for the archive only, in two parts.
ForBoth == DOT("access", "ns", "friend", {u1, u2}, 650, 1500)
ForFriend == DOT("access", "friend", "vk", {u1}, 800, AnyTime)
EarlyPart == DOT("archive", "ns", "vk", {u1, u2}, AnyTime, 850)
LatePart == DOT("archive", "ns", "vk", {u2}, 1000, AnyTime)
AllDOTs == {ForBoth, ForFriend, EarlyPart, LatePart}
OneNamespace == [u \in {u1, u2} |-> "ns"]

\* Queries.
At0(abs) == [abs |-> abs, rel |-> <<>>]
Num(n, unit) == [is |-> "unit", num |-> n, unit |-> unit]
Number(n) == [is |-> "number", num |-> n]
Str(t) == [is |-> "string", time |-> t]
NowTime == [is |-> "now"]
Plus(abs, n, unit) == [abs |-> abs, rel |-> <<[num |-> n, unit |-> unit], [num |-> 1, unit |-> "ns"]>>]

NoLimit == [n |-> -1, streams |-> -1]
Term(join, op, tag, vals) == [join |-> join, op |-> op, tag |-> tag, vals |-> vals]
All == <<Term("first", "has", "room", {})>>
InA == <<Term("first", "=", "room", {"a"})>>
InB == <<Term("first", "like", "room", {"b"})>>
Left == <<Term("first", "in", "room", {"b"}), Term("or", "=", "room", {"a"}), Term("and", "has", "kind", {})>>
NotB == <<Term("not", "like", "room", {"b"})>>
NotA == <<Term("not", "=", "room", {"a"}), Term("or", "matches", "", {"t"})>>

Clause(of, from, to, lim, as) ==
  [of |-> of, from |-> from, to |-> to, limit |-> lim, as |-> as, n |-> 6, unit |-> "", fromgen |-> 0, togen |-> 0]
Data(where, c) == [type |-> "data", tags |-> <<>>, distinct |-> FALSE, clause |-> c, where |-> where]
Tags(where, tags, distinct) ==
  [type |-> "select", tags |-> tags, distinct |-> distinct, clause |-> <<>>, where |-> where]

In(where, from, to, lim) == Data(where, Clause("in", from, to, lim, "ms"))

RangeQueries ==
  {In(All, At0(Num(231, "us")), At0(NowTime), NoLimit),
   In(NotA, At0(Number(50)), Plus(Str(640), 1, "m"), [n |-> 1, streams |-> 1])}
StatQueries ==
  {Data(NotB, [Clause("statistical", At0(Str(700)), At0(NowTime), NoLimit, "s") EXCEPT !.n = 262]),
   Data(Left, [Clause("window", At0(Str(700)), At0(Num(133, "ms")), NoLimit, "") EXCEPT !.n = 50, !.unit = "ns"])}
NearestQueries ==
  {Data(All, Clause("before", At0(NowTime), <<>>, NoLimit, "ns")),
   Data(All, Clause("after", At0(Str(710)), <<>>, NoLimit, "us"))}
OtherQueries ==
  {Data(All, Clause("changed", <<>>, <<>>, NoLimit, "")),
   Tags(All, <<"room">>, FALSE), Tags(<<>>, <<"kind">>, TRUE),
   Data(<<Term("first", "!=", "room", {"a"})>>, Clause("before", At0(NowTime), <<>>, NoLimit, "")),
   In(All, At0([is |-> "garbage"]), At0(NowTime), NoLimit),
   [Data(All, Clause("before", At0(NowTime), <<>>, NoLimit, "")) EXCEPT !.type = "delete"],
   [Tags(<<>>, <<>>, FALSE) EXCEPT !.type = "syntax error"]}

\* Queries while u2 comes into being; every kind of query while a call fails.
OneWorker(queries) == (w1 :> queries) @@ (w2 :> {})
Growing ==
  [queries |-> OneWorker(RangeQueries \cup StatQueries \cup NearestQueries),
   data |-> u1 :> <<1100, 700, 900>>, feed |-> (u1 :> <<>>) @@ (u2 :> <<800>>),
   changing |-> {}, changes |-> 0, faults |-> 0]
Failing ==
  [Growing EXCEPT !.queries[w1] = @ \cup OtherQueries, !.data = (u1 :> <<1100, 700, 900>>) @@ (u2 :> <<800>>),
                  !.feed = [u \in {u1, u2} |-> <<>>], !.faults = 1]

\* Two workers and one cache, while a DOT comes or goes.
Sharing ==
  [queries |-> (w1 :> {In(All, At0(Str(700)), At0(NowTime), NoLimit), Tags(All, <<>>, FALSE)})
               @@ (w2 :> {In(InB, At0(Str(700)), At0(NowTime), NoLimit)}),
   data |-> (u1 :> <<1100, 700, 900>>) @@ (u2 :> <<1100, 750>>), feed |-> [u \in {u1, u2} |-> <<>>],
   changing |-> {ForBoth}, changes |-> 1, faults |-> 0]
AllLoads == {Growing, Failing, Sharing}

Before ==
  {[Growing EXCEPT !.queries[w1] = {Data(All, Clause("before", At0(NowTime), <<>>, NoLimit, "ns"))}]}
=============================================================================
