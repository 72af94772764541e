----------------------------- MODULE ArchiverApi -----------------------------
(***************************************************************************)
(* How the archiver answers a query (archiver/api.go and HandleQuery): a   *)
(* worker parses it, finds the streams it is about, asks the DOT master    *)
(* for which times it may answer, and reads BtrDB, while other workers do  *)
(* the same, streams appear and grow, DOTs come and go, and time passes.   *)
(*                                                                         *)
(* Data and tags of a stream are what MongoDB and BtrDB, both external,    *)
(* hold; a call to either, or to the registry, may fail.  A panic in a     *)
(* worker is the end of the archiver.                                      *)
(***************************************************************************)
EXTENDS QueryLang, DotMaster, BtrDB

CONSTANTS Workers, \* those busy with queries, of the thousand there are
          Loads    \* what the archiver may be exposed to

\* Times of readings in BtrDB: int64 nanoseconds since 1970.
Stored == 0..MaxInt

\* A load has the queries each worker may get, the streams there are at first with
\* their readings, what is inserted later, the DOTs that come and go, and bounds
\* for how often they do and for how many calls fail.
ASSUME ApiAssumption ==
  /\ Streams = UUIDs
  /\ \A l \in Loads :
       /\ DOMAIN l.queries = Workers /\ \A w \in Workers : \A q \in l.queries[w] : IsQuery(q)
       /\ l.data \in [DOMAIN l.data -> Seq(Stored)] /\ DOMAIN l.data \subseteq UUIDs
       /\ l.feed \in [UUIDs -> Seq(Stored)]
       /\ l.changing \subseteq DOTs /\ l.changes \in Nat /\ l.faults \in Nat

VARIABLES
  load,   \* one of the loads
  docs,   \* streams with a document
  mapped, \* streams the mapping from UUIDs to URIs knows
  feed,   \* what is still to be inserted
  job,    \* what each worker does
  down,   \* a worker panicked
  faults

storeVars == <<docs, mapped, feed>>
vars == <<load, dotVars, data, storeVars, job, down, faults>>

NoRange == [Start |-> 0, End |-> 0]

\* What a worker knows: the query and what was made of it, the streams still to
\* do, the range asked for, and of the stream at hand the valid ranges, how
\* often to read and what nearest found; the result.  For the properties: the
\* range before it is narrowed, and the data there were when the query came.
NoJob ==
  [pc |-> "idle", q |-> <<>>, kind |-> "none", params |-> <<>>,
   uuids |-> <<>>, req |-> NoRange, ranges |-> <<>>, copies |-> 0, series |-> <<>>,
   result |-> <<>>, err |-> FALSE, asked |-> NoRange, had |-> <<>>]

Init ==
  /\ DotInit
  /\ load \in Loads
  /\ data = load.data /\ docs = DOMAIN load.data /\ mapped = docs /\ feed = load.feed
  /\ job = [w \in Workers |-> NoJob]
  /\ down = FALSE /\ faults = 0

Fault == faults < load.faults /\ faults' = faults + 1
Becomes(w, j) == job' = [job EXCEPT ![w] = j]
Fails(w, j) == Fault /\ Becomes(w, [j EXCEPT !.pc = "done", !.err = TRUE])

\* A step of a worker that only concerns its job.
Own == UNCHANGED <<load, dotVars, data, storeVars, down>>
NoFault == UNCHANGED faults

Panic(w) ==
  /\ down' = TRUE
  /\ Becomes(w, [job[w] EXCEPT !.pc = "panic"])
  /\ UNCHANGED <<load, dotVars, data, storeVars>>

At(w, pc) == ~down /\ job[w].pc = pc
Stream(w) == Head(job[w].uuids)

-----------------------------------------------------------------------------
(* Streams come into being: InitializeURI, RegisterStream, AddReadings.    *)

StreamStep ==
  \/ \E u \in UUIDs : u \notin docs /\ docs' = docs \cup {u} /\ UNCHANGED <<mapped, feed, data>>
  \/ \E u \in docs : u \notin mapped /\ mapped' = mapped \cup {u} /\ UNCHANGED <<docs, feed, data>>
  \/ \E u \in mapped : RegisterStream(u) /\ UNCHANGED storeVars
  \/ \E u \in DOMAIN data : /\ feed[u] # <<>>
                            /\ AddReadings(u, <<Head(feed[u])>>)
                            /\ feed' = [feed EXCEPT ![u] = Tail(@)]
                            /\ UNCHANGED <<docs, mapped>>

-----------------------------------------------------------------------------
(* HandleQuery.                                                            *)

KindOf(p) ==
  CASE p.QueryType = "select" -> IF p.Distinct THEN "distinct" ELSE "tags"
    [] p.QueryType = "data" ->
         IF p.Data.IsStatistical \/ p.Data.IsWindow THEN "stat"
         ELSE IF p.Data.IsChangedRanges THEN "changed" ELSE p.Data.Dtype
    [] OTHER -> "none"

\* A worker takes a query and parses it.  A query that is no select gets an
\* empty answer.
Ask(w, q) ==
  /\ At(w, "idle")
  /\ \E p \in {Parse(q)} :
       Becomes(w, [NoJob EXCEPT !.q = q, !.kind = KindOf(p), !.params = GetParams(p), !.had = data,
                                !.pc = IF p.Err \/ KindOf(p) = "none" THEN "done" ELSE "find",
                                !.err = p.Err])
  /\ Own /\ NoFault

\* The answer is published; the worker takes the next query.
Answered(w) == At(w, "done") /\ Becomes(w, NoJob) /\ Own /\ NoFault

InNanoseconds(t) == ConvertTime(t, GuessTimeUnit(t), UOT_NS)

\* prepareDataParams: streams in the order of MongoDB, and the range in order.
prepareDataParams(w, found) ==
  LET j == job[w]
      n == j.params.StreamLimit
      uuids == IF n > 0 /\ Len(found) > n THEN SubSeq(found, 1, n) ELSE found
      Of(r) == [j EXCEPT !.pc = IF found = <<>> THEN "done"
                                ELSE IF j.kind \in {"in", "stat"} THEN "uri" ELSE "streams",
                         !.uuids = uuids, !.req = r, !.asked = r]
      Between(b, e) ==
        IF b.err \/ e.err THEN [j EXCEPT !.pc = "done", !.err = TRUE]
        ELSE Of([Start |-> Early(b.val, e.val), End |-> Late(b.val, e.val)])
  IN  Between(InNanoseconds(j.params.Begin), InNanoseconds(j.params.End))

\* mgo.Query.Distinct
Distinct(w, found) ==
  LET tag == Head(job[w].q.tags)
  IN  SetToSeq({TagsOf[u][tag] : u \in {v \in ToSet(found) : tag \in DOMAIN TagsOf[v]}})

\* The documents that match: GetUUIDs, GetMetadata, GetDistinct.
Find(w) ==
  /\ At(w, "find")
  /\ \/ /\ job[w].params.Where.form # "refused"
        /\ \E found \in SetToSeqs(job[w].params.Where.sel \cap docs) :
             Becomes(w, CASE job[w].kind = "tags" ->
                               [job[w] EXCEPT !.uuids = found,
                                              !.pc = IF found = <<>> THEN "done" ELSE "canread"]
                          [] job[w].kind = "distinct" ->
                               [job[w] EXCEPT !.pc = "done", !.result = Distinct(w, found)]
                          [] OTHER -> prepareDataParams(w, found))
        /\ NoFault
     \/ job[w].params.Where.form = "refused" /\ NoFault
        /\ Becomes(w, [job[w] EXCEPT !.pc = "done", !.err = TRUE])
     \/ Fails(w, job[w])
  /\ Own

-----------------------------------------------------------------------------
(* SelectTags: maskMetadataGroupsByPermission.                             *)

\* Faulty variant: a group that may not be read stays where it is.
NextGroup_kept(w, readable) ==
  LET j == job[w]
  IN  [j EXCEPT !.uuids = IF readable THEN Tail(@) ELSE @,
                !.pc = IF readable /\ Len(j.uuids) = 1 THEN "done" ELSE "canread"]

NextGroup(w, readable) ==
  LET j == job[w]
  IN  [j EXCEPT !.uuids = Tail(@), !.pc = IF Len(j.uuids) = 1 THEN "done" ELSE "canread",
                !.result = IF readable THEN Append(@, Stream(w)) ELSE @]

\* CanRead answers from the cache, or asks the registry; an error is a no.
CanRead(w) ==
  /\ At(w, "canread") /\ UNCHANGED <<load, data, storeVars, down>>
  /\ LET u == Stream(w) IN
     \/ canread[u] # "none" /\ Becomes(w, NextGroup(w, canread[u] = "yes"))
        /\ NoFault /\ UNCHANGED dotVars
     \/ canread[u] = "none" /\ Becomes(w, NextGroup(w, BuildAnyChain(u)))
        /\ NoFault /\ SetCanRead(u, BuildAnyChain(u))
     \/ canread[u] = "none" /\ Becomes(w, NextGroup(w, FALSE))
        /\ Fault /\ SetCanRead(u, FALSE)

-----------------------------------------------------------------------------
(* GetValidRanges, and URIFromUUID before it.                              *)

\* An error of the lookup comes with no URI, and looking into that panics.
URIFromUUID(w) ==
  /\ At(w, "uri")
  /\ \/ Stream(w) \in mapped /\ Becomes(w, [job[w] EXCEPT !.pc = "lookup"]) /\ Own /\ NoFault
     \/ Stream(w) \notin mapped /\ Panic(w) /\ NoFault
     \/ Panic(w) /\ Fault

\* A series of the result, with the ranges it is limited to.  (The code names its
\* stream with the first read: one without reads is sent with no name and no data.)
TS(u, recs, ranges) == [uuid |-> u, recs |-> recs, ranges |-> ranges]

\* Of the requested range, what the valid ranges leave.  Requested ranges are
\* narrowed in place, for the streams after this one too.
GetOverlap(j, ranges) ==
  LET o == FoldLeft(Overlap, [rng |-> j.req, n |-> 0], ranges)
  IN  [j EXCEPT !.ranges = ranges, !.req = o.rng, !.copies = o.n, !.pc = "read"]

\* The ranges of the stream at hand are known.
Valid(j, ranges) ==
  IF j.kind \in {"in", "stat"}
  THEN GetOverlap([j EXCEPT !.result = Append(@, TS(Head(j.uuids), <<>>, ranges))], ranges)
  ELSE [j EXCEPT !.ranges = ranges, !.pc = "mask"]

GetValidRanges(w) ==
  /\ UNCHANGED <<load, data, storeVars, down>>
  /\ LET u == Stream(w) IN
     \/ At(w, "lookup") /\ Cached(u) /\ NoFault
        /\ Becomes(w, Valid(job[w], cache[u].ranges)) /\ UNCHANGED dotVars
     \/ At(w, "lookup") /\ ~Cached(u) /\ NoFault /\ UNCHANGED dotVars
        /\ \E r \in GetAccessDOTChains(u) :
             Becomes(w, [job[w] EXCEPT !.pc = "archival", !.ranges = r])
     \/ At(w, "archival") /\ NoFault /\ UNCHANGED dotVars
        /\ \E r \in GetArchivalDOTChains(u, job[w].ranges) :
             Becomes(w, [job[w] EXCEPT !.pc = "store", !.ranges = r])
     \/ At(w, "store") /\ NoFault
        /\ SetCache(u, job[w].ranges) /\ Becomes(w, Valid(job[w], job[w].ranges))
     \/ (At(w, "archival") \/ (At(w, "lookup") /\ ~Cached(u)))
        /\ Fails(w, [job[w] EXCEPT !.result = <<>>]) /\ UNCHANGED dotVars

-----------------------------------------------------------------------------
(* SelectDataRange, SelectStatisticalData.                                 *)

\* Faulty variant: there is always one more.
NextStream_more(j, pc) == [j EXCEPT !.uuids = Tail(@), !.ranges = <<>>, !.pc = pc]

NextStream(j, pc) ==
  [j EXCEPT !.uuids = Tail(@), !.ranges = <<>>, !.pc = IF Len(j.uuids) = 1 THEN "done" ELSE pc]

Fetched(j, u) ==
  IF j.kind = "in" THEN RawValues(u, j.req.Start, j.req.End)
  ELSE IF j.params.IsStatistical THEN AlignedWindows(u, j.params.PointWidth, j.req.Start, j.req.End)
  ELSE Windows(u, j.params.Width, j.req.Start, j.req.End)

\* Faulty variant: the limit is for all ranges of a stream but the last.
Limit_first(j, recs) == recs
Limit(j, recs) ==
  IF j.params.DataLimit > 0 /\ Len(recs) > j.params.DataLimit
  THEN SubSeq(recs, 1, j.params.DataLimit) ELSE recs

Extend(j, recs) ==
  [j EXCEPT !.copies = @ - 1,
            !.result[Len(j.result)].recs = Limit(j, @ \o recs)]

\* One read for each range of the overlap.  There must be a stream to read.
\* BtrDB may refuse a range that ends before it begins.
Read(w) ==
  /\ At(w, "read")
  /\ LET j == job[w] u == Stream(w) IN
     \/ j.copies = 0 /\ Becomes(w, NextStream(j, "uri")) /\ Own /\ NoFault
     \/ j.copies > 0 /\ StreamExists(u) /\ NoFault /\ Own
        /\ \/ Becomes(w, Extend(j, Fetched(j, u)))
           \/ j.req.End <= j.req.Start /\ Becomes(w, [j EXCEPT !.pc = "done", !.err = TRUE])
     \/ j.copies > 0 /\ ~StreamExists(u) /\ Panic(w) /\ NoFault
     \/ j.copies > 0 /\ StreamExists(u) /\ Fails(w, j) /\ Own
     \/ j.copies > 0 /\ Panic(w) /\ Fault

-----------------------------------------------------------------------------
(* SelectDataBefore, SelectDataAfter, GetChangedRanges.                    *)

\* uuidsToStreams skips what is no stream, and what it cannot find out about.
uuidsToStreams(w) ==
  /\ At(w, "streams") /\ Own
  /\ LET j == job[w]
         Skipped(found) ==
           [j EXCEPT !.uuids = IF Len(@) = 1 THEN found ELSE Tail(@),
                     !.series = IF Len(j.uuids) = 1 THEN <<>> ELSE found,
                     !.pc = IF Len(j.uuids) > 1 THEN "streams"
                            ELSE IF found = <<>> THEN "done" ELSE "nearest"]
     IN  \/ /\ Becomes(w, Skipped(IF StreamExists(Stream(w)) THEN Append(j.series, Stream(w))
                                                             ELSE j.series))
            /\ NoFault
         \/ Becomes(w, Skipped(j.series)) /\ Fault

\* Whatever was found goes on to be masked, and an error is forgotten.
Masking(j) ==
  [j EXCEPT !.uuids = [i \in DOMAIN j.series |-> j.series[i].uuid],
            !.pc = IF j.series = <<>> THEN "done" ELSE "uri"]

\* Changes that were found go back as they are.
Changed(j, u) ==
  [NextStream(j, "nearest") EXCEPT
     !.result = Append(@, TS(u, Changes(u, j.params.FromGen, j.params.ToGen), <<>>))]

\* Faulty variant: readings are looked for from the end of the range.
From_end(j) == j.req.End
From(j) == j.req.Start

nearest(w) ==
  /\ At(w, "nearest") /\ Own
  /\ LET j == job[w]
         u == Stream(w)
         point == Nearest(u, From(j), j.kind = "before")
         More == [j EXCEPT !.series = Append(@, TS(u, point, <<>>)), !.uuids = Tail(@)]
     IN  \/ j.kind = "changed" /\ Becomes(w, Changed(j, u)) /\ NoFault
         \/ j.kind = "changed" /\ Fails(w, j)
         \/ j.kind # "changed" /\ NoFault
            /\ Becomes(w, IF point = <<>> THEN Masking(j)
                          ELSE IF Tail(j.uuids) = <<>> THEN Masking(More) ELSE More)
         \/ j.kind # "changed" /\ Fault /\ Becomes(w, Masking(j))

\* sort.Search with a predicate that only ever becomes false says nothing about
\* the lower bound of a single reading; the upper one is enforced.
Until(acc, recs, end) == FoldLeft(LAMBDA a, t : IF t <= end THEN Append(a, t) ELSE a, acc, recs)
Masked(recs, ranges) == FoldLeft(LAMBDA acc, r : Until(acc, recs, r.End), <<>>, ranges)

maskTimeseriesByPermission(w) ==
  /\ At(w, "mask") /\ Own /\ NoFault
  /\ LET j == job[w]
         ts == Head(j.series)
     IN  Becomes(w, [NextStream(j, "uri") EXCEPT
                       !.series = Tail(@),
                       !.result = Append(@, TS(ts.uuid, Masked(ts.recs, j.ranges), j.ranges))])

-----------------------------------------------------------------------------
\* POsFromTimeseriesGroup: the times of a series as they are sent.  Windows are
\* in nanoseconds whatever was asked for.
Sent(j, ts) ==
  [i \in DOMAIN ts.recs |->
     TimeAsUnit(ts.recs[i], IF j.kind = "stat" THEN UOT_NS ELSE j.params.ConvertToUnit)]

Work(w) ==
  \/ Find(w) \/ CanRead(w) \/ URIFromUUID(w) \/ GetValidRanges(w)
  \/ Read(w) \/ uuidsToStreams(w) \/ nearest(w) \/ maskTimeseriesByPermission(w)
  \/ Answered(w)

Registry ==
  \/ \E d \in load.changing : Len(registry) <= load.changes /\ Change(d)
  \/ Tick

Next ==
  \/ \E w \in Workers : (\E q \in load.queries[w] : Ask(w, q)) \/ Work(w)
  \/ ~down /\ StreamStep /\ UNCHANGED <<load, dotVars, job, down, faults>>
  \/ ~down /\ Registry /\ UNCHANGED <<load, data, storeVars, job, down, faults>>

Spec == Init /\ [][Next]_vars

(* Workers go on and calls come back; time passes.                         *)
Fairness ==
  /\ \A w \in Workers : WF_vars(Work(w))
  /\ WF_vars(~down /\ Tick /\ UNCHANGED <<load, data, storeVars, job, down, faults>>)

FairSpec == Spec /\ Fairness

-----------------------------------------------------------------------------
(* Properties.                                                             *)

Done(w) == job[w].pc = "done" /\ ~job[w].err
Results(w) == Range(job[w].result)

\* Every variable has its type; a job that has a stream at hand has one left.
ApiTypeOK ==
  /\ load \in Loads /\ docs \subseteq UUIDs /\ mapped \subseteq docs /\ DOMAIN data \subseteq mapped
  /\ \A u \in DOMAIN data : data[u] \in Seq(Stored)
  /\ feed \in [UUIDs -> Seq(Stored)] /\ down \in BOOLEAN /\ faults \in 0..load.faults
  /\ registry \in Seq(SUBSET DOTs) /\ Len(registry) \in 1..(load.changes + 1)
  /\ \A u \in Streams : cache[u].ttl \in 0..Expiry /\ cache[u].ranges \in Seq(TimeRange)
  /\ canread \in [Streams -> {"none", "yes", "no"}]
  /\ \A w \in Workers :
       /\ job[w].pc \in {"idle", "find", "canread", "uri", "lookup", "archival", "store",
                         "read", "streams", "nearest", "mask", "done", "panic"}
       /\ job[w].pc \in {"canread", "uri", "lookup", "archival", "store", "read", "streams",
                         "nearest", "mask"} => job[w].uuids # <<>>
       /\ job[w].uuids \in Seq(UUIDs) /\ job[w].ranges \in Seq(TimeRange)
       /\ job[w].req \in TimeRange /\ job[w].copies \in Nat /\ job[w].err \in BOOLEAN

\* An instant, exactly: the number times its unit, and what is added.
second == Base * Base * Base
NanosecondsIn ==
  [ns |-> 1, us |-> Base, ms |-> Base * Base, s |-> second,
   m |-> SecondsOf["m"] * second, h |-> SecondsOf["h"] * second, d |-> SecondsOf["d"] * second]
Instant(a) ==
  CASE a.is = "unit" -> a.num * NanosecondsIn[a.unit] [] a.is = "number" -> a.num * second
    [] a.is = "string" -> a.time [] a.is = "now" -> Now
Exactly(t) == FoldLeft(LAMBDA sum, r : sum + r.num * NanosecondsIn[r.unit], Instant(t.abs), t.rel)

\* common/params.go:52: a range query reads the range that was written, in either
\* order and whatever units it was written in, if its bounds are a number of
\* nanoseconds that is not taken for one of a coarser unit.
RangeIsAsWritten ==
  \A w \in Workers :
    job[w].kind \in {"in", "stat"} /\ job[w].pc \notin {"find", "idle"} /\ job[w].asked # NoRange =>
      LET t1 == Exactly(job[w].q.clause.from)
          t2 == Exactly(job[w].q.clause.to)
      IN  {t1, t2} \subseteq US_HIGH..MaxInt =>
            job[w].asked = [Start |-> Early(t1, t2), End |-> Late(t1, t2)]

\* A time, as it is sent, of the range that was asked for, or before its start, or
\* after it.  A window, sent in nanoseconds, begins in the range but for its low bits.
LowBound(j) == IF j.params.IsStatistical THEN Aligned(j.asked.Start, WidthOf(j.params.PointWidth))
                                         ELSE j.asked.Start
AskedFor(j, t) ==
  LET Bound(time) == TimeAsUnit(time, j.params.ConvertToUnit)
  IN  CASE j.kind = "stat" -> LowBound(j) <= t /\ t <= j.asked.End
        [] j.kind = "in" -> Bound(j.asked.Start) <= t /\ t <= Bound(j.asked.End)
        [] j.kind = "before" -> t <= Bound(j.asked.Start)
        [] j.kind = "after" -> t >= Bound(j.asked.Start)

\* common/params.go:49: what is sent is of the range that was asked for, or before it
\* or after it; in the unit that was asked for, and no more of it than the limit.
OnlyAskedFor ==
  \A w \in Workers : Done(w) /\ job[w].kind \in {"in", "stat", "before", "after"} =>
    \A ts \in Results(w) :
      LET j == job[w]
      IN  /\ j.params.DataLimit > 0 /\ j.kind \in {"in", "stat"} => Len(ts.recs) <= j.params.DataLimit
          /\ \A t \in Range(Sent(j, ts)) : AskedFor(j, t)

\* The lists of ranges DOTs may have given at some time until now.
Given(u) ==
  UNION {UNION {Found(r, "archive", u, registry[p[2]]) : r \in Found(<<>>, "access", u, registry[p[1]])} :
           p \in {ik \in (DOMAIN registry) \X (DOMAIN registry) : ik[1] <= ik[2]}}

\* dots/master.go:242: ranges that are good, or that limit a series of an answer,
\* come from DOTs there were when they were looked for, access DOTs first.
RangesWereGiven ==
  /\ \A u \in Streams : cache[u].ttl > 0 => cache[u].ranges \in Given(u)
  /\ \A w \in Workers : job[w].kind # "changed" =>
       \A i \in DOMAIN job[w].result :
         job[w].kind \in {"in", "stat", "before", "after"} =>
           job[w].result[i].ranges \in Given(job[w].result[i].uuid)

\* A reading of a range query is in one of the valid ranges of its stream, each of
\* which may be the hull of ranges; a nearest reading is not behind all of them.
OnlyFromValidRanges ==
  \A w \in Workers : \A i \in DOMAIN job[w].result :
    LET ts == job[w].result[i]
    IN  /\ job[w].kind = "in" => \A t \in Range(ts.recs) :
             \E r \in Range(ts.ranges) : r.Start <= t /\ t <= r.End
        /\ job[w].kind \in {"before", "after"} => \A t \in Range(ts.recs) :
             \E r \in Range(ts.ranges) : t <= r.End

\* Without a limit, a range query has every reading there was when it came that is
\* in the range asked for and in the one valid range of this stream and of the
\* streams before it, by which the range asked for is narrowed for good.
CompleteForWhatIsLeft ==
  \A w \in Workers : Done(w) /\ job[w].kind = "in" /\ job[w].params.DataLimit <= 0 =>
    \A i \in DOMAIN job[w].result :
      LET ts == job[w].result[i]
          left == {job[w].asked} \cup UNION {Range(job[w].result[k].ranges) : k \in 1..i}
          had == IF ts.uuid \in DOMAIN job[w].had THEN Range(job[w].had[ts.uuid]) ELSE {}
      IN  (\A k \in 1..i : Len(job[w].result[k].ranges) = 1) =>
            {t \in had : \A r \in left : r.Start <= t /\ t < r.End} \subseteq Range(ts.recs)

\* A BEFORE query gives, of each stream, the last reading before the earlier of the
\* time asked for and what is made of the end it does not have; AFTER likewise.
NearestFromEarlier ==
  \A w \in Workers : Done(w) /\ job[w].kind \in {"before", "after"} =>
    \A ts \in Results(w) : \A t \in Range(ts.recs) :
      LET from == job[w].asked.Start
          had == IF ts.uuid \in DOMAIN job[w].had THEN Range(job[w].had[ts.uuid]) ELSE {}
      IN  IF job[w].kind = "before"
          THEN t < from /\ \A x \in had : x < from => x <= t
          ELSE t >= from /\ \A x \in had : x >= from => t <= x

\* Which streams a where clause means: read from the left, the last alternative
\* that holds is not narrowed by a later term that does not.  Not only means
\* something in front of a value.
Holds(t, u) ==
  CASE t.op \in {"=", "like", "in"} -> u \in Having(t.tag, t.vals)
    [] t.op = "not in" -> u \notin Having(t.tag, t.vals)
    [] t.op = "has" -> t.tag \in DOMAIN TagsOf[u]
    [] t.op = "matches" -> Range(TagsOf[u]) \cap t.vals # {}
Counts(t, u) == IF t.join = "not" THEN t.op = "=" => ~Holds(t, u) ELSE Holds(t, u)
Meant(q, u) ==
  \E k \in DOMAIN q.where :
    /\ q.where[k].join # "and" /\ Counts(q.where[k], u)
    /\ \A i \in (k + 1)..Len(q.where) : q.where[i].join = "and" => Holds(q.where[i], u)

\* An answer has no stream that the clause does not mean, none twice, no more of
\* them than the limit, and if there is none, all that could be read at first.
StreamsAsMeant ==
  \A w \in Workers : Done(w) /\ job[w].kind \in {"in", "stat"} =>
    LET us == [i \in DOMAIN job[w].result |-> job[w].result[i].uuid]
        n == job[w].params.StreamLimit
    IN  /\ \A i \in DOMAIN us : Meant(job[w].q, us[i]) /\ \A k \in DOMAIN us : us[i] = us[k] => i = k
        /\ IF n > 0 THEN Len(us) <= n
                    ELSE \A u \in DOMAIN job[w].had : Meant(job[w].q, u) => u \in Range(us)

\* archiver/api.go:235: the documents in an answer match, and could be read at some
\* time; one that is missing could not, at some time, or a call failed.
TagsAsReadable ==
  \A w \in Workers : Done(w) /\ job[w].kind = "tags" =>
    LET sel == job[w].params.Where.sel
        Readable(u) == {Chains("access", u, registry[i]) # {} : i \in DOMAIN registry}
    IN  /\ \A u \in Results(w) : u \in sel /\ TRUE \in Readable(u)
        /\ \A u \in DOMAIN job[w].had \cap sel :
             u \notin Results(w) => faults > 0 \/ FALSE \in Readable(u)

\* The archiver only goes down when a call fails, or over a stream that was not in
\* BtrDB yet when the query came.
NoPanicOnceThere ==
  down => faults > 0 \/ \E w \in Workers : job[w].pc = "panic" /\ Stream(w) \notin DOMAIN job[w].had

\* dots/master.go:246: when DOTs no longer change, queries come to use the ranges
\* they give.
RangesCatchUp ==
  <>[](\A w \in Workers : job[w].pc = "read" =>
         \E r \in GetAccessDOTChains(Stream(w)) :
           job[w].ranges \in GetArchivalDOTChains(Stream(w), r))

\* Every query is answered, unless the archiver goes down.
Answers == \A w \in Workers : job[w].pc # "idle" ~> job[w].pc = "idle" \/ down

\* archiver/api.go:68: "selects the data point most immediately before the Start
\* parameter for all matching streams".  A query before now that is answered has a
\* reading of every stream that had one.
SelectDataBefore ==
  \A w \in Workers : Done(w) /\ job[w].kind = "before" /\ faults = 0 =>
    \A u \in DOMAIN job[w].had \cap job[w].params.Where.sel :
      (\E t \in Range(job[w].had[u]) : t < Exactly(job[w].q.clause.from)) =>
        \E ts \in Results(w) : ts.uuid = u
=============================================================================
