-------------------------------- MODULE BtrDB --------------------------------
(***************************************************************************)
(* The client of BtrDB (archiver/btrdb.v4.go).  The database is external:  *)
(* a stream is the sequence of the times of its readings, in the order in  *)
(* which they were inserted, and its version counts them.  A call may      *)
(* fail; then it has no effect.  What is read is the latest version.       *)
(***************************************************************************)
EXTENDS Integers, SequencesExt, FiniteSetsExt

VARIABLE data \* for each stream there is in the database, its readings

Times(u) == Range(data[u])
Generation(u) == Len(data[u])

\* Faulty variant: a stream without readings is none.
StreamExists_read(u) == u \in DOMAIN data /\ data[u] # <<>>

\* StreamExists, getStream: the cache of streams only holds streams there are.
StreamExists(u) == u \in DOMAIN data

\* RegisterStream, createStream
RegisterStream(u) ==
  /\ ~StreamExists(u)
  /\ data' = [v \in DOMAIN data \cup {u} |-> IF v = u THEN <<>> ELSE data[v]]

AddReadings(u, times) ==
  /\ StreamExists(u)
  /\ data' = [data EXCEPT ![u] = @ \o times]

\* Times of readings, as a series in the order of time.
Series(S) == CHOOSE s \in SetToSeqs(S) : \A i \in 2..Len(s) : s[i - 1] < s[i]

\* Nearest: strictly before, or from then on.  None is an error.
Nearest(u, start, backwards) ==
  LET S == {t \in Times(u) : IF backwards THEN t < start ELSE t >= start}
  IN  IF S = {} THEN <<>> ELSE <<IF backwards THEN Max(S) ELSE Min(S)>>

\* Faulty variant: the start is not included.
RawValues_open(u, start, end) == Series({t \in Times(u) : start < t /\ t < end})

\* GetData, GetDataUUID: start is included, end is not.
RawValues(u, start, end) == Series({t \in Times(u) : start <= t /\ t < end})

\* Windows of a given width from start on that have readings; the last that does
\* not fit is left out.
Windows(u, width, start, end) ==
  LET last  == start + width * ((end - start) \div width)
      begin == {t - ((t - start) % width) : t \in {t \in Times(u) : start <= t /\ t < last}}
  IN  IF width = 0 \/ end <= start THEN <<>> ELSE Series(begin)

Aligned(t, width) == t - (t % width)

\* A point width is handed over as a byte.
WidthOf(pointWidth) == 2^(pointWidth % 256)

\* AlignedWindows: the low bits of start and of end are cleared.
AlignedWindows(u, pointWidth, start, end) ==
  LET w == WidthOf(pointWidth) IN Windows(u, w, Aligned(start, w), Aligned(end, w))

\* ChangedRanges: what was inserted between two versions, 0 being the latest.
Changes(u, from, to) ==
  SubSeq(data[u], from + 1, IF to = 0 \/ to > Generation(u) THEN Generation(u) ELSE to)
=============================================================================
