------------------------------ MODULE Readings ------------------------------
(***************************************************************************)
(* What the archiver turns messages into: common.TimeseriesReading values, *)
(* the payloads they are extracted from, and the order in which they enter *)
(* a stream.  A reading is identified by the message it came from and its  *)
(* position in that message; its time is the index of the timestamp it was *)
(* given among the timestamps of the message.                              *)
(***************************************************************************)
EXTENDS Naturals, Sequences, Functions

\* kind: "empty"  no payload object at all
\*       "opaque" no number can be extracted from it
\*       "scalar" the value expression yields one number
\*       "list"   the value expression yields a list
\* kept: positions, in increasing order, of the list elements that are finite
\*       float64 numbers (the others are skipped)
\* times: how many timestamps getTimes returns for the message
Increasing(q) == \A i, j \in DOMAIN q : i < j => q[i] < q[j]

Payload == [kind : {"empty", "opaque", "scalar", "list"}, kept : Seq(Nat), times : Nat]

Reading == [msg : Nat, val : Nat, time : Nat]

\* The order in which the readings of one stream are received.
Before(r, s) == r.msg < s.msg \/ (r.msg = s.msg /\ r.val < s.val)

Sorted(q) == \A i, j \in DOMAIN q : i < j => Before(q[i], q[j])

\* Appended to `old`, a batch brings no news behind what is there already.
InOrder(old, batch) ==
  \A r \in Range(batch), d \in Range(old) : Before(d, r) \/ r \in Range(old)

\* Appending readings of message n at the k-th, (k+1)-th, ... place of a
\* series that already holds `have` records: a list indexes the timestamps by
\* the length of the whole series, a scalar takes the first timestamp.
Extract(p, n, have) ==
  [k \in 1..Len(p.kept) |->
     [msg |-> n, val |-> p.kept[k], time |-> IF p.kind = "list" THEN have + k ELSE 1]]

\* The index that Extract uses is out of range: the Go program panics.
Overruns(p, have) ==
  IF p.kind = "list" THEN p.kept # <<>> /\ have + Len(p.kept) > p.times
                     ELSE p.times = 0
=============================================================================
