------------------------------- MODULE Archive -------------------------------
(***************************************************************************)
(* What one archive request promises for each URI it matches: the archived *)
(* series holds only readings that were accepted, it only ever grows, and  *)
(* a reading that enters it behind a later one is a repeat, never news.    *)
(* Nothing is promised about how often a reading is archived, nor that it  *)
(* is archived at all.                                                     *)
(***************************************************************************)
EXTENDS Readings

CONSTANT URIs

VARIABLES accepted,  \* for each URI, the set of readings put in the series
          archived   \* for each URI, the series the timeseries store holds

vars == <<accepted, archived>>

Init == /\ accepted = [u \in URIs |-> {}]
        /\ archived = [u \in URIs |-> <<>>]

Accept(u) == /\ accepted[u] \subseteq accepted'[u]
             /\ \A v \in URIs \ {u} : accepted'[v] = accepted[v]
             /\ UNCHANGED archived

\* The batch is what the step appends.
Insert(u) ==
  LET old   == archived[u]
      batch == SubSeq(archived'[u], Len(old) + 1, Len(archived'[u]))
  IN  /\ archived'[u] = old \o batch
      /\ Range(batch) \subseteq accepted[u]
      /\ Sorted(batch)
      /\ InOrder(old, batch)
      /\ \A v \in URIs \ {u} : archived'[v] = archived[v]
      /\ UNCHANGED accepted

Next == \E u \in URIs : Accept(u) \/ Insert(u)

Spec == Init /\ [][Next]_vars
=============================================================================
