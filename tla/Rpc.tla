--------------------------------- MODULE Rpc ---------------------------------
(***************************************************************************)
(* What querying the archiver promises: a call is asked once and comes to  *)
(* one end, which is the result of its own query, if the query was         *)
(* evaluated after it was asked, or no result at all.                      *)
(***************************************************************************)
CONSTANTS Calls, QueryOf

VARIABLES asked, evaluated, outcome

NoOutcome == [is |-> "none"]
GaveUp == [is |-> "no response"]
ResultOf(query) == [is |-> "result", of |-> query]

Init == asked = {} /\ evaluated = {} /\ outcome = [x \in Calls |-> NoOutcome]

Ask(x) == x \notin asked /\ asked' = asked \cup {x} /\ UNCHANGED <<evaluated, outcome>>

Evaluate(x) ==
  x \in asked /\ evaluated' = evaluated \cup {x} /\ UNCHANGED <<asked, outcome>>

Answer(x) ==
  /\ x \in evaluated /\ outcome[x] = NoOutcome
  /\ outcome' = [outcome EXCEPT ![x] = ResultOf(QueryOf[x])] /\ UNCHANGED <<asked, evaluated>>

GiveUp(x) ==
  /\ x \in asked /\ outcome[x] = NoOutcome
  /\ outcome' = [outcome EXCEPT ![x] = GaveUp] /\ UNCHANGED <<asked, evaluated>>

Next == \E x \in Calls : Ask(x) \/ Evaluate(x) \/ Answer(x) \/ GiveUp(x)

Spec == Init /\ [][Next]_<<asked, evaluated, outcome>>
=============================================================================
