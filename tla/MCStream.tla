------------------------------ MODULE MCStream ------------------------------
(* Instances of Stream for TLC. *)
EXTENDS Stream, TLC

CONSTANTS u1, u2, s1

Scalar == [kind |-> "scalar", kept |-> <<1>>, times |-> 1]
\* a list of two numbers with their two times, and one whose first element is
\* not a finite float64
Pair == [kind |-> "list", kept |-> <<1, 2>>, times |-> 2]
Gap == [kind |-> "list", kept |-> <<2>>, times |-> 2]
Opaque == [kind |-> "opaque", kept |-> <<>>, times |-> 1]
Empty == [kind |-> "empty", kept |-> <<>>, times |-> 0]

OneURI == {u1}
TwoURIs == {u1, u2}
Shared == [u \in {u1, u2} |-> s1]
OneStream == [u \in {u1} |-> s1]
Plain == {Scalar}
Mixed == {Scalar, Pair, Opaque, Empty}
Lists == {Pair, Gap}
=============================================================================
