---------------------------- MODULE MCViewManager ----------------------------
(* Instances of ViewManager for TLC. *)
EXTENDS ViewManager, TLC

CONSTANTS u1, u2, n1, n2

BothIn1 == [u \in {u1, u2} |-> n1]
Good(u) == [uri |-> u, kind |-> "good"]
Bad == [uri |-> u1, kind |-> "bad"]

\* one request after a bad one; the same URI twice; two URIs
Various == {<<Bad, Good(u1)>>, <<Good(u1), Good(u2), Bad>>}
Simple == {<<Good(u1)>>}
OnlyU1 == [u \in {u1} |-> n1]
=============================================================================
