--------------------------- MODULE MCArchiveTools ---------------------------
(* Instances of ArchiveTools for TLC.                                       *)
EXTENDS ArchiveTools

CONSTANTS p, q, t1, t2

Req(key, def, valid) == [key |-> key, def |-> def, valid |-> valid]
At(u, r) == [at |-> u, key |-> r.key, valid |-> r.valid, is |-> r]
Job(kind, reqs) == [kind |-> kind, reqs |-> reqs, uri |-> p]

A1 == Req("a", 1, TRUE)
A2 == Req("a", 2, TRUE)
B == Req("b", 1, TRUE)
W == Req("w", 1, TRUE)
Bad == Req("c", 1, FALSE)
AllRequests == {A1, A2, B, W, Bad}

\* Two tools at the same lists, one of which may have a request that is not valid.
Together(initial) ==
  [lists |-> initial, failures |-> 1, time |-> 0, messages |-> 0,
   jobs |-> (t1 :> {Job("add", <<At(p, A2), At(q, A1), At(q, W)>>), Job("rm", <<At(p, A1), At(q, B)>>),
                    Job("add", <<At(p, B), At(p, Bad)>>)})
            @@ (t2 :> {Job("add", <<At(p, B), At(p, A1)>>), Job("rm", <<At(q, A2)>>), Job("rm", <<>>), Job("nuke", <<>>)})]
Empty == (p :> <<>>) @@ (q :> <<>>)

\* A request that is watched, and published once more with another.
Watch ==
  [lists |-> Empty, failures |-> 0, time |-> 9, messages |-> 4,
   jobs |-> (t1 :> {Job("add", <<At(p, W), At(p, A1)>>)}) @@ (t2 :> {})]

BothLoads ==
  {Together(Empty), Together((p :> <<A1, B>>) @@ (q :> <<B>>)),
   Together((p :> <<A1>>) @@ (q :> <<B, Bad>>)), Watch}
=============================================================================
