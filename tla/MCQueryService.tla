--------------------------- MODULE MCQueryService ---------------------------
(* An instance of QueryService for TLC: two clients with one VK, a call with *)
(* a timeout and one without, and what somebody else sends.                 *)
EXTENDS QueryService, TLC

CONSTANTS c1, c2, w1, w2

OneVK == [c \in {c1, c2} |-> "vk"]
TwoCalls == <<c1, c2>>
TwoQueries == <<"select uuid", "select data">>
KindsOfTwo == [q \in {"select uuid", "select data", "empty"} |->
                 CASE q = "select uuid" -> "nothing" [] q = "select data" -> "timeseries" [] OTHER -> "error"]
Sent(form) == [form |-> form, vk |-> "vk", nonce |-> 0, query |-> "empty"]
Garbage == {{Sent("no query")}, {Sent("garbled")}, {Sent("not msgpack")}}
=============================================================================
