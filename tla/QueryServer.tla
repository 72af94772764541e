---------------------------- MODULE QueryServer ----------------------------
(***************************************************************************)
(* The archiver as a server of queries (archiver/archiver.go): a pool of   *)
(* workers (common/workerpool.go) takes messages from one subscription,    *)
(* evaluates the query of each and publishes a reply to the VK it is from. *)
(*                                                                         *)
(* A message has one of the forms: "query"; "no query", without a payload  *)
(* object for it; "garbled", which cannot be unmarshalled; "not msgpack".  *)
(* What HandleQuery does is in ArchiverApi: here it has a result of some   *)
(* kind, an error, or panics, which stops the archiver.                    *)
(***************************************************************************)
EXTENDS Naturals, FiniteSets

CONSTANTS Workers,
          Queries,
          KindOf,   \* for each query, what HandleQuery makes of it
          NoQuery,  \* the empty query
          MaxStops

ASSUME ServerAssumption ==
  /\ KindOf \in [Queries -> {"nothing", "error", "metadata", "timeseries", "changed"}]
  /\ NoQuery \in Queries /\ KindOf[NoQuery] = "error" /\ MaxStops \in Nat

VARIABLES
  up,         \* "serving", "deaf" when it could not subscribe, or "down"
  queue,      \* messages that have arrived at the subscription
  worker,     \* what each worker is at, or Idle
  stops

serverVars == <<up, queue, worker, stops>>

Messages == [form : {"query", "no query", "garbled", "not msgpack"}, vk : STRING,
             nonce : Nat, query : Queries]
Idle == [form |-> "idle"]
Query(vk, nonce, query) == [form |-> "query", vk |-> vk, nonce |-> nonce, query |-> query]

ServerInit ==
  /\ up \in {"serving", "deaf"} /\ queue = {} /\ worker = [w \in Workers |-> Idle] /\ stops = 0

\* A message to nobody is gone.
Arrive(m) ==
  /\ queue' = IF up = "serving" THEN queue \cup {m} ELSE queue
  /\ UNCHANGED <<up, worker, stops>>

\* What is not in MsgPack is taken for the empty query, with nonce 0.
Received(m) ==
  IF m.form = "not msgpack" THEN [m EXCEPT !.query = NoQuery, !.nonce = 0] ELSE m

\* Faulty variant: what cannot be unmarshalled goes on.
Dropped_empty(m) == m.form = "no query"

Dropped(m) == m.form \in {"no query", "garbled"}

Take(w) ==
  /\ worker[w] = Idle
  /\ \E m \in queue :
       /\ queue' = queue \ {m}
       /\ worker' = IF Dropped(m) THEN worker ELSE [worker EXCEPT ![w] = Received(m)]
  /\ UNCHANGED <<up, stops>>

\* What is published: one payload object, of metadata if there is no result.
ReplyTo(m) == [nonce |-> m.nonce, query |-> m.query,
               kinds |-> {IF KindOf[m.query] = "nothing" THEN "metadata" ELSE KindOf[m.query]}]

\* What is in the archiver and would be lost with it.
InArchiver == queue \cup ({worker[w] : w \in Workers} \ {Idle})

Replied(w) ==
  worker[w] # Idle /\ worker' = [worker EXCEPT ![w] = Idle] /\ UNCHANGED <<up, queue, stops>>

\* A panic of a worker, or the archiver is stopped.
Stop ==
  /\ up # "down" /\ stops < MaxStops /\ stops' = stops + 1
  /\ up' = "down" /\ queue' = {} /\ worker' = [w \in Workers |-> Idle]

\* It starts again; an error of Subscribe is only logged.
Restart ==
  up = "down" /\ up' \in {"serving", "deaf"} /\ UNCHANGED <<queue, worker, stops>>
=============================================================================
