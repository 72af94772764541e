---------------------------- MODULE QueryService ----------------------------
(***************************************************************************)
(* Clients, the archiver and the network between them, which delivers in   *)
(* any order and may lose messages, replies for one client apart from      *)
(* those for another.                                                      *)
(***************************************************************************)
EXTENDS PundatClient, QueryServer

CONSTANTS Others,  \* sets of messages: what others may have sent to the URI for queries
          MaxLosses

ASSUME NetworkAssumption ==
  /\ MaxLosses \in Nat /\ IsFiniteSet(Clients)
  /\ \A x \in Calls : QueryOf[x] \in Queries
  /\ UNION Others \subseteq {m \in Messages : m.nonce = 0}

VARIABLES network, \* messages on their way to the archiver
          losses,
          evaluated, \* history: calls whose query was evaluated
          troubled   \* history: calls whose query or reply was lost on the way

netVars == <<network, losses>>
vars == <<clientVars, serverVars, netVars, evaluated, troubled>>

Init == ClientInit /\ ServerInit /\ network \in Others /\ losses = 0 /\ evaluated = {} /\ troubled = {}

CallsOf(m) == {x \in Calls : Nonce(x) = m.nonce /\ QueryOf[x] = m.query}

Ask(x) ==
  /\ \/ Publish(x) /\ network' = network \cup {Query(VKOf[ClientOf[x]], Nonce(x), QueryOf[x])}
        /\ UNCHANGED losses
     \/ PublishFails(x) /\ losses < MaxLosses /\ losses' = losses + 1 /\ UNCHANGED network
  /\ UNCHANGED <<serverVars, evaluated, troubled>>

Deliver(m) ==
  /\ m \in network /\ network' = network \ {m}
  /\ \/ Arrive(m) /\ UNCHANGED losses
        /\ troubled' = IF up = "serving" THEN troubled ELSE troubled \cup CallsOf(m)
     \/ losses < MaxLosses /\ losses' = losses + 1 /\ UNCHANGED serverVars
        /\ troubled' = troubled \cup CallsOf(m)
  /\ UNCHANGED <<clientVars, evaluated>>

\* Clients with the VK that asked.
Audience(m) == {c \in connected : VKOf[c] = m.vk}

\* A worker publishes its reply.
Reply(w) ==
  /\ Replied(w)
  /\ \E lost \in SUBSET Audience(worker[w]) :
       /\ losses + Cardinality(lost) <= MaxLosses /\ losses' = losses + Cardinality(lost)
       /\ inbox' = [c \in Clients |-> IF c \in Audience(worker[w]) \ lost
                                      THEN inbox[c] \cup {ReplyTo(worker[w])} ELSE inbox[c]]
       /\ troubled' = troubled \cup {x \in CallsOf(worker[w]) :
                                       ClientOf[x] \notin Audience(worker[w]) \ lost}
  /\ evaluated' = evaluated \cup CallsOf(worker[w])
  /\ UNCHANGED <<call, outcome, waiting, replyChan, connected, network>>

Client ==
  \/ \E x \in Calls : markWaitFor(x) \/ Timeout(x) \/ TakeReply(x)
  \/ \E c \in Clients : SortReply(c)
  \/ \E c \in Clients : losses < MaxLosses /\ Disconnect(c)

Server ==
  \/ \E w \in Workers : Take(w) /\ UNCHANGED troubled
  \/ Stop /\ troubled' = troubled \cup UNION {CallsOf(m) : m \in InArchiver}
  \/ Restart /\ UNCHANGED troubled

Next ==
  \/ \E x \in Calls : Ask(x)
  \/ \E m \in network : Deliver(m)
  \/ \E w \in Workers : Reply(w)
  \/ Client /\ UNCHANGED <<serverVars, netVars, evaluated, troubled>>
  \/ Server /\ UNCHANGED <<clientVars, netVars, evaluated>>

Spec == Init /\ [][Next]_vars

(* Messages are delivered or lost, goroutines go on, timers fire.  Nothing *)
(* is assumed of the start of a call, of stops and of restarts.            *)
Fairness ==
  /\ WF_vars(\E m \in network : Deliver(m))
  /\ \A w \in Workers : WF_vars(Reply(w))
  /\ WF_vars(\E w \in Workers : Server /\ Take(w) /\ UNCHANGED <<clientVars, netVars, evaluated, troubled>>)
  /\ \A x \in Calls : /\ WF_vars(Ask(x))
                     /\ WF_vars((Timeout(x) \/ TakeReply(x)) /\ UNCHANGED <<serverVars, netVars, evaluated, troubled>>)
  /\ \A c \in Clients : WF_vars(SortReply(c) /\ UNCHANGED <<serverVars, netVars, evaluated, troubled>>)

FairSpec == Spec /\ Fairness

-----------------------------------------------------------------------------
(* Properties.                                                             *)

\* Every variable has its type; a channel holds one reply; a worker that is busy has
\* a query.
ServiceTypeOK ==
  /\ call \in [Calls -> {"new", "marked", "waiting", "done"}]
  /\ outcome \in [Calls -> {NoOutcome, GaveUp} \cup {ResultOf(QueryOf[x]) : x \in Calls}]
  /\ waiting \in [Clients -> SUBSET Calls] /\ connected \subseteq Clients
  /\ \A x \in Calls : Cardinality(replyChan[x]) <= 1 /\ \A m \in replyChan[x] : m.kinds \subseteq Kinds
  /\ \A c \in Clients : \A m \in inbox[c] : m.kinds \subseteq Kinds
  /\ up \in {"serving", "deaf", "down"} /\ stops \in 0..MaxStops /\ losses \in 0..MaxLosses
  /\ \A w \in Workers : worker[w] = Idle \/ worker[w].form \in {"query", "not msgpack"}
  /\ evaluated \subseteq Calls /\ troubled \subseteq Calls

\* client/client.go:84: between the caller, the goroutine and the timer no call loses
\* its place: one that waits has either its entry or its reply, never both, and one
\* that has its result has no entry left.
WaitingAccounted ==
  \A x \in Calls :
    LET entry == x \in waiting[ClientOf[x]] IN
    /\ call[x] = "waiting" => (entry <=> replyChan[x] = {})
    /\ entry => call[x] # "new" /\ replyChan[x] = {}
    /\ outcome[x] \notin {NoOutcome, GaveUp} => ~entry
    /\ \A c \in Clients \ {ClientOf[x]} : x \notin waiting[c]

\* A call comes to one end: the result of its own query, evaluated after it was asked,
\* or none; whatever is lost, stopped, or meant for another client with the same VK.
R == INSTANCE Rpc WITH asked <- {x \in Calls : call[x] # "new"}
ImplementsRpc == R!Spec

\* A call with a timeout returns, and so does one without, unless its query or its reply
\* was lost, by the network, with the archiver, or with the subscription of its client.
Returns ==
  \A x \in Calls :
    call[x] = "waiting" ~>
      call[x] = "done" \/ (x \notin Timed /\ (x \in troubled \/ ClientOf[x] \notin connected))

\* client/client.go:136: the entry of a call that gave up goes when a late reply comes;
\* it stays for good only if none does.
EntryGoes ==
  \A x \in Calls :
    outcome[x] = GaveUp /\ x \in waiting[ClientOf[x]] ~>
      x \notin waiting[ClientOf[x]] \/ x \in troubled \/ ClientOf[x] \notin connected \/ losses > 0
=============================================================================
