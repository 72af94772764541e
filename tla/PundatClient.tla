---------------------------- MODULE PundatClient ----------------------------
(***************************************************************************)
(* The query client (client/client.go): calls that wait for the reply with *)
(* their nonce, each on a channel of its own, and per client a goroutine   *)
(* that sorts the replies.  Clients with the same VK share the URI on      *)
(* which replies are published, so that each gets the replies of all.      *)
(*                                                                         *)
(* A call is a number, and so is its nonce: two calls never draw the same, *)
(* and none draws 0.  A reply has payload objects of one or more kinds,    *)
(* all with one nonce.                                                     *)
(***************************************************************************)
EXTENDS Naturals, FiniteSets

CONSTANTS Clients,
          VKOf,     \* the verifying key of each client
          Calls,    \* calls of PundatClient.Query
          ClientOf, \* who makes a call
          QueryOf,  \* what it asks
          Timed     \* the calls with a timeout

ASSUME ClientAssumption ==
  /\ VKOf \in [Clients -> STRING] /\ ClientOf \in [Calls -> Clients] /\ Timed \subseteq Calls
  /\ DOMAIN QueryOf = Calls /\ Calls \subseteq Nat \ {0}

Kinds == {"error", "metadata", "timeseries", "changed"}

VARIABLES
  call,      \* where a call is: "new", "marked", "waiting", "done"
  outcome,   \* what it returned
  waiting,   \* PundatClient.waiting: for each client, the calls it has an entry of
  replyChan, \* the channel of each call, which has room for one
  inbox,     \* replies that have come for a client and are not sorted yet
  connected  \* whether the subscription of a client delivers

clientVars == <<call, outcome, waiting, replyChan, inbox, connected>>

NoOutcome == [is |-> "none"]
GaveUp == [is |-> "no response"]
ResultOf(query) == [is |-> "result", of |-> query]

ClientInit ==
  /\ call = [x \in Calls |-> "new"] /\ outcome = [x \in Calls |-> NoOutcome]
  /\ waiting = [c \in Clients |-> {}] /\ replyChan = [x \in Calls |-> {}]
  /\ inbox = [c \in Clients |-> {}] /\ connected = Clients

Move(x, from, to) == call[x] = from /\ call' = [call EXCEPT ![x] = to]
Return(x, what) ==
  /\ Move(x, "waiting", "done")
  /\ outcome' = [outcome EXCEPT ![x] = what]

\* Faulty variant: every client numbers its calls.
Nonce_counted(x) == Cardinality({y \in Calls : ClientOf[y] = ClientOf[x] /\ y <= x})

Nonce(x) == x

markWaitFor(x) ==
  /\ Move(x, "new", "marked")
  /\ waiting' = [waiting EXCEPT ![ClientOf[x]] = @ \cup {x}]
  /\ UNCHANGED <<outcome, replyChan, inbox, connected>>

\* The query is published; the caller starts to wait.
Publish(x) ==
  Move(x, "marked", "waiting") /\ UNCHANGED <<outcome, waiting, replyChan, inbox, connected>>

\* It cannot be published: an error, and the nonce stays where it is.
PublishFails(x) ==
  /\ Move(x, "marked", "done") /\ outcome' = [outcome EXCEPT ![x] = GaveUp]
  /\ UNCHANGED <<waiting, replyChan, inbox, connected>>

Timeout(x) ==
  x \in Timed /\ Return(x, GaveUp) /\ UNCHANGED <<waiting, replyChan, inbox, connected>>

\* getError, getTimeseries, getMetadata, getChanged: something with this nonce.
Found(x, m) == m.nonce = Nonce(x) /\ m.kinds \subseteq Kinds

\* A reply without anything for this call is dropped, and the call waits on.
TakeReply(x) ==
  \E m \in replyChan[x] :
    /\ call[x] = "waiting"
    /\ replyChan' = [replyChan EXCEPT ![x] = {}]
    /\ IF Found(x, m) THEN Return(x, ResultOf(m.query)) ELSE UNCHANGED <<call, outcome>>
    /\ UNCHANGED <<waiting, inbox, connected>>

\* Faulty variant: a reply goes to any call that waits.
For_any(c, m) == waiting[c]

\* Faulty variant: a reply for a call that has given up is skipped.
For_waiting(c, m) == {x \in waiting[c] : Nonce(x) = m.nonce /\ call[x] = "waiting"}

\* getNonce and the lookup: whose reply it is.
For(c, m) == {x \in waiting[c] : Nonce(x) = m.nonce}

\* Faulty variant: the entry of a reply that was delivered stays.
Sorted_kept(c, x) == waiting

Sorted(c, x) == [waiting EXCEPT ![c] = @ \ {x}]

\* The goroutine: the reply is put in the channel of its call if there is room.
SortReply(c) ==
  \E m \in inbox[c] :
    /\ inbox' = [inbox EXCEPT ![c] = @ \ {m}]
    /\ \/ For(c, m) = {} /\ UNCHANGED <<waiting, replyChan>>
       \/ \E x \in For(c, m) :
            IF replyChan[x] = {}
            THEN replyChan' = [replyChan EXCEPT ![x] = {m}] /\ waiting' = Sorted(c, x)
            ELSE UNCHANGED <<waiting, replyChan>>
    /\ UNCHANGED <<call, outcome, connected>>

\* The subscription ends, and with it the goroutine, once it has sorted what came.
Disconnect(c) ==
  /\ c \in connected /\ connected' = connected \ {c}
  /\ UNCHANGED <<call, outcome, waiting, replyChan, inbox>>
=============================================================================
