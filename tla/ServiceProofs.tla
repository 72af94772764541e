---------------------------- MODULE ServiceProofs ----------------------------
(* Theorems about QueryService, for any clients, calls, workers and queries, *)
(* whatever others send and however often messages are lost.                *)
EXTENDS QueryService, FiniteSetTheorems, TLAPS

-----------------------------------------------------------------------------
(* The inductive invariant.                                                *)

Replies == [nonce : Nat, query : Queries, kinds : SUBSET Kinds]
Outcomes == {NoOutcome, GaveUp} \cup {ResultOf(QueryOf[x]) : x \in Calls}

ClientTypes ==
  /\ call \in [Calls -> {"new", "marked", "waiting", "done"}]
  /\ outcome \in [Calls -> Outcomes]
  /\ waiting \in [Clients -> SUBSET Calls]
  /\ replyChan \in [Calls -> SUBSET Replies]
  /\ inbox \in [Clients -> SUBSET Replies]
  /\ connected \subseteq Clients

ServerTypes ==
  /\ up \in {"serving", "deaf", "down"} /\ stops \in 0..MaxStops /\ losses \in 0..MaxLosses
  /\ queue \subseteq Messages /\ network \subseteq Messages
  /\ worker \in [Workers -> Messages \cup {Idle}]
  /\ \A w \in Workers : worker[w] = Idle \/ worker[w].form \in {"query", "not msgpack"}
  /\ evaluated \subseteq Calls /\ troubled \subseteq Calls

\* The calls whose query was published or could not be.
Asked == {x \in Calls : call[x] \in {"waiting", "done"}}

\* A message is of nobody's call, or of one that was asked; a reply, of one that was
\* evaluated.
OwnQuery(m) == m.nonce # 0 => m.nonce \in Asked /\ m.query = QueryOf[m.nonce]
OwnReply(m) == m.nonce # 0 => m.nonce \in evaluated /\ m.query = QueryOf[m.nonce]

Owned ==
  /\ \A m \in network : OwnQuery(m)
  /\ \A m \in queue : OwnQuery(m)
  /\ \A w \in Workers : worker[w] = Idle \/ OwnQuery(worker[w])
  /\ \A c \in Clients : \A m \in inbox[c] : OwnReply(m)
  /\ \A x \in Calls : \A m \in replyChan[x] : m.nonce = x /\ x \in evaluated /\ m.query = QueryOf[x]
  /\ evaluated \subseteq Asked

Entry(x) == x \in waiting[ClientOf[x]]

\* What a client has of a call, by how far the call is.
PlaceOf(x) ==
  /\ \A c \in Clients : x \in waiting[c] => c = ClientOf[x]
  /\ call[x] = "new" => ~Entry(x) /\ replyChan[x] = {}
  /\ call[x] = "marked" => Entry(x)
  /\ call[x] = "waiting" => (Entry(x) <=> replyChan[x] = {})
  /\ Entry(x) => replyChan[x] = {}
  /\ outcome[x] = NoOutcome <=> call[x] # "done"
  /\ outcome[x] \notin {NoOutcome, GaveUp} => ~Entry(x)
  /\ \A m, n \in replyChan[x] : m = n

Places == \A x \in Calls : PlaceOf(x)

SInv == ClientTypes /\ ServerTypes /\ Owned /\ Places

\* What the outcomes are made of tells them apart.
LEMMA OutcomesDiffer ==
  /\ NoOutcome # GaveUp
  /\ \A q : ResultOf(q) # NoOutcome /\ ResultOf(q) # GaveUp
BY DEF NoOutcome, GaveUp, ResultOf

\* A message is at most about the call whose nonce it has, and one with nonce 0 is
\* about none.
LEMMA CallsOfType ==
  ASSUME NEW m
  PROVE  CallsOf(m) \subseteq Calls /\ CallsOf(m) \subseteq {m.nonce}
BY DEF CallsOf, Nonce

LEMMA InitSInv == Init => SInv
<1> SUFFICES ASSUME Init PROVE SInv
  OBVIOUS
<1>1. ClientTypes
  <2>1. outcome \in [Calls -> Outcomes]
    BY DEF Outcomes, Init, ClientInit
  <2>2. QED
    BY <2>1 DEF ClientTypes, Init, ClientInit
<1>2. network \subseteq Messages /\ \A m \in network : m.nonce = 0
  BY NetworkAssumption DEF Init
<1>3. ServerTypes
  <2>1. 0 \in 0..MaxStops /\ 0 \in 0..MaxLosses
    BY ServerAssumption, NetworkAssumption
  <2>2. QED
    BY <1>2, <2>1 DEF ServerTypes, Init, ServerInit
<1>4. Owned
  BY <1>2 DEF Owned, OwnQuery, Init, ClientInit, ServerInit
<1>5. Places
  BY OutcomesDiffer, ClientAssumption DEF Places, PlaceOf, Entry, Init, ClientInit
<1>6. QED
  BY <1>1, <1>3, <1>4, <1>5 DEF SInv

-----------------------------------------------------------------------------
(* The steps of a client: the server, the network and the histories stay.  *)

\* Messages keep their owners when nothing is sent and what is asked or evaluated grows.
LEMMA OwnedStays ==
  ASSUME Owned, Asked \subseteq Asked', evaluated' = evaluated, UNCHANGED <<network, queue, worker>>,
         \A c \in Clients : inbox'[c] \subseteq inbox[c],
         \A x \in Calls : replyChan'[x] \subseteq replyChan[x]
  PROVE  Owned'
<1>1. \A m : OwnQuery(m) => OwnQuery(m)'
  BY DEF OwnQuery
<1>2. \A m : OwnReply(m) => OwnReply(m)'
  BY DEF OwnReply
<1>3. QED
  BY <1>1, <1>2 DEF Owned

\* A call that is not touched keeps its place.
LEMMA PlaceStays ==
  ASSUME NEW y \in Calls, PlaceOf(y), call'[y] = call[y], outcome'[y] = outcome[y],
         replyChan'[y] = replyChan[y], \A c \in Clients : y \in waiting'[c] <=> y \in waiting[c]
  PROVE  PlaceOf(y)'
<1>1. ClientOf[y] \in Clients
  BY ClientAssumption
<1>2. QED
  BY <1>1 DEF PlaceOf, Entry

LEMMA MarkSInv ==
  ASSUME SInv, NEW x \in Calls, markWaitFor(x),
         UNCHANGED <<serverVars, netVars, evaluated, troubled>>
  PROVE  SInv'
<1> USE DEF SInv
<1>1. /\ call[x] = "new" /\ call' = [call EXCEPT ![x] = "marked"]
      /\ waiting' = [waiting EXCEPT ![ClientOf[x]] = @ \cup {x}]
      /\ UNCHANGED <<outcome, replyChan, inbox, connected>>
  BY DEF markWaitFor, Move
<1>2. ClientOf[x] \in Clients
  BY ClientAssumption
<1>3. ClientTypes'
  BY <1>1, <1>2 DEF ClientTypes
<1>4. ServerTypes'
  BY DEF ServerTypes, serverVars, netVars
<1>5. Asked' = Asked
  BY <1>1 DEF Asked, ClientTypes
<1>6. Owned'
  BY <1>1, <1>5, OwnedStays DEF serverVars, netVars
<1>7. Places'
  <2> SUFFICES ASSUME NEW y \in Calls PROVE PlaceOf(y)'
    BY DEF Places
  <2>1. PlaceOf(y) /\ PlaceOf(x)
    BY DEF Places
  <2>2. \A c \in Clients : waiting'[c] = IF c = ClientOf[x] THEN waiting[c] \cup {x} ELSE waiting[c]
    BY <1>1, <1>2 DEF ClientTypes
  <2>4. CASE y = x
    <3>1. call'[x] = "marked" /\ Entry(x)' /\ replyChan'[x] = {} /\ outcome'[x] = NoOutcome
      BY <1>1, <1>2, <2>1, <2>2 DEF PlaceOf, Entry, ClientTypes
    <3>2. \A c \in Clients : x \in waiting'[c] => c = ClientOf[x]
      BY <2>1, <2>2 DEF PlaceOf
    <3>3. QED
      BY <2>4, <3>1, <3>2 DEF PlaceOf
  <2>5. CASE y # x
    <3>1. call'[y] = call[y] /\ replyChan'[y] = replyChan[y] /\ outcome'[y] = outcome[y]
      BY <1>1, <2>5 DEF ClientTypes
    <3>2. \A c \in Clients : y \in waiting'[c] <=> y \in waiting[c]
      BY <2>2, <2>5
    <3>3. QED
      BY <2>1, <3>1, <3>2, PlaceStays
  <2>6. QED
    BY <2>4, <2>5
<1>8. QED
  BY <1>3, <1>4, <1>6, <1>7

\* A call is published or cannot be, or its timer fires.
LEMMA MoveSInv ==
  ASSUME SInv, NEW x \in Calls, NEW to \in {"waiting", "done"}, call[x] \in {"marked", "waiting"},
         call' = [call EXCEPT ![x] = to], UNCHANGED <<waiting, replyChan, inbox, connected>>,
         \/ to = "waiting" /\ call[x] = "marked" /\ outcome' = outcome
         \/ to = "done" /\ outcome' = [outcome EXCEPT ![x] = GaveUp]
  PROVE  ClientTypes' /\ Places' /\ Asked' = Asked \cup {x}
<1> USE DEF SInv
<1>1. GaveUp \in Outcomes
  BY DEF Outcomes
<1>2. ClientTypes'
  BY <1>1 DEF ClientTypes
<1>3. Asked' = Asked \cup {x}
  BY DEF Asked, ClientTypes
<1>4. Places'
  <2> SUFFICES ASSUME NEW y \in Calls PROVE PlaceOf(y)'
    BY DEF Places
  <2>1. PlaceOf(y) /\ PlaceOf(x)
    BY DEF Places
  <2>2. CASE y = x
    <3>1. call'[x] = to /\ outcome'[x] = IF to = "waiting" THEN NoOutcome ELSE GaveUp
      BY <2>1 DEF ClientTypes, PlaceOf
    <3>2. ClientOf[x] \in Clients
      BY ClientAssumption
    <3>3. Entry(x)' <=> Entry(x)
      BY DEF Entry
    <3>4. QED
      BY <2>1, <2>2, <3>1, <3>3, OutcomesDiffer DEF PlaceOf
  <2>3. CASE y # x
    <3>1. call'[y] = call[y] /\ outcome'[y] = outcome[y]
      BY <2>3 DEF ClientTypes
    <3>2. QED
      BY <2>1, <3>1, PlaceStays
  <2>4. QED
    BY <2>2, <2>3
<1>5. QED
  BY <1>2, <1>3, <1>4

LEMMA TimeoutSInv ==
  ASSUME SInv, NEW x \in Calls, Timeout(x),
         UNCHANGED <<serverVars, netVars, evaluated, troubled>>
  PROVE  SInv'
<1>1. /\ call[x] = "waiting" /\ call' = [call EXCEPT ![x] = "done"]
      /\ outcome' = [outcome EXCEPT ![x] = GaveUp]
      /\ UNCHANGED <<waiting, replyChan, inbox, connected>>
  BY DEF Timeout, Return, Move
<1>2. ClientTypes' /\ Places' /\ Asked' = Asked \cup {x}
  BY <1>1, MoveSInv
<1>3. ServerTypes'
  BY DEF SInv, ServerTypes, serverVars, netVars
<1>4. Owned'
  BY <1>1, <1>2, OwnedStays DEF SInv, serverVars, netVars
<1>5. QED
  BY <1>2, <1>3, <1>4 DEF SInv

\* A call finds something in the reply of its channel, for the reply is its own.
LEMMA TakeReplyFinds ==
  ASSUME SInv, NEW x \in Calls, TakeReply(x)
  PROVE  /\ call[x] = "waiting" /\ call' = [call EXCEPT ![x] = "done"]
         /\ x \in evaluated /\ replyChan[x] # {}
         /\ outcome' = [outcome EXCEPT ![x] = ResultOf(QueryOf[x])]
         /\ replyChan' = [replyChan EXCEPT ![x] = {}]
         /\ UNCHANGED <<waiting, inbox, connected>>
<1>1. PICK m \in replyChan[x] :
        /\ call[x] = "waiting"
        /\ replyChan' = [replyChan EXCEPT ![x] = {}]
        /\ IF Found(x, m) THEN Return(x, ResultOf(m.query)) ELSE UNCHANGED <<call, outcome>>
        /\ UNCHANGED <<waiting, inbox, connected>>
  BY DEF TakeReply
<1>2. m.nonce = x /\ x \in evaluated /\ m.query = QueryOf[x]
  BY DEF SInv, Owned
<1>3. m \in Replies
  BY DEF SInv, ClientTypes
<1>4. m.kinds \subseteq Kinds
  BY <1>3 DEF Replies
<1>5. Return(x, ResultOf(QueryOf[x]))
  BY <1>1, <1>2, <1>4 DEF Found, Nonce
<1>6. QED
  BY <1>1, <1>2, <1>5 DEF Return, Move

LEMMA TakeReplySInv ==
  ASSUME SInv, NEW x \in Calls, TakeReply(x),
         UNCHANGED <<serverVars, netVars, evaluated, troubled>>
  PROVE  SInv'
<1> USE DEF SInv
<1>1. /\ call[x] = "waiting" /\ call' = [call EXCEPT ![x] = "done"]
      /\ x \in evaluated /\ replyChan[x] # {}
      /\ outcome' = [outcome EXCEPT ![x] = ResultOf(QueryOf[x])]
      /\ replyChan' = [replyChan EXCEPT ![x] = {}]
      /\ UNCHANGED <<waiting, inbox, connected>>
  BY TakeReplyFinds
<1>2. ClientTypes'
  <2>1. ResultOf(QueryOf[x]) \in Outcomes
    BY DEF Outcomes
  <2>2. outcome' \in [Calls -> Outcomes]
    BY <1>1, <2>1 DEF ClientTypes
  <2>3. replyChan' \in [Calls -> SUBSET Replies] /\ call' \in [Calls -> {"new", "marked", "waiting", "done"}]
    BY <1>1 DEF ClientTypes
  <2>4. QED
    BY <1>1, <2>2, <2>3 DEF ClientTypes
<1>3. ServerTypes'
  BY DEF ServerTypes, serverVars, netVars
<1>4. Asked' = Asked
  BY <1>1 DEF Asked, ClientTypes
<1>5. \A y \in Calls : replyChan'[y] = IF y = x THEN {} ELSE replyChan[y]
  BY <1>1 DEF ClientTypes
<1>6. Owned'
  BY <1>1, <1>4, <1>5, OwnedStays DEF serverVars, netVars
<1>7. Places'
  <2> SUFFICES ASSUME NEW y \in Calls PROVE PlaceOf(y)'
    BY DEF Places
  <2>1. PlaceOf(y) /\ PlaceOf(x)
    BY DEF Places
  <2>2. CASE y = x
    <3>1. call'[x] = "done" /\ outcome'[x] = ResultOf(QueryOf[x])
      BY <1>1 DEF ClientTypes
    <3>2. ~Entry(x) /\ (Entry(x)' <=> Entry(x))
      BY <1>1, <2>1 DEF PlaceOf, Entry
    <3>3. QED
      BY <1>1, <1>5, <2>1, <2>2, <3>1, <3>2, OutcomesDiffer DEF PlaceOf
  <2>3. CASE y # x
    <3>1. call'[y] = call[y] /\ outcome'[y] = outcome[y]
      BY <1>1, <2>3 DEF ClientTypes
    <3>2. QED
      BY <1>1, <1>5, <2>1, <2>3, <3>1, PlaceStays
  <2>4. QED
    BY <2>2, <2>3
<1>8. QED
  BY <1>2, <1>3, <1>6, <1>7

\* The reply in hand belongs to the call it is sorted to, which was evaluated.
LEMMA ForIsOwn ==
  ASSUME SInv, NEW c \in Clients, NEW m \in inbox[c], NEW x \in For(c, m)
  PROVE  /\ x \in Calls /\ m.nonce = x /\ x \in evaluated /\ m.query = QueryOf[x] /\ m \in Replies
         /\ c = ClientOf[x] /\ Entry(x) /\ replyChan[x] = {} /\ call[x] \in {"waiting", "done"}
<1> USE DEF SInv
<1>1. x \in waiting[c] /\ m.nonce = x
  BY DEF For, Nonce
<1>2. x \in Calls /\ x # 0
  BY <1>1, ClientAssumption DEF ClientTypes
<1>3. x \in evaluated /\ m.query = QueryOf[x]
  BY <1>1, <1>2 DEF Owned, OwnReply
<1>4. call[x] \in {"waiting", "done"}
  BY <1>3 DEF Owned, Asked
<1>5. c = ClientOf[x] /\ Entry(x) /\ replyChan[x] = {}
  BY <1>1, <1>2 DEF Places, PlaceOf, Entry
<1>6. m \in Replies
  BY DEF ClientTypes
<1>7. QED
  BY <1>1, <1>2, <1>3, <1>4, <1>5, <1>6

LEMMA SortSInv ==
  ASSUME SInv, NEW c \in Clients, SortReply(c),
         UNCHANGED <<serverVars, netVars, evaluated, troubled>>
  PROVE  SInv'
<1> USE DEF SInv
<1>1. PICK m \in inbox[c] :
        /\ inbox' = [inbox EXCEPT ![c] = @ \ {m}]
        /\ \/ For(c, m) = {} /\ UNCHANGED <<waiting, replyChan>>
           \/ \E x \in For(c, m) :
                IF replyChan[x] = {}
                THEN replyChan' = [replyChan EXCEPT ![x] = {m}] /\ waiting' = Sorted(c, x)
                ELSE UNCHANGED <<waiting, replyChan>>
        /\ UNCHANGED <<call, outcome, connected>>
  BY DEF SortReply
<1>2. inbox' \in [Clients -> SUBSET Replies] /\ \A d \in Clients : inbox'[d] \subseteq inbox[d]
  BY <1>1 DEF ClientTypes
<1>3. Asked' = Asked
  BY <1>1 DEF Asked
<1>4. ServerTypes'
  BY DEF ServerTypes, serverVars, netVars
<1>5. ASSUME UNCHANGED <<waiting, replyChan>> PROVE SInv'
  <2>1. ClientTypes'
    BY <1>1, <1>2, <1>5 DEF ClientTypes
  <2>2. Owned'
    BY <1>2, <1>3, <1>5, OwnedStays DEF serverVars, netVars
  <2>3. Places'
    BY <1>1, <1>5, PlaceStays DEF Places
  <2>4. QED
    BY <1>4, <2>1, <2>2, <2>3
<1>6. ASSUME NEW x \in For(c, m), replyChan' = [replyChan EXCEPT ![x] = {m}], waiting' = Sorted(c, x)
      PROVE  SInv'
  <2>1. /\ x \in Calls /\ m.nonce = x /\ x \in evaluated /\ m.query = QueryOf[x] /\ m \in Replies
        /\ c = ClientOf[x] /\ Entry(x) /\ replyChan[x] = {} /\ call[x] \in {"waiting", "done"}
    BY ForIsOwn
  <2>2. \A y \in Calls : replyChan'[y] = IF y = x THEN {m} ELSE replyChan[y]
    BY <1>6, <2>1 DEF ClientTypes
  <2>3. \A d \in Clients : waiting'[d] = IF d = c THEN waiting[d] \ {x} ELSE waiting[d]
    BY <1>6 DEF Sorted, ClientTypes
  <2>4. ClientTypes'
    <3>1. replyChan' \in [Calls -> SUBSET Replies]
      BY <1>6, <2>1 DEF ClientTypes
    <3>2. waiting' \in [Clients -> SUBSET Calls]
      BY <1>6 DEF Sorted, ClientTypes
    <3>3. QED
      BY <1>1, <1>2, <3>1, <3>2 DEF ClientTypes
  <2>5. Owned'
    <3>1. \A y \in Calls : \A n \in replyChan'[y] : n.nonce = y /\ y \in evaluated /\ n.query = QueryOf[y]
      BY <2>1, <2>2 DEF Owned
    <3>2. \A n : (OwnQuery(n)' <=> OwnQuery(n)) /\ (OwnReply(n)' <=> OwnReply(n))
      BY <1>3 DEF OwnQuery, OwnReply
    <3>3. UNCHANGED <<network, queue, worker, evaluated>>
      BY DEF serverVars, netVars
    <3>4. QED
      BY <1>2, <1>3, <3>1, <3>2, <3>3 DEF Owned
  <2>6. Places'
    <3> SUFFICES ASSUME NEW y \in Calls PROVE PlaceOf(y)'
      BY DEF Places
    <3>1. PlaceOf(y) /\ PlaceOf(x)
      BY <2>1 DEF Places
    <3>2. CASE y = x
      <4>1. \A d \in Clients : x \notin waiting'[d]
        BY <2>1, <2>3, <3>1 DEF PlaceOf
      <4>2. ClientOf[x] \in Clients
        BY <2>1, ClientAssumption
      <4>3. ~Entry(x)' /\ replyChan'[x] = {m} /\ UNCHANGED <<call, outcome>>
        BY <1>1, <2>1, <2>2, <4>1, <4>2 DEF Entry
      <4>4. QED
        BY <2>1, <3>1, <3>2, <4>1, <4>3 DEF PlaceOf
    <3>3. CASE y # x
      <4>1. replyChan'[y] = replyChan[y] /\ \A d \in Clients : y \in waiting'[d] <=> y \in waiting[d]
        BY <2>2, <2>3, <3>3
      <4>2. QED
        BY <1>1, <3>1, <4>1, PlaceStays
    <3>4. QED
      BY <3>2, <3>3
  <2>7. QED
    BY <1>4, <2>4, <2>5, <2>6
<1>7. QED
  BY <1>1, <1>5, <1>6

LEMMA DisconnectSInv ==
  ASSUME SInv, NEW c \in Clients, Disconnect(c),
         UNCHANGED <<serverVars, netVars, evaluated, troubled>>
  PROVE  SInv'
<1>1. connected' \subseteq connected /\ UNCHANGED <<call, outcome, waiting, replyChan, inbox>>
  BY DEF Disconnect
<1>2. ClientTypes' /\ ServerTypes'
  BY <1>1 DEF SInv, ClientTypes, ServerTypes, serverVars, netVars
<1>3. Owned'
  <2>1. Asked' = Asked
    BY <1>1 DEF Asked
  <2>2. QED
    BY <1>1, <2>1, OwnedStays DEF SInv, serverVars, netVars
<1>4. Places'
  BY <1>1, PlaceStays DEF SInv, Places
<1>5. QED
  BY <1>2, <1>3, <1>4 DEF SInv

-----------------------------------------------------------------------------
(* The steps of the network and of the server.                             *)

LEMMA OneMoreLoss ==
  ASSUME losses \in 0..MaxLosses, NEW n \in Nat, losses + n <= MaxLosses
  PROVE  losses + n \in 0..MaxLosses
<1>1. MaxLosses \in Nat
  BY NetworkAssumption
<1>2. QED
  BY <1>1

\* A published query is of its own call.
LEMMA AskSInv ==
  ASSUME SInv, NEW x \in Calls, Ask(x)
  PROVE  SInv'
<1> USE DEF SInv
<1>1. CASE Publish(x) /\ network' = network \cup {Query(VKOf[ClientOf[x]], Nonce(x), QueryOf[x])} /\ losses' = losses
  <2> DEFINE q == Query(VKOf[ClientOf[x]], Nonce(x), QueryOf[x])
  <2>1. /\ call[x] = "marked" /\ call' = [call EXCEPT ![x] = "waiting"]
        /\ UNCHANGED <<outcome, waiting, replyChan, inbox, connected>>
    BY <1>1 DEF Publish, Move
  <2>2. ClientTypes' /\ Places' /\ Asked' = Asked \cup {x}
    BY <2>1, MoveSInv
  <2>3. VKOf[ClientOf[x]] \in STRING /\ x \in Nat /\ QueryOf[x] \in Queries
    BY ClientAssumption, NetworkAssumption
  <2>4. q \in Messages /\ q.nonce = x /\ q.query = QueryOf[x]
    BY <2>3 DEF Query, Nonce, Messages
  <2>5. UNCHANGED <<up, queue, worker, stops, evaluated, troubled, losses>>
    BY <1>1 DEF Ask, serverVars
  <2>6. network' = network \cup {q}
    BY <1>1
  <2> HIDE DEF q
  <2>7. ServerTypes'
    BY <2>4, <2>5, <2>6 DEF ServerTypes
  <2>8. Owned'
    <3>1. \A m : OwnQuery(m) => OwnQuery(m)'
      BY <2>2 DEF OwnQuery
    <3>2. \A m : OwnReply(m) => OwnReply(m)'
      BY <2>5 DEF OwnReply
    <3>3. OwnQuery(q)'
      BY <2>2, <2>4 DEF OwnQuery
    <3>4. QED
      BY <2>1, <2>2, <2>5, <2>6, <3>1, <3>2, <3>3 DEF Owned
  <2>9. QED
    BY <2>2, <2>7, <2>8
<1>2. CASE PublishFails(x) /\ losses < MaxLosses /\ losses' = losses + 1 /\ network' = network
  <2>1. /\ call[x] = "marked" /\ call' = [call EXCEPT ![x] = "done"]
        /\ outcome' = [outcome EXCEPT ![x] = GaveUp]
        /\ UNCHANGED <<waiting, replyChan, inbox, connected>>
    BY <1>2 DEF PublishFails, Move
  <2>2. ClientTypes' /\ Places' /\ Asked' = Asked \cup {x}
    BY <2>1, MoveSInv
  <2>3. UNCHANGED <<up, queue, worker, stops, evaluated, troubled, network>>
    BY <1>2 DEF Ask, serverVars
  <2>4. losses' \in 0..MaxLosses
    <3>1. losses \in 0..MaxLosses /\ MaxLosses \in Nat
      BY NetworkAssumption DEF ServerTypes
    <3>2. losses + 1 <= MaxLosses
      BY <1>2, <3>1
    <3>3. QED
      BY <1>2, <3>1, <3>2, OneMoreLoss
  <2>5. ServerTypes'
    BY <2>3, <2>4 DEF ServerTypes
  <2>6. Owned'
    BY <2>1, <2>2, <2>3, OwnedStays
  <2>7. QED
    BY <2>2, <2>5, <2>6
<1>3. QED
  BY <1>1, <1>2 DEF Ask

\* What concerns clients only stays when clients do nothing.
LEMMA ClientStays ==
  ASSUME ClientTypes, Places, UNCHANGED <<call, outcome, waiting, replyChan, inbox, connected>>
  PROVE  ClientTypes' /\ Places' /\ Asked' = Asked
<1>1. ClientTypes' /\ Asked' = Asked
  BY DEF ClientTypes, Asked
<1>2. Places'
  BY PlaceStays DEF Places
<1>3. QED
  BY <1>1, <1>2

\* Queries in the archiver come from those that were under way.
LEMMA OwnedMoves ==
  ASSUME Owned, UNCHANGED <<call, outcome, waiting, replyChan, inbox, connected, evaluated>>,
         network' \subseteq network, \A m \in queue' : m \in queue \/ m \in network,
         \A w \in Workers : worker'[w] = worker[w] \/ worker'[w] = Idle \/ OwnQuery(worker'[w])
  PROVE  Owned'
<1>1. Asked' = Asked
  BY DEF Asked
<1>2. \A m : (OwnQuery(m)' <=> OwnQuery(m)) /\ (OwnReply(m)' <=> OwnReply(m))
  BY <1>1 DEF OwnQuery, OwnReply
<1>3. \A w \in Workers : worker'[w] = Idle \/ OwnQuery(worker'[w])
  BY DEF Owned
<1>4. QED
  BY <1>1, <1>2, <1>3 DEF Owned

LEMMA DeliverSInv ==
  ASSUME SInv, NEW m \in network, Deliver(m)
  PROVE  SInv'
<1> USE DEF SInv
<1>1. /\ UNCHANGED <<call, outcome, waiting, replyChan, inbox, connected, evaluated>>
      /\ network' = network \ {m} /\ UNCHANGED <<up, worker, stops>>
  BY DEF Deliver, clientVars, Arrive, serverVars
<1>2. \A n \in queue' : n \in queue \/ n = m
  BY DEF Deliver, Arrive, serverVars
<1>3. losses' \in 0..MaxLosses
  <2>1. CASE losses' = losses
    BY <2>1 DEF ServerTypes
  <2>2. CASE losses < MaxLosses /\ losses' = losses + 1
    <3>1. losses \in 0..MaxLosses /\ MaxLosses \in Nat
      BY NetworkAssumption DEF ServerTypes
    <3>2. losses + 1 <= MaxLosses
      BY <2>2, <3>1
    <3>3. QED
      BY <2>2, <3>1, <3>2, OneMoreLoss
  <2>3. QED
    BY <2>1, <2>2 DEF Deliver
<1>4. troubled' \subseteq Calls
  BY CallsOfType DEF Deliver, ServerTypes
<1>5. ClientTypes' /\ Places'
  BY <1>1, ClientStays
<1>6. ServerTypes'
  BY <1>1, <1>2, <1>3, <1>4 DEF ServerTypes
<1>7. Owned'
  BY <1>1, <1>2, OwnedMoves
<1>8. QED
  BY <1>5, <1>6, <1>7

\* What a worker makes of a message has the owner the message has, or none.
LEMMA ReceivedOwn ==
  ASSUME NEW m \in Messages, OwnQuery(m), ~Dropped(m)
  PROVE  /\ Received(m) \in Messages /\ OwnQuery(Received(m))
         /\ Received(m).form \in {"query", "not msgpack"}
<1>1. CASE m.form = "not msgpack"
  <2>1. Received(m) = [m EXCEPT !.query = NoQuery, !.nonce = 0]
    BY <1>1 DEF Received
  <2>2. NoQuery \in Queries
    BY ServerAssumption
  <2>3. Received(m) \in Messages /\ Received(m).nonce = 0 /\ Received(m).form = "not msgpack"
    <3>1. [m EXCEPT !.query = NoQuery] \in Messages /\ [m EXCEPT !.query = NoQuery].form = "not msgpack"
      BY <1>1, <2>2 DEF Messages
    <3>2. ASSUME NEW n \in Messages, n.form = "not msgpack"
          PROVE  LET r == [n EXCEPT !.nonce = 0] IN r \in Messages /\ r.nonce = 0 /\ r.form = "not msgpack"
      BY <3>2 DEF Messages
    <3>3. Received(m) = [[m EXCEPT !.query = NoQuery] EXCEPT !.nonce = 0]
      BY <2>1
    <3>4. QED
      BY <3>1, <3>2, <3>3
  <2>4. QED
    BY <2>3 DEF OwnQuery
<1>2. CASE m.form # "not msgpack"
  <2>1. Received(m) = m
    BY <1>2 DEF Received
  <2>2. m.form \in {"query", "not msgpack"}
    BY DEF Dropped, Messages
  <2>3. QED
    BY <2>1, <2>2
<1>3. QED
  BY <1>1, <1>2

LEMMA TakeSInv ==
  ASSUME SInv, NEW w \in Workers, Take(w), UNCHANGED <<clientVars, netVars, evaluated, troubled>>
  PROVE  SInv'
<1> USE DEF SInv
<1>1. PICK m \in queue :
        /\ queue' = queue \ {m}
        /\ worker' = IF Dropped(m) THEN worker ELSE [worker EXCEPT ![w] = Received(m)]
        /\ UNCHANGED <<up, stops>>
  BY DEF Take
<1>2. m \in Messages /\ OwnQuery(m)
  BY DEF ServerTypes, Owned
<1>3. UNCHANGED <<call, outcome, waiting, replyChan, inbox, connected, evaluated, troubled, network, losses>>
  BY DEF clientVars, netVars
<1>4. ClientTypes' /\ Places'
  BY <1>3, ClientStays
<1>5. /\ worker' \in [Workers -> Messages \cup {Idle}]
      /\ \A v \in Workers : worker'[v] = Idle \/ worker'[v].form \in {"query", "not msgpack"}
      /\ \A v \in Workers : worker'[v] = worker[v] \/ OwnQuery(worker'[v])
  <2>1. CASE Dropped(m)
    BY <1>1, <2>1 DEF ServerTypes
  <2>2. CASE ~Dropped(m)
    <3> DEFINE r == Received(m)
    <3>1. r \in Messages /\ OwnQuery(r) /\ r.form \in {"query", "not msgpack"}
      BY <1>2, <2>2, ReceivedOwn
    <3>2. worker' = [worker EXCEPT ![w] = r]
      BY <1>1, <2>2
    <3> HIDE DEF r
    <3>3. QED
      BY <3>1, <3>2 DEF ServerTypes
  <2>3. QED
    BY <2>1, <2>2
<1>6. ServerTypes'
  BY <1>1, <1>3, <1>5 DEF ServerTypes
<1>7. Owned'
  BY <1>1, <1>3, <1>5, OwnedMoves
<1>8. QED
  BY <1>4, <1>6, <1>7

LEMMA StopSInv ==
  ASSUME SInv, Stop, troubled' = troubled \cup UNION {CallsOf(m) : m \in InArchiver},
         UNCHANGED <<clientVars, netVars, evaluated>>
  PROVE  SInv'
<1> USE DEF SInv
<1>1. UNCHANGED <<call, outcome, waiting, replyChan, inbox, connected, evaluated, network, losses>>
  BY DEF clientVars, netVars
<1>2. ClientTypes' /\ Places'
  BY <1>1, ClientStays
<1>3. /\ stops < MaxStops /\ stops' = stops + 1 /\ up' = "down" /\ queue' = {}
      /\ worker' = [v \in Workers |-> Idle]
  BY DEF Stop
<1>4. stops' \in 0..MaxStops
  <2>1. stops \in 0..MaxStops /\ MaxStops \in Nat
    BY ServerAssumption DEF ServerTypes
  <2>2. QED
    BY <1>3, <2>1
<1>5. troubled' \subseteq Calls
  BY CallsOfType DEF ServerTypes
<1>6. ServerTypes'
  BY <1>1, <1>3, <1>4, <1>5 DEF ServerTypes
<1>7. Owned'
  BY <1>1, <1>3, OwnedMoves
<1>8. QED
  BY <1>2, <1>6, <1>7

LEMMA RestartSInv ==
  ASSUME SInv, Restart, UNCHANGED <<clientVars, netVars, evaluated, troubled>>
  PROVE  SInv'
<1> USE DEF SInv
<1>1. /\ UNCHANGED <<call, outcome, waiting, replyChan, inbox, connected, evaluated, troubled>>
      /\ UNCHANGED <<network, losses, queue, worker, stops>>
      /\ up' \in {"serving", "deaf"}
  BY DEF clientVars, netVars, Restart
<1>2. ClientTypes' /\ Places'
  BY <1>1, ClientStays
<1>3. ServerTypes'
  BY <1>1 DEF ServerTypes
<1>4. Owned'
  BY <1>1, OwnedMoves
<1>5. QED
  BY <1>2, <1>3, <1>4

\* A reply is of the call whose query it answers, which is evaluated by then.
LEMMA ReplyOwn ==
  ASSUME NEW m \in Messages, OwnQuery(m), evaluated' = evaluated \cup CallsOf(m), Asked' = Asked
  PROVE  ReplyTo(m) \in Replies /\ OwnReply(ReplyTo(m))' /\ CallsOf(m) \subseteq Asked
<1> DEFINE k == IF KindOf[m.query] = "nothing" THEN "metadata" ELSE KindOf[m.query]
<1>1. m.query \in Queries /\ m.nonce \in Nat
  BY DEF Messages
<1>2. k \in Kinds
  BY <1>1, ServerAssumption DEF Kinds
<1>3. ReplyTo(m) = [nonce |-> m.nonce, query |-> m.query, kinds |-> {k}]
  BY DEF ReplyTo
<1> HIDE DEF k
<1>4. {k} \in SUBSET Kinds
  BY <1>2
<1>5. ReplyTo(m) \in Replies
  BY <1>1, <1>3, <1>4 DEF Replies
<1>6. CallsOf(m) \subseteq Asked
  <2> SUFFICES ASSUME NEW x \in CallsOf(m) PROVE x \in Asked
    OBVIOUS
  <2>1. x \in Calls /\ x = m.nonce /\ x # 0
    BY ClientAssumption DEF CallsOf, Nonce
  <2>2. QED
    BY <2>1 DEF OwnQuery
<1>7. OwnReply(ReplyTo(m))'
  <2>1. ASSUME m.nonce # 0 PROVE m.nonce \in CallsOf(m) /\ m.query = QueryOf[m.nonce]
    BY <2>1 DEF OwnQuery, CallsOf, Nonce, Asked
  <2>2. QED
    BY <1>3, <2>1 DEF OwnReply
<1>8. QED
  BY <1>5, <1>6, <1>7

LEMMA ReplySInv ==
  ASSUME SInv, NEW w \in Workers, Reply(w)
  PROVE  SInv'
<1> USE DEF SInv
<1>0. PICK m \in Messages : m = worker[w] /\ OwnQuery(m)
  BY DEF Reply, Replied, ServerTypes, Owned
<1> DEFINE r == ReplyTo(m)
<1>1. worker' = [worker EXCEPT ![w] = Idle] /\ UNCHANGED <<up, queue, stops>>
  BY DEF Reply, Replied
<1>2. PICK lost \in SUBSET Audience(m) :
        /\ losses + Cardinality(lost) <= MaxLosses /\ losses' = losses + Cardinality(lost)
        /\ inbox' = [c \in Clients |-> IF c \in Audience(m) \ lost THEN inbox[c] \cup {r} ELSE inbox[c]]
        /\ troubled' = troubled \cup {x \in CallsOf(m) : ClientOf[x] \notin Audience(m) \ lost}
  BY <1>0 DEF Reply
<1>3. /\ evaluated' = evaluated \cup CallsOf(m)
      /\ UNCHANGED <<call, outcome, waiting, replyChan, connected, network>>
  BY <1>0 DEF Reply
<1>5. Asked' = Asked
  BY <1>3 DEF Asked
<1>6. r \in Replies /\ OwnReply(r)' /\ CallsOf(m) \subseteq Asked
  BY <1>0, <1>3, <1>5, ReplyOwn
<1>7. losses' \in 0..MaxLosses
  <2>1. lost \subseteq Clients
    BY DEF Audience, ClientTypes
  <2>2. Cardinality(lost) \in Nat
    BY <2>1, NetworkAssumption, FS_Subset, FS_CardinalityType
  <2>3. QED
    BY <1>2, <2>2, OneMoreLoss DEF ServerTypes
<1>8. CallsOf(m) \subseteq Calls
  BY CallsOfType
<1> HIDE DEF r
<1>9. inbox' \in [Clients -> SUBSET Replies]
  BY <1>2, <1>6 DEF ClientTypes
<1>10. ClientTypes'
  BY <1>3, <1>9 DEF ClientTypes
<1>11. ServerTypes'
  <2>1. /\ worker' \in [Workers -> Messages \cup {Idle}]
        /\ \A v \in Workers : worker'[v] = Idle \/ worker'[v].form \in {"query", "not msgpack"}
    BY <1>1 DEF ServerTypes
  <2>2. evaluated' \subseteq Calls /\ troubled' \subseteq Calls
    BY <1>2, <1>3, <1>8 DEF ServerTypes
  <2>3. QED
    BY <1>1, <1>3, <1>7, <2>1, <2>2 DEF ServerTypes
<1>12. Owned'
  <2>1. \A n : OwnQuery(n)' <=> OwnQuery(n)
    BY <1>5 DEF OwnQuery
  <2>2. \A n : OwnReply(n) => OwnReply(n)'
    BY <1>3 DEF OwnReply
  <2>3. \A c \in Clients : \A n \in inbox'[c] : OwnReply(n)'
    BY <1>2, <1>6, <2>2 DEF Owned
  <2>4. \A v \in Workers : worker'[v] = Idle \/ OwnQuery(worker'[v])
    BY <1>1 DEF Owned, ServerTypes
  <2>5. evaluated' \subseteq Asked'
    BY <1>3, <1>5, <1>6 DEF Owned
  <2>6. \A x \in Calls : \A n \in replyChan'[x] : n.nonce = x /\ x \in evaluated' /\ n.query = QueryOf[x]
    BY <1>3 DEF Owned
  <2>7. (\A n \in network' : OwnQuery(n)') /\ (\A n \in queue' : OwnQuery(n)')
    BY <1>1, <1>3, <2>1 DEF Owned
  <2>8. QED
    BY <2>1, <2>3, <2>4, <2>5, <2>6, <2>7 DEF Owned
<1>13. Places'
  BY <1>3, PlaceStays DEF Places
<1>14. QED
  BY <1>10, <1>11, <1>12, <1>13

-----------------------------------------------------------------------------
(* The invariants.                                                         *)

LEMMA ClientSInv ==
  ASSUME SInv, Client, UNCHANGED <<serverVars, netVars, evaluated, troubled>>
  PROVE  SInv'
BY MarkSInv, TimeoutSInv, TakeReplySInv, SortSInv, DisconnectSInv DEF Client

LEMMA ServerSInv ==
  ASSUME SInv, Server, UNCHANGED <<clientVars, netVars, evaluated>>
  PROVE  SInv'
BY TakeSInv, StopSInv, RestartSInv DEF Server

LEMMA StutterSInv ==
  ASSUME SInv, UNCHANGED vars
  PROVE  SInv'
<1>1. /\ UNCHANGED <<call, outcome, waiting, replyChan, inbox, connected, evaluated, troubled>>
      /\ UNCHANGED <<network, losses, queue, worker, stops, up>>
  BY DEF vars, clientVars, serverVars, netVars
<1>2. ClientTypes' /\ Places'
  BY <1>1, ClientStays DEF SInv
<1>3. ServerTypes'
  BY <1>1 DEF SInv, ServerTypes
<1>4. Owned'
  BY <1>1, OwnedMoves DEF SInv
<1>5. QED
  BY <1>2, <1>3, <1>4 DEF SInv

LEMMA NextSInv == SInv /\ [Next]_vars => SInv'
BY AskSInv, DeliverSInv, ReplySInv, ClientSInv, ServerSInv, StutterSInv DEF Next

LEMMA SInvAlways == Spec => []SInv
BY InitSInv, NextSInv, PTL DEF Spec

\* For any clients, calls, workers and messages of others: every variable keeps its type,
\* a channel never holds two replies, and a busy worker has something to evaluate.
THEOREM TypeCorrect == Spec => []ServiceTypeOK
<1>1. ASSUME SInv PROVE ServiceTypeOK
  <2> USE <1>1 DEF SInv
  <2>1. ASSUME NEW x \in Calls PROVE Cardinality(replyChan[x]) <= 1
    <3>1. \A m, n \in replyChan[x] : m = n
      BY DEF Places, PlaceOf
    <3>2. CASE replyChan[x] = {}
      BY <3>2, FS_EmptySet
    <3>3. CASE replyChan[x] # {}
      <4>1. PICK m : replyChan[x] = {m}
        BY <3>1, <3>3
      <4>2. Cardinality({m}) = 1
        BY FS_Singleton
      <4>3. QED
        BY <4>1, <4>2
    <3>4. QED
      BY <3>2, <3>3
  <2>2. ASSUME NEW x \in Calls, NEW m \in replyChan[x] PROVE m.kinds \subseteq Kinds
    BY DEF ClientTypes, Replies
  <2>3. ASSUME NEW c \in Clients, NEW m \in inbox[c] PROVE m.kinds \subseteq Kinds
    BY DEF ClientTypes, Replies
  <2>4. outcome \in [Calls -> {NoOutcome, GaveUp} \cup {ResultOf(QueryOf[x]) : x \in Calls}]
    BY DEF ClientTypes, Outcomes
  <2>5. QED
    BY <2>1, <2>2, <2>3, <2>4 DEF ServiceTypeOK, ClientTypes, ServerTypes
<1>2. QED
  BY <1>1, SInvAlways, PTL

\* However replies, timers and clients with one VK interleave, a call that waits has
\* either its entry or its reply, and one that has its result has no entry left.
THEOREM Accounted == Spec => []WaitingAccounted
<1>1. ASSUME SInv PROVE WaitingAccounted
  <2> SUFFICES ASSUME NEW x \in Calls
      PROVE  /\ call[x] = "waiting" => (Entry(x) <=> replyChan[x] = {})
             /\ Entry(x) => call[x] # "new" /\ replyChan[x] = {}
             /\ outcome[x] \notin {NoOutcome, GaveUp} => ~Entry(x)
             /\ \A c \in Clients \ {ClientOf[x]} : x \notin waiting[c]
    BY DEF WaitingAccounted, Entry
  <2>1. QED
    BY <1>1 DEF SInv, Places, PlaceOf
<1>2. QED
  BY <1>1, SInvAlways, PTL

-----------------------------------------------------------------------------
(* Refinement.                                                             *)

\* The abstract service sees a call from the time it is marked.
CalledBy == {x \in Calls : call[x] # "new"}

\* A step that is seen neither in what is asked, nor evaluated, nor returned.
LEMMA Unseen ==
  ASSUME call' = call, evaluated' = evaluated, outcome' = outcome
  PROVE  UNCHANGED <<CalledBy, evaluated, outcome>>
BY DEF CalledBy

LEMMA GiveUpStep ==
  ASSUME SInv, NEW x \in Calls, call[x] \in {"marked", "waiting"}, call' = [call EXCEPT ![x] = "done"],
         outcome' = [outcome EXCEPT ![x] = GaveUp], evaluated' = evaluated
  PROVE  R!GiveUp(x)
<1>1. call[x] # "new" /\ CalledBy' = CalledBy
  BY DEF CalledBy, SInv, ClientTypes
<1>2. outcome[x] = NoOutcome
  BY DEF SInv, Places, PlaceOf
<1>3. QED
  BY <1>1, <1>2 DEF R!GiveUp, R!NoOutcome, R!GaveUp, NoOutcome, GaveUp, CalledBy

LEMMA ClientStep ==
  ASSUME SInv, Client, evaluated' = evaluated
  PROVE  R!Next \/ UNCHANGED <<CalledBy, evaluated, outcome>>
<1>1. ASSUME NEW x \in Calls, markWaitFor(x) PROVE R!Ask(x)
  <2>1. call[x] = "new" /\ call' = [call EXCEPT ![x] = "marked"] /\ outcome' = outcome
    BY <1>1 DEF markWaitFor, Move
  <2>2. x \notin CalledBy /\ CalledBy' = CalledBy \cup {x}
    BY <2>1 DEF CalledBy, SInv, ClientTypes
  <2>3. QED
    <3>1. UNCHANGED <<evaluated, outcome>>
      BY <2>1
    <3>2. QED
      BY <2>2, <3>1, Zenon DEF R!Ask, CalledBy
<1>2. ASSUME NEW x \in Calls, Timeout(x) PROVE R!GiveUp(x)
  <2>1. /\ call[x] = "waiting" /\ call' = [call EXCEPT ![x] = "done"]
        /\ outcome' = [outcome EXCEPT ![x] = GaveUp]
    BY <1>2 DEF Timeout, Return, Move
  <2>2. QED
    BY <2>1, GiveUpStep
<1>3. ASSUME NEW x \in Calls, TakeReply(x) PROVE R!Answer(x)
  <2>1. /\ call[x] = "waiting" /\ call' = [call EXCEPT ![x] = "done"] /\ x \in evaluated
        /\ outcome' = [outcome EXCEPT ![x] = ResultOf(QueryOf[x])]
    BY <1>3, TakeReplyFinds
  <2>2. CalledBy' = CalledBy
    BY <2>1 DEF CalledBy, SInv, ClientTypes
  <2>3. outcome[x] = NoOutcome
    BY <2>1 DEF SInv, Places, PlaceOf
  <2>4. QED
    BY <2>1, <2>2, <2>3 DEF R!Answer, R!NoOutcome, R!ResultOf, NoOutcome, ResultOf, CalledBy
<1>4. ASSUME NEW c \in Clients, SortReply(c) \/ Disconnect(c)
      PROVE  UNCHANGED <<CalledBy, evaluated, outcome>>
  BY <1>4, Unseen DEF SortReply, Disconnect
<1>5. QED
  BY <1>1, <1>2, <1>3, <1>4 DEF Client, R!Next

LEMMA AskStep ==
  ASSUME SInv, NEW x \in Calls, Ask(x)
  PROVE  R!Next \/ UNCHANGED <<CalledBy, evaluated, outcome>>
<1>1. CASE Publish(x)
  <2>1. call[x] = "marked" /\ call' = [call EXCEPT ![x] = "waiting"] /\ outcome' = outcome
    BY <1>1 DEF Publish, Move
  <2>2. CalledBy' = CalledBy
    BY <2>1 DEF CalledBy, SInv, ClientTypes
  <2>3. QED
    BY <2>1, <2>2 DEF Ask
<1>2. CASE PublishFails(x)
  <2>1. /\ call[x] = "marked" /\ call' = [call EXCEPT ![x] = "done"]
        /\ outcome' = [outcome EXCEPT ![x] = GaveUp] /\ evaluated' = evaluated
    BY <1>2 DEF PublishFails, Move, Ask
  <2>2. R!GiveUp(x)
    BY <2>1, GiveUpStep
  <2>3. QED
    BY <2>2 DEF R!Next
<1>3. QED
  BY <1>1, <1>2 DEF Ask

\* A worker that replies has evaluated at most one call, which was asked.
LEMMA ReplyStep ==
  ASSUME SInv, NEW w \in Workers, Reply(w)
  PROVE  R!Next \/ UNCHANGED <<CalledBy, evaluated, outcome>>
<1>1. PICK m \in Messages : m = worker[w] /\ OwnQuery(m)
  BY DEF Reply, Replied, SInv, ServerTypes, Owned
<1>2. evaluated' = evaluated \cup CallsOf(m) /\ UNCHANGED <<call, outcome>>
  BY <1>1 DEF Reply
<1>3. CalledBy' = CalledBy
  BY <1>2 DEF CalledBy
<1>4. CASE CallsOf(m) = {}
  BY <1>2, <1>3, <1>4
<1>5. CASE CallsOf(m) # {}
  <2>1. PICK x \in Calls : CallsOf(m) = {x}
    BY <1>5, CallsOfType
  <2>2. Asked' = Asked
    BY <1>2 DEF Asked
  <2>3. x \in CalledBy
    BY <1>1, <1>2, <2>1, <2>2, ReplyOwn DEF Asked, CalledBy
  <2>4. R!Evaluate(x)
    BY <1>2, <1>3, <2>1, <2>3 DEF R!Evaluate, CalledBy
  <2>5. QED
    BY <2>4 DEF R!Next
<1>6. QED
  BY <1>4, <1>5

LEMMA RefinementStep ==
  ASSUME SInv, [Next]_vars
  PROVE  R!Next \/ UNCHANGED <<CalledBy, evaluated, outcome>>
<1>1. ASSUME NEW m \in network, Deliver(m) PROVE UNCHANGED <<CalledBy, evaluated, outcome>>
  BY <1>1, Unseen DEF Deliver, clientVars
<1>2. CASE Server /\ UNCHANGED <<clientVars, netVars, evaluated>>
  BY <1>2, Unseen DEF clientVars
<1>3. CASE UNCHANGED vars
  BY <1>3, Unseen DEF vars, clientVars
<1>4. QED
  BY <1>1, <1>2, <1>3, ClientStep, AskStep, ReplyStep DEF Next

\* The clients, the network and the server implement the abstract service: one end of
\* each call, which is the result of its own query, evaluated after it was asked, or none.
THEOREM Implements == Spec => ImplementsRpc
<1>1. Init => R!Init
  BY DEF Init, ClientInit, R!Init, R!NoOutcome, NoOutcome
<1>2. SInv /\ [Next]_vars => [R!Next]_<<CalledBy, evaluated, outcome>>
  BY RefinementStep
<1>3. QED
  BY <1>1, <1>2, SInvAlways, PTL DEF Spec, ImplementsRpc, R!Spec, CalledBy
=============================================================================
