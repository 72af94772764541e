----------------------------- MODULE ViewProofs -----------------------------
(* Theorems about ViewManager and the muxes it is composed with, for every  *)
(* set of URIs, namespaces and posts, and every capacity and bound.         *)
EXTENDS ViewManager, SequenceTheorems, FiniteSetTheorems, TLAPS

-----------------------------------------------------------------------------
(* Type correctness.                                                       *)

LEMMA InitTypeOK == Init => TypeOK
<1> SUFFICES ASSUME Init PROVE TypeOK
  OBVIOUS
<1>1. MuxTypeOK
  BY CapAssumption, EmptySeq DEF Init, MuxInit, MuxTypeOK
<1>2. ViewTypeOK
  <2>1. /\ <<>> \in Seq(Posts) /\ <<>> \in Seq(Request) /\ <<>> \in Seq(URIs)
        /\ Len(<<>>) = 0
    BY EmptySeq
  <2>2. topic \in [Namespaces -> Seq(Posts)] /\ nspc \in [Namespaces -> {"start"}]
    BY <2>1 DEF Init
  <2>3. /\ Len(incoming) <= IncomingCap /\ Len(streams) <= MaxStreams
    BY <2>1, MuxBoundAssumption, ViewBoundAssumption DEF Init
  <2>4. listeners \in [Namespaces -> Nat] /\ \A f \in {calls, good, refused} : f \in [URIs -> Nat]
    BY DEF Init
  <2>5. QED
    BY <2>1, <2>2, <2>3, <2>4 DEF Init, ViewTypeOK
<1>3. QED
  BY <1>1, <1>2 DEF TypeOK

\* The steps of a mux, of a publisher and of a stream's reader keep the types.
LEMMA MuxStepTypeOK ==
  ASSUME MuxTypeOK, NEW u \in URIs, Publish(u) \/ MuxStep(u)
  PROVE  MuxTypeOK'
<1> USE DEF MuxTypeOK
<1>1. CASE Publish(u)
  BY <1>1 DEF Publish
<1>2. CASE Take(u)
  BY <1>2 DEF Take
<1>3. ASSUME NEW s \in Streams, Send(u, s) PROVE MuxTypeOK'
  <2>1. /\ buf' = [buf EXCEPT ![s] = Append(@, at[u])] /\ Len(buf[s]) < BufferCap
        /\ pending' = [pending EXCEPT ![u] = @ \ {s}]
        /\ UNCHANGED <<data, at, receivers, done, joined>>
    BY <1>3 DEF Send
  <2>2. Append(buf[s], at[u]) \in Seq(Nat) /\ Len(Append(buf[s], at[u])) = Len(buf[s]) + 1
    BY AppendProperties
  <2>3. \A t \in Streams : buf'[t] = IF t = s THEN Append(buf[s], at[u]) ELSE buf[t]
    BY <2>1
  <2>4. Len(buf[s]) \in Nat /\ BufferCap \in Nat
    BY CapAssumption, LenProperties
  <2>5. \A t \in Streams : Len(buf'[t]) <= BufferCap
    BY <2>1, <2>2, <2>3, <2>4
  <2>6. buf' \in [Streams -> Seq(Nat)]
    BY <2>1, <2>2
  <2>7. QED
    BY <2>1, <2>5, <2>6
<1>4. QED
  BY <1>1, <1>2, <1>3 DEF MuxStep

LEMMA ConsumeTypeOK ==
  ASSUME MuxTypeOK, NEW s \in Streams, Consume(s)
  PROVE  MuxTypeOK'
<1> USE DEF MuxTypeOK
<1>1. /\ buf[s] # <<>> /\ buf' = [buf EXCEPT ![s] = Tail(@)]
      /\ done' = [done EXCEPT ![s] = @ + 1]
      /\ UNCHANGED <<data, at, pending, receivers, joined>>
  BY DEF Consume
<1>2. Tail(buf[s]) \in Seq(Nat) /\ Len(Tail(buf[s])) = Len(buf[s]) - 1 /\ Len(buf[s]) \in Nat
  BY <1>1, HeadTailProperties, LenProperties
<1>3. \A t \in Streams : Len(buf'[t]) <= BufferCap
  BY <1>1, <1>2, CapAssumption
<1>4. QED
  BY <1>1, <1>2, <1>3

LEMMA AddTypeOK ==
  ASSUME MuxTypeOK, NEW u \in URIs, NEW s \in Streams, Add(u, s)
  PROVE  MuxTypeOK'
BY DEF MuxTypeOK, Add

\* How many good requests for a URI are in a sequence of requests is a number.
LEMMA ForType ==
  ASSUME NEW u, NEW q \in Seq(Request)
  PROVE  For(u, q) \in Nat
<1>1. DOMAIN q = 1..Len(q) /\ Len(q) \in Nat
  BY LenProperties
<1>2. IsFiniteSet(DOMAIN q)
  BY <1>1, FS_Interval
<1>3. IsFiniteSet({i \in DOMAIN q : q[i].kind = "good" /\ q[i].uri = u})
  BY <1>2, FS_Subset
<1>4. QED
  BY <1>3, FS_CardinalityType DEF For

\* The steps of a namespace and of those who post to it keep the types.
LEMMA NamespaceTypeOK ==
  ASSUME ViewTypeOK, NEW n \in Namespaces,
         Namespace(n) \/ \E p \in Posts : Post(n, p)
  PROVE  ViewTypeOK'
<1> USE DEF ViewTypeOK
<1>1. CASE Connect(n)
  BY <1>1 DEF Connect
<1>2. CASE Resolve(n)
  BY <1>2 DEF Resolve
<1>3. CASE Forward(n)
  <2>1. /\ topic[n] # <<>> /\ Len(incoming) < IncomingCap
        /\ incoming' = Append(incoming, Head(topic[n]))
        /\ topic' = [topic EXCEPT ![n] = Tail(@)]
        /\ UNCHANGED <<nspc, hpc, todo, locked, muxed, subscribed, streams, posted,
                       listeners, calls, good, refused>>
    BY <1>3 DEF Forward, IncomingRoom
  <2>2. Head(topic[n]) \in Posts /\ Tail(topic[n]) \in Seq(Posts)
    BY <2>1, HeadTailProperties
  <2>3. incoming' \in Seq(Posts) /\ Len(incoming') = Len(incoming) + 1
    BY <2>1, <2>2, AppendProperties
  <2>4. Len(incoming') <= IncomingCap
    BY <2>1, <2>3, LenProperties, ViewBoundAssumption
  <2>5. QED
    BY <2>1, <2>2, <2>3, <2>4
<1>4. ASSUME NEW p \in Posts, Post(n, p) PROVE ViewTypeOK'
  <2>1. Append(topic[n], p) \in Seq(Posts)
    BY AppendProperties
  <2>2. QED
    BY <1>4, <2>1 DEF Post
<1>5. QED
  BY <1>1, <1>2, <1>3, <1>4 DEF Namespace

\* So do the steps of the handler.
LEMMA HandlerTypeOK ==
  ASSUME TypeOK, Handler
  PROVE  TypeOK'
<1> USE DEF TypeOK, ViewTypeOK
<1>c. /\ todo # <<>> => /\ Current \in Request /\ Current.uri \in URIs
                        /\ Tail(todo) \in Seq(Request)
                        /\ NamespaceOf[Current.uri] \in Namespaces
  <2> SUFFICES ASSUME todo # <<>>
               PROVE  /\ Current \in Request /\ Tail(todo) \in Seq(Request)
                      /\ Current.uri \in URIs /\ NamespaceOf[Current.uri] \in Namespaces
    OBVIOUS
  <2>1. Current \in Request /\ Tail(todo) \in Seq(Request)
    BY HeadTailProperties DEF Current
  <2>2. QED
    BY <2>1, NamespaceAssumption DEF Request
<1>1. CASE TakePost
  <2>1. /\ incoming # <<>> /\ incoming' = Tail(incoming) /\ todo' = Head(incoming)
        /\ hpc' = "next" /\ good' = [u \in URIs |-> good[u] + For(u, Head(incoming))]
        /\ UNCHANGED <<muxVars, nspc, topic, locked, muxed, subscribed, streams, posted,
                       listeners, calls, refused>>
    BY <1>1 DEF TakePost
  <2>2. Head(incoming) \in Seq(Request) /\ incoming' \in Seq(Posts)
    BY <2>1, HeadTailProperties, PostAssumption
  <2>3. Len(incoming') <= IncomingCap
    BY <2>1, HeadTailProperties, LenProperties, ViewBoundAssumption
  <2>4. good' \in [URIs -> Nat]
    BY <2>1, <2>2, ForType
  <2>5. MuxTypeOK'
    BY <2>1 DEF MuxTypeOK, muxVars
  <2>6. QED
    BY <2>1, <2>2, <2>3, <2>4, <2>5
<1>2. CASE NextRequest
  BY <1>2, <1>c DEF NextRequest, MuxTypeOK, muxVars
<1>3. CASE LookUp
  BY <1>3, <1>c DEF LookUp, MuxTypeOK, muxVars
<1>4. CASE Listen
  <2>1. /\ hpc = "listen" /\ hpc' = "subscribe"
        /\ UNCHANGED <<muxVars, nspc, topic, incoming, todo, locked, muxed, streams, posted,
                       calls, good, refused>>
    BY <1>4 DEF Listen
  <2>2. PICK n \in Namespaces : \/ UNCHANGED <<subscribed, listeners>>
                                \/ /\ subscribed' = subscribed \cup {n}
                                   /\ listeners' = [listeners EXCEPT ![n] = @ + 1]
    BY <1>4, <1>c, <2>1 DEF Listen, Marked
  <2>3. subscribed' \in SUBSET Namespaces /\ listeners' \in [Namespaces -> Nat]
    <3>1. subscribed \in SUBSET Namespaces /\ listeners \in [Namespaces -> Nat]
      OBVIOUS
    <3> HIDE DEF TypeOK, ViewTypeOK
    <3>2. CASE UNCHANGED <<subscribed, listeners>>
      BY <3>1, <3>2
    <3>3. CASE subscribed' = subscribed \cup {n} /\ listeners' = [listeners EXCEPT ![n] = @ + 1]
      BY <3>1, <3>3
    <3>4. QED
      BY <2>2, <3>2, <3>3
  <2>4. MuxTypeOK'
    BY <2>1 DEF MuxTypeOK, muxVars
  <2>5. QED
    BY <2>1, <2>3, <2>4
<1>5. CASE Subscribe
  <2>1. /\ hpc = "subscribe" /\ hpc' = "add" /\ locked' = FALSE
        /\ calls' = [calls EXCEPT ![Current.uri] = @ + 1]
        /\ muxed' = muxed \cup {Current.uri}
        /\ UNCHANGED <<muxVars, nspc, topic, incoming, todo, subscribed, streams, posted,
                       listeners, good, refused>>
    BY <1>5 DEF Subscribe, Entered
  <2>2. todo # <<>> /\ Current.uri \in URIs
    BY <2>1, <1>c
  <2>3. calls' \in [URIs -> Nat] /\ muxed' \in SUBSET URIs
    <3>1. calls \in [URIs -> Nat]
      OBVIOUS
    <3>2. QED
      BY <2>1, <2>2, <3>1
  <2>4. MuxTypeOK'
    BY <2>1 DEF MuxTypeOK, muxVars
  <2>5. ViewTypeOK'
    BY <2>1, <2>2, <2>3
  <2>6. QED
    BY <2>4, <2>5
<1>6. CASE SubscribeFails
  BY <1>6, <1>c DEF SubscribeFails, MuxTypeOK, muxVars
<1>7. CASE AddStream
  <2>1. /\ Len(streams) < MaxStreams /\ streams' = Append(streams, Current.uri)
        /\ Add(Current.uri, Len(streams) + 1) /\ todo' = Tail(todo) /\ hpc' = "next"
        /\ todo # <<>>
        /\ UNCHANGED <<nspc, topic, incoming, locked, muxed, subscribed, posted,
                       listeners, calls, good, refused>>
    BY <1>7 DEF AddStream, Rest
  <2>2. Len(streams) + 1 \in Streams /\ Len(streams) \in Nat
    BY <2>1, LenProperties, MuxBoundAssumption DEF Streams
  <2>3. streams' \in Seq(URIs) /\ Len(streams') <= MaxStreams
    BY <2>1, <2>2, <1>c, AppendProperties, MuxBoundAssumption
  <2>4. MuxTypeOK'
    BY <2>1, <2>2, <1>c, AddTypeOK
  <2>5. QED
    BY <2>1, <2>3, <2>4, <1>c
<1>8. QED
  BY <1>1, <1>2, <1>3, <1>4, <1>5, <1>6, <1>7 DEF Handler

\* For any posts, namespaces and capacities: no channel ever holds more than its
\* capacity, and the handler has a request whenever it works on one.
THEOREM TypeCorrect == Spec => []TypeOK
<1>1. TypeOK /\ [Next]_vars => TypeOK'
  <2> SUFFICES ASSUME TypeOK, [Next]_vars PROVE TypeOK'
    OBVIOUS
  <2>1. ASSUME NEW n \in Namespaces, Namespace(n) \/ \E p \in Posts : Post(n, p)
        PROVE  TypeOK'
    <3>1. UNCHANGED muxVars
      BY <2>1 DEF Namespace, Connect, Resolve, Forward, Post
    <3>2. QED
      BY <2>1, <3>1, NamespaceTypeOK DEF TypeOK, MuxTypeOK, muxVars
  <2>2. CASE Handler
    BY <2>2, HandlerTypeOK
  <2>3. ASSUME NEW u \in URIs, Data(u) \/ MuxStep(u), UNCHANGED viewVars PROVE TypeOK'
    BY <2>3, MuxStepTypeOK DEF Data, TypeOK, ViewTypeOK, viewVars
  <2>4. ASSUME NEW s \in Streams, Consume(s), UNCHANGED viewVars PROVE TypeOK'
    BY <2>4, ConsumeTypeOK DEF TypeOK, ViewTypeOK, viewVars
  <2>5. CASE UNCHANGED vars
    BY <2>5 DEF vars, muxVars, viewVars, TypeOK, MuxTypeOK, ViewTypeOK
  <2>6. QED
    BY <2>1, <2>2, <2>3, <2>4, <2>5 DEF Next
<1>2. QED
  BY <1>1, InitTypeOK, PTL DEF Spec

-----------------------------------------------------------------------------
(* What a stream is fed.                                                   *)

\* Steps of a mux that already feeds a stream.
LEMMA FedByMux ==
  ASSUME TypeOK, Untouched, StreamsPlaced, FedInOrder, UNCHANGED streams,
         NEW w \in URIs, Publish(w) \/ MuxStep(w)
  PROVE  Untouched' /\ StreamsPlaced' /\ FedInOrder'
<1>t. MuxTypeOK
  BY DEF TypeOK
<1>1. StreamsPlaced'
  BY DEF StreamsPlaced, Publish, MuxStep, Take, Send
<1>2. ASSUME Publish(w) PROVE FedInOrder'
  <2>1. UNCHANGED <<at, pending, receivers, buf, done, joined>>
    BY <1>2 DEF Publish
  <2>2. ASSUME NEW v \in URIs, NEW s \in receivers[v] PROVE Unbroken(v, s)'
    BY <2>1, <2>2 DEF FedInOrder, Unbroken, Fed
  <2>3. UNCHANGED receivers
    BY <2>1
  <2>4. QED
    BY <2>2, <2>3 DEF FedInOrder
<1>3. ASSUME Take(w) PROVE FedInOrder'
  <2>1. /\ pending[w] = {} /\ at' = [at EXCEPT ![w] = @ + 1]
        /\ pending' = [pending EXCEPT ![w] = receivers[w]]
        /\ UNCHANGED <<receivers, buf, done, joined>>
    BY <1>3 DEF Take
  <2>r. UNCHANGED receivers
    BY <2>1
  <2> SUFFICES ASSUME NEW v \in URIs, NEW s \in receivers[v] PROVE Unbroken(v, s)'
    BY <2>r DEF FedInOrder
  <2>3. s \in Streams /\ Unbroken(v, s)
    BY <1>t DEF MuxTypeOK, FedInOrder
  <2>4. CASE v # w
    BY <2>1, <2>3, <2>4, <1>t DEF Unbroken, Fed, MuxTypeOK
  <2>5. CASE v = w
    <3>1. joined[s] \in Nat /\ at[v] \in Nat /\ Len(buf[s]) \in Nat /\ done[s] \in Nat
      BY <2>3, <1>t, LenProperties DEF MuxTypeOK
    <3>2. /\ joined[s] <= at[v] /\ done[s] + Len(buf[s]) = at[v] - joined[s]
          /\ \A i \in 1..Len(buf[s]) : buf[s][i] = joined[s] + done[s] + i
      BY <2>1, <2>3, <2>5, <3>1 DEF Unbroken, Fed
    <3>3. s \in pending'[v] /\ at'[v] = at[v] + 1
      BY <2>1, <2>5, <1>t DEF MuxTypeOK
    <3>4. QED
      BY <2>1, <3>1, <3>2, <3>3 DEF Unbroken, Fed
  <2>6. QED
    BY <2>4, <2>5
<1>4. ASSUME NEW r \in Streams, Send(w, r) PROVE FedInOrder'
  <2>1. /\ r \in pending[w] /\ buf' = [buf EXCEPT ![r] = Append(@, at[w])]
        /\ pending' = [pending EXCEPT ![w] = @ \ {r}]
        /\ UNCHANGED <<at, receivers, done, joined>>
    BY <1>4 DEF Send
  <2>r. UNCHANGED receivers
    BY <2>1
  <2> SUFFICES ASSUME NEW v \in URIs, NEW s \in receivers[v] PROVE Unbroken(v, s)'
    BY <2>r DEF FedInOrder
  <2>3. s \in Streams /\ Unbroken(v, s)
    BY <1>t DEF MuxTypeOK, FedInOrder
  <2>4. r \in receivers[w]
    BY <2>1, <1>t DEF MuxTypeOK
  <2>5. CASE s # r
    BY <2>1, <2>3, <2>5, <1>t DEF Unbroken, Fed, MuxTypeOK
  <2>6. CASE s = r
    <3>1. v = w
      BY <2>4, <2>6 DEF StreamsPlaced
    <3>2. joined[s] \in Nat /\ at[v] \in Nat /\ Len(buf[s]) \in Nat /\ done[s] \in Nat
      BY <2>3, <1>t, LenProperties DEF MuxTypeOK
    <3>3. /\ joined[s] + 1 <= at[v] /\ done[s] + Len(buf[s]) = at[v] - joined[s] - 1
          /\ \A i \in 1..Len(buf[s]) : buf[s][i] = joined[s] + done[s] + i
      BY <2>1, <2>3, <2>6, <3>1, <3>2 DEF Unbroken, Fed
    <3>4. /\ buf'[s] = Append(buf[s], at[v]) /\ buf[s] \in Seq(Nat)
      BY <2>1, <2>6, <3>1, <1>t DEF MuxTypeOK
    <3>5. /\ Len(buf'[s]) = Len(buf[s]) + 1
          /\ \A i \in 1..Len(buf[s]) : buf'[s][i] = buf[s][i]
          /\ buf'[s][Len(buf[s]) + 1] = at[v]
      BY <3>2, <3>4, AppendProperties
    <3>6. s \notin pending'[v]
      BY <2>1, <2>6, <3>1, <1>t DEF MuxTypeOK
    <3>e. /\ at[v] = joined[s] + done[s] + (Len(buf[s]) + 1)
          /\ joined[s] <= at[v]
          /\ done[s] + (Len(buf[s]) + 1) = at[v] - joined[s]
      <4> DEFINE j == joined[s]  a == at[v]  n == Len(buf[s])  d == done[s]
      <4>1. j \in Nat /\ a \in Nat /\ n \in Nat /\ d \in Nat
        BY <3>2
      <4>2. j + 1 <= a /\ d + n = a - j - 1
        BY <3>3
      <4> HIDE DEF j, a, n, d
      <4>3. a = j + d + (n + 1) /\ j <= a /\ d + (n + 1) = a - j
        BY <4>1, <4>2
      <4>4. QED
        BY <4>3 DEF j, a, n, d
    <3>7. ASSUME NEW i \in 1..Len(buf'[s]) PROVE buf'[s][i] = joined[s] + done[s] + i
      <4>1. CASE i \in 1..Len(buf[s])
        BY <3>3, <3>5, <4>1
      <4>2. CASE i = Len(buf[s]) + 1
        BY <3>5, <3>e, <4>2
      <4>3. QED
        BY <3>2, <3>5, <4>1, <4>2
    <3>8. joined[s] <= at[v] /\ done[s] + Len(buf'[s]) = at[v] - joined[s]
      BY <3>5, <3>e
    <3>9. QED
      BY <2>1, <3>2, <3>6, <3>7, <3>8 DEF Unbroken, Fed
  <2>7. QED
    BY <2>5, <2>6
<1>5. Untouched'
  <2>1. CASE UNCHANGED <<buf, done>>
    BY <2>1 DEF Untouched
  <2>2. ASSUME NEW r \in Streams, Send(w, r) PROVE Untouched'
    <3>1. r \in pending[w] /\ buf' = [buf EXCEPT ![r] = Append(@, at[w])] /\ done' = done
      BY <2>2 DEF Send
    <3>2. r \in DOMAIN streams
      BY <3>1, <1>t DEF MuxTypeOK, StreamsPlaced
    <3>3. \A s \in Streams : s # r => buf'[s] = buf[s]
      BY <3>1, <1>t DEF MuxTypeOK
    <3>4. QED
      BY <3>1, <3>2, <3>3 DEF Untouched
  <2>3. QED
    BY <2>1, <2>2 DEF MuxStep, Publish, Take
<1>6. QED
  BY <1>1, <1>2, <1>3, <1>4, <1>5 DEF MuxStep

\* The reader of a stream takes a message.
LEMMA FedByConsume ==
  ASSUME TypeOK, Untouched, StreamsPlaced, FedInOrder, UNCHANGED streams,
         NEW r \in Streams, Consume(r)
  PROVE  Untouched' /\ StreamsPlaced' /\ FedInOrder'
<1>t. MuxTypeOK
  BY DEF TypeOK
<1>1. /\ buf[r] # <<>> /\ buf' = [buf EXCEPT ![r] = Tail(@)]
      /\ done' = [done EXCEPT ![r] = @ + 1]
      /\ UNCHANGED <<at, pending, joined>>
  BY DEF Consume
<1>2. UNCHANGED receivers
  BY DEF Consume
<1>3. Untouched' /\ StreamsPlaced'
  <2>1. StreamsPlaced'
    BY <1>2 DEF StreamsPlaced
  <2>2. r \in DOMAIN streams
    BY <1>1 DEF Untouched
  <2>3. \A s \in Streams : s # r => buf'[s] = buf[s] /\ done'[s] = done[s]
    BY <1>1, <1>t DEF MuxTypeOK
  <2>4. QED
    BY <2>1, <2>2, <2>3 DEF Untouched
<1>4. ASSUME NEW v \in URIs, NEW s \in receivers[v] PROVE Unbroken(v, s)'
  <2>1. s \in Streams /\ Unbroken(v, s)
    BY <1>t, <1>4 DEF MuxTypeOK, FedInOrder
  <2>2. CASE s # r
    BY <1>1, <2>1, <2>2, <1>t DEF Unbroken, Fed, MuxTypeOK
  <2>3. CASE s = r
    <3>1. /\ joined[s] \in Nat /\ at[v] \in Nat /\ Len(buf[s]) \in Nat /\ done[s] \in Nat
          /\ buf[s] \in Seq(Nat)
      BY <1>4, <2>1, <1>t, LenProperties DEF MuxTypeOK
    <3>2. /\ joined[s] + (IF s \in pending[v] THEN 1 ELSE 0) <= at[v]
          /\ done[s] + Len(buf[s]) = at[v] - joined[s] - (IF s \in pending[v] THEN 1 ELSE 0)
          /\ \A i \in 1..Len(buf[s]) : buf[s][i] = joined[s] + done[s] + i
      BY <2>1 DEF Unbroken, Fed
    <3>3. buf'[s] = Tail(buf[s]) /\ done'[s] = done[s] + 1 /\ buf[s] # <<>>
      BY <1>1, <2>1, <2>3, <1>t DEF MuxTypeOK
    <3>4. /\ Len(buf'[s]) = Len(buf[s]) - 1
          /\ \A i \in 1..Len(buf'[s]) : buf'[s][i] = buf[s][i + 1]
      BY <3>1, <3>3, HeadTailProperties
    <3>5. ASSUME NEW i \in 1..Len(buf'[s]) PROVE buf'[s][i] = joined[s] + done'[s] + i
      <4>1. i + 1 \in 1..Len(buf[s])
        BY <3>1, <3>4
      <4>2. buf'[s][i] = joined[s] + done[s] + (i + 1)
        BY <3>2, <3>4, <4>1
      <4>3. i \in Nat
        BY <3>1, <3>4
      <4> DEFINE j == joined[s]  d == done[s]
      <4>4. j \in Nat /\ d \in Nat /\ buf'[s][i] = j + d + (i + 1) /\ done'[s] = d + 1
        BY <3>1, <3>3, <4>2
      <4> HIDE DEF j, d
      <4>5. buf'[s][i] = j + done'[s] + i
        BY <4>3, <4>4
      <4>6. QED
        BY <4>5 DEF j
    <3>6. done'[s] + Len(buf'[s]) = done[s] + Len(buf[s])
      BY <3>1, <3>3, <3>4
    <3>7. QED
      BY <1>1, <3>2, <3>5, <3>6 DEF Unbroken, Fed
  <2>4. QED
    BY <2>2, <2>3
<1>5. QED
  BY <1>2, <1>3, <1>4 DEF FedInOrder

\* The handler adds a stream to a mux.
LEMMA FedByAdd ==
  ASSUME TypeOK, Untouched, StreamsPlaced, FedInOrder, AddStream
  PROVE  Untouched' /\ StreamsPlaced' /\ FedInOrder'
<1> DEFINE new == Len(streams) + 1
           cur == Current.uri
<1>t. MuxTypeOK /\ ViewTypeOK
  BY DEF TypeOK
<1>1. /\ Len(streams) < MaxStreams /\ streams' = Append(streams, cur)
      /\ pending[cur] = {} /\ receivers' = [receivers EXCEPT ![cur] = @ \cup {new}]
      /\ joined' = [joined EXCEPT ![new] = at[cur]]
      /\ UNCHANGED <<at, pending, buf, done>>
      /\ todo # <<>>
  BY <1>t DEF AddStream, Add, ViewTypeOK
<1>2. cur \in URIs
  <2>1. Head(todo) \in Request
    BY <1>1, <1>t, HeadTailProperties DEF ViewTypeOK
  <2>2. QED
    BY <2>1 DEF Current, Request
<1>3. /\ DOMAIN streams = 1..Len(streams) /\ Len(streams) \in Nat
      /\ streams \in Seq(URIs)
  BY <1>t, LenProperties DEF ViewTypeOK
<1>4. new \in Streams /\ new \notin DOMAIN streams
  BY <1>1, <1>3, MuxBoundAssumption DEF Streams
<1>5. /\ DOMAIN streams' = DOMAIN streams \cup {new} /\ streams'[new] = cur
      /\ \A s \in DOMAIN streams : streams'[s] = streams[s]
  <2>1. /\ Append(streams, cur) \in Seq(URIs) /\ Len(Append(streams, cur)) = new
        /\ \A i \in 1..Len(streams) : Append(streams, cur)[i] = streams[i]
        /\ Append(streams, cur)[new] = cur
    BY <1>2, <1>3, AppendProperties
  <2>2. DOMAIN Append(streams, cur) = 1..new
    BY <2>1, LenProperties
  <2>3. 1..new = 1..Len(streams) \cup {new}
    BY <1>3
  <2>4. QED
    BY <1>1, <1>3, <2>1, <2>2, <2>3
<1>6. Untouched'
  BY <1>1, <1>5 DEF Untouched
<1>7. StreamsPlaced'
  <2> SUFFICES ASSUME NEW v \in URIs
               PROVE  receivers'[v] = {s \in DOMAIN streams' : streams'[s] = v}
    BY DEF StreamsPlaced
  <2>1. receivers[v] = {s \in DOMAIN streams : streams[s] = v} /\ receivers \in [URIs -> SUBSET Streams]
    BY <1>t DEF StreamsPlaced, MuxTypeOK
  <2>2. receivers'[v] = IF v = cur THEN receivers[v] \cup {new} ELSE receivers[v]
    BY <1>1, <2>1
  <2>3. QED
    BY <1>4, <1>5, <2>1, <2>2
<1>8. ASSUME NEW v \in URIs, NEW s \in receivers'[v] PROVE Unbroken(v, s)'
  <2>1. s \in DOMAIN streams' /\ streams'[s] = v
    BY <1>7, <1>8 DEF StreamsPlaced
  <2>2. CASE s = new
    <3>1. v = cur /\ buf[s] = <<>> /\ done[s] = 0 /\ at[v] \in Nat
      BY <1>4, <1>5, <1>8, <2>1, <2>2, <1>t DEF Untouched, MuxTypeOK
    <3>2. joined'[s] = at[v] /\ s \notin pending[v]
      BY <1>1, <1>4, <2>2, <3>1, <1>t DEF MuxTypeOK
    <3>3. Len(<<>>) = 0
      BY EmptySeq
    <3>4. QED
      BY <1>1, <3>1, <3>2, <3>3 DEF Unbroken, Fed
  <2>3. CASE s # new
    <3>1. s \in DOMAIN streams /\ streams[s] = v
      BY <1>5, <2>1, <2>3
    <3>2. s \in receivers[v]
      BY <1>8, <3>1 DEF StreamsPlaced
    <3>3. Unbroken(v, s)
      BY <1>8, <3>2 DEF FedInOrder
    <3>4. joined'[s] = joined[s]
      BY <1>1, <2>3, <3>2, <1>8, <1>t DEF MuxTypeOK
    <3>5. QED
      BY <1>1, <3>3, <3>4 DEF Unbroken, Fed
  <2>4. QED
    BY <2>2, <2>3
<1>9. QED
  BY <1>6, <1>7, <1>8 DEF FedInOrder

\* However mux, handler and readers interleave, and however small the buffers
\* are, every stream gets every message of its URI from where it was added on,
\* once and in order, and no message of another URI.
THEOREM FedRight == Spec => [](StreamsPlaced /\ FedInOrder)
<1> DEFINE Inv == Untouched /\ StreamsPlaced /\ FedInOrder
<1>1. Init => Inv
  BY DEF Init, MuxInit, Untouched, StreamsPlaced, FedInOrder
<1>2. TypeOK /\ Inv /\ [Next]_vars => Inv'
  <2> SUFFICES ASSUME TypeOK, Inv, [Next]_vars PROVE Inv'
    OBVIOUS
  <2>1. CASE UNCHANGED <<muxVars, streams>>
    BY <2>1 DEF muxVars, Untouched, StreamsPlaced, FedInOrder, Unbroken, Fed
  <2>2. ASSUME NEW u \in URIs, Data(u) \/ MuxStep(u), UNCHANGED viewVars PROVE Inv'
    BY <2>2, FedByMux DEF Data, viewVars
  <2>3. ASSUME NEW s \in Streams, Consume(s), UNCHANGED viewVars PROVE Inv'
    BY <2>3, FedByConsume DEF viewVars
  <2>4. CASE AddStream
    BY <2>4, FedByAdd
  <2>5. ASSUME NEW n \in Namespaces, Namespace(n) \/ \E p \in Posts : Post(n, p)
        PROVE  UNCHANGED <<muxVars, streams>>
    BY <2>5 DEF Namespace, Connect, Resolve, Forward, Post
  <2>6. ASSUME Handler, ~AddStream PROVE UNCHANGED <<muxVars, streams>>
    BY <2>6 DEF Handler, TakePost, NextRequest, LookUp, Listen, Subscribe, SubscribeFails
  <2>7. QED
    BY <2>1, <2>2, <2>3, <2>4, <2>5, <2>6 DEF Next, vars, viewVars
<1>3. Inv => StreamsPlaced /\ FedInOrder
  OBVIOUS
<1>4. QED
  BY <1>1, <1>2, <1>3, TypeCorrect, PTL DEF Spec

-----------------------------------------------------------------------------
(* How often the archiver subscribes.                                      *)

\* The handler looks up in the maps, calls and enters, in that order, and keeps
\* in between what it found.
LEMMA MapsTellHandler ==
  ASSUME TypeOK, MapsTell, Handler
  PROVE  MapsTell'
<1>t. ViewTypeOK /\ MuxTypeOK
  BY DEF TypeOK
<1>c. todo # <<>> => Current \in Request /\ Current.uri \in URIs
  <2> SUFFICES ASSUME todo # <<>> PROVE Current \in Request /\ Current.uri \in URIs
    OBVIOUS
  <2>1. Current \in Request
    BY <1>t, HeadTailProperties DEF Current, ViewTypeOK
  <2>2. QED
    BY <2>1 DEF Request
<1>1. CASE TakePost
  BY <1>1 DEF TakePost, MapsTell, muxVars
<1>2. CASE NextRequest
  BY <1>2 DEF NextRequest, MapsTell, muxVars
<1>3. CASE LookUp
  BY <1>3 DEF LookUp, MapsTell, muxVars, Current
<1>4. CASE Listen
  <2> DEFINE u == Current.uri
             n == NamespaceOf[u]
  <2>1. /\ hpc = "listen" /\ hpc' = "subscribe"
        /\ UNCHANGED <<receivers, todo, muxed, calls>>
        /\ IF n \in subscribed
           THEN UNCHANGED <<subscribed, listeners>>
           ELSE /\ listeners' = [listeners EXCEPT ![n] = @ + 1]
                /\ subscribed' = subscribed \cup {n}
    BY <1>4 DEF Listen, Marked, muxVars
  <2>2. u \in URIs /\ n \in Namespaces /\ u' = u
    BY <2>1, <1>t, <1>c, NamespaceAssumption DEF ViewTypeOK, Current
  <2>3. n \in subscribed' /\ subscribed \subseteq subscribed'
    BY <2>1
  <2>4. \A m \in Namespaces : listeners'[m] = IF m \in subscribed' THEN 1 ELSE 0
    BY <2>1, <2>2, <1>t DEF MapsTell, ViewTypeOK
  <2>5. n' = n
    BY <2>2
  <2>6. QED
    BY <2>1, <2>2, <2>3, <2>4, <2>5 DEF MapsTell
<1>5. CASE Subscribe
  <2> DEFINE u == Current.uri
  <2>1. /\ hpc = "subscribe" /\ hpc' = "add"
        /\ calls' = [calls EXCEPT ![u] = @ + 1] /\ muxed' = muxed \cup {u}
        /\ UNCHANGED <<receivers, todo, subscribed, listeners>>
    BY <1>5 DEF Subscribe, Entered, muxVars
  <2>2. u \in URIs /\ u' = u
    BY <2>1, <1>t, <1>c DEF ViewTypeOK, Current
  <2>3. u \notin muxed /\ NamespaceOf[u] \in subscribed
    BY <2>1 DEF MapsTell
  <2>4. \A v \in URIs : calls'[v] = IF v \in muxed' THEN 1 ELSE 0
    BY <2>1, <2>2, <2>3, <1>t DEF MapsTell, ViewTypeOK
  <2>5. QED
    BY <2>1, <2>2, <2>3, <2>4 DEF MapsTell
<1>6. CASE SubscribeFails
  BY <1>6 DEF SubscribeFails, MapsTell, muxVars
<1>7. CASE AddStream
  <2>1. /\ hpc = "add" /\ hpc' = "next"
        /\ receivers' = [receivers EXCEPT ![Current.uri] = @ \cup {Len(streams) + 1}]
        /\ UNCHANGED <<muxed, subscribed, listeners, calls>>
    BY <1>7 DEF AddStream, Add
  <2>2. Current.uri \in muxed
    BY <2>1 DEF MapsTell
  <2>3. \A v \in URIs : receivers'[v] # {} => v \in muxed
    BY <2>1, <2>2, <1>t DEF MapsTell, MuxTypeOK
  <2>4. QED
    BY <2>1, <2>3 DEF MapsTell
<1>8. QED
  BY <1>1, <1>2, <1>3, <1>4, <1>5, <1>6, <1>7 DEF Handler

\* Whatever requests are posted in which order: one subscription per URI and
\* one metadata listener per namespace, both there before a stream is fed.
THEOREM SubscribedOnce == Spec => []OneSubscription
<1>1. Init => MapsTell
  BY NamespaceAssumption DEF Init, MuxInit, MapsTell
<1>2. TypeOK /\ MapsTell /\ [Next]_vars => MapsTell'
  <2> SUFFICES ASSUME TypeOK, MapsTell, [Next]_vars PROVE MapsTell'
    OBVIOUS
  <2>1. CASE UNCHANGED <<receivers, calls, muxed, subscribed, listeners, hpc, todo>>
    BY <2>1 DEF MapsTell, Current
  <2>2. CASE Handler
    BY <2>2, MapsTellHandler
  <2>3. ASSUME NEW n \in Namespaces, Namespace(n) \/ \E p \in Posts : Post(n, p)
        PROVE  UNCHANGED <<receivers, calls, muxed, subscribed, listeners, hpc, todo>>
    BY <2>3 DEF Namespace, Connect, Resolve, Forward, Post, muxVars
  <2>4. ASSUME NEW u \in URIs, Data(u) \/ MuxStep(u) PROVE UNCHANGED receivers
    BY <2>4 DEF Data, Publish, MuxStep, Take, Send
  <2>5. ASSUME NEW s \in Streams, Consume(s) PROVE UNCHANGED receivers
    BY <2>5 DEF Consume
  <2>6. QED
    BY <2>1, <2>2, <2>3, <2>4, <2>5 DEF Next, vars, viewVars, muxVars
<1>3. MapsTell => OneSubscription
  BY NamespaceAssumption DEF MapsTell, OneSubscription
<1>4. QED
  BY <1>1, <1>2, <1>3, TypeCorrect, PTL DEF Spec

-----------------------------------------------------------------------------
(* Requests.                                                               *)

\* The good requests for a URI are the first one, if it is, and those after it.
LEMMA ForTail ==
  ASSUME NEW u, NEW q \in Seq(Request), q # <<>>
  PROVE  For(u, q) = For(u, Tail(q))
                     + (IF Head(q).kind = "good" /\ Head(q).uri = u THEN 1 ELSE 0)
<1> DEFINE A == {i \in DOMAIN q : q[i].kind = "good" /\ q[i].uri = u}
           B == {i \in DOMAIN Tail(q) : Tail(q)[i].kind = "good" /\ Tail(q)[i].uri = u}
           f == [i \in B |-> i + 1]
<1>1. /\ Tail(q) \in Seq(Request) /\ Len(Tail(q)) = Len(q) - 1 /\ Len(q) \in Nat \ {0}
      /\ \A i \in 1..Len(Tail(q)) : Tail(q)[i] = q[i + 1]
      /\ DOMAIN q = 1..Len(q) /\ DOMAIN Tail(q) = 1..Len(Tail(q)) /\ Head(q) = q[1]
  BY HeadTailProperties, LenProperties
<1>2. IsFiniteSet(B)
  <2>1. IsFiniteSet(1..Len(Tail(q)))
    BY <1>1, FS_Interval
  <2>2. B \subseteq 1..Len(Tail(q))
    BY <1>1
  <2>3. QED
    BY <2>1, <2>2, FS_Subset
<1>3. \A i \in A \ {1} : i - 1 \in B
  BY <1>1
<1>4. \A i \in B : i + 1 \in A \ {1} /\ i \in Nat
  BY <1>1
<1>5. f \in Bijection(B, A \ {1})
  <2>1. f \in [B -> A \ {1}]
    BY <1>4
  <2>2. \A i, k \in B : f[i] = f[k] => i = k
    BY <1>4
  <2>3. \A i \in A \ {1} : f[i - 1] = i
    BY <1>1, <1>3
  <2>4. f \in Injection(B, A \ {1})
    BY <2>1, <2>2 DEF Injection, IsInjective
  <2>5. f \in Surjection(B, A \ {1})
    BY <1>3, <2>1, <2>3 DEF Surjection
  <2>6. QED
    BY <2>4, <2>5 DEF Bijection
<1>6. IsFiniteSet(A \ {1}) /\ Cardinality(A \ {1}) = Cardinality(B)
  BY <1>2, <1>5, FS_Bijection DEF ExistsBijection
<1>7. Cardinality(B) \in Nat
  BY <1>2, FS_CardinalityType
<1>f. For(u, q) = Cardinality(A) /\ For(u, Tail(q)) = Cardinality(B)
  BY DEF For
<1>8. CASE 1 \in A
  <2>1. A = (A \ {1}) \cup {1}
    BY <1>8
  <2>2. Cardinality(A) = Cardinality(A \ {1}) + 1
    BY <1>6, <2>1, FS_AddElement
  <2>3. Head(q).kind = "good" /\ Head(q).uri = u
    BY <1>1, <1>8
  <2>4. QED
    BY <1>6, <1>f, <2>2, <2>3
<1>9. CASE 1 \notin A
  <2>1. A = A \ {1}
    BY <1>9
  <2>2. ~(Head(q).kind = "good" /\ Head(q).uri = u)
    BY <1>1, <1>9
  <2>3. Cardinality(A) = Cardinality(B)
    BY <1>6, <2>1, Zenon
  <2>4. For(u, q) = For(u, Tail(q)) /\ For(u, Tail(q)) \in Nat
    BY <1>f, <1>7, <2>3, Zenon
  <2>5. QED
    BY <2>2, <2>4
<1>10. QED
  BY <1>8, <1>9

LEMMA ForNone == ASSUME NEW u PROVE For(u, <<>>) = 0
<1>1. {i \in DOMAIN <<>> : <<>>[i].kind = "good" /\ <<>>[i].uri = u} = {}
  BY EmptySeq, LenProperties
<1>2. QED
  BY <1>1, FS_EmptySet DEF For

\* The handler works on good requests only, and on none between two posts.
Accounts ==
  /\ hpc \in {"lock", "listen", "subscribe", "add"} => Current.kind = "good"
  /\ hpc = "idle" => todo = <<>>
  /\ \A u \in URIs : good[u] = Cardinality(receivers[u]) + For(u, todo) + refused[u]

\* A request leaves todo with a stream, with a refusal, or because it is bad.
LEMMA AccountsHandler ==
  ASSUME TypeOK, StreamsPlaced, Accounts, Handler
  PROVE  Accounts'
<1>t. ViewTypeOK /\ MuxTypeOK
  BY DEF TypeOK
<1>n. /\ good \in [URIs -> Nat] /\ refused \in [URIs -> Nat]
      /\ \A u \in URIs : For(u, todo) \in Nat
      /\ \A u \in URIs : IsFiniteSet(receivers[u]) /\ Cardinality(receivers[u]) \in Nat
  <2>1. todo \in Seq(Request) /\ good \in [URIs -> Nat] /\ refused \in [URIs -> Nat]
    BY <1>t DEF ViewTypeOK
  <2>2. IsFiniteSet(Streams)
    BY MuxBoundAssumption, FS_Interval DEF Streams
  <2>3. \A u \in URIs : receivers[u] \subseteq Streams
    BY <1>t DEF MuxTypeOK
  <2>4. \A u \in URIs : IsFiniteSet(receivers[u])
    BY <2>2, <2>3, FS_Subset
  <2>5. QED
    BY <2>1, <2>4, ForType, FS_CardinalityType
<1>c. ASSUME todo # <<>>
      PROVE  /\ Current \in Request /\ Current.uri \in URIs /\ Tail(todo) \in Seq(Request)
             /\ \A u \in URIs : /\ For(u, Tail(todo)) \in Nat
                                /\ For(u, todo) = For(u, Tail(todo))
                                     + (IF Current.kind = "good" /\ Current.uri = u THEN 1 ELSE 0)
  <2>1. todo \in Seq(Request)
    BY <1>t DEF ViewTypeOK
  <2>2. Current \in Request /\ Tail(todo) \in Seq(Request)
    BY <1>c, <2>1, HeadTailProperties DEF Current
  <2>3. QED
    BY <1>c, <2>1, <2>2, ForTail, ForType DEF Current, Request
<1>1. CASE TakePost
  <2>1. /\ hpc = "idle" /\ hpc' = "next" /\ incoming # <<>> /\ todo' = Head(incoming)
        /\ good' = [u \in URIs |-> good[u] + For(u, Head(incoming))]
        /\ UNCHANGED receivers /\ UNCHANGED refused
    BY <1>1 DEF TakePost, muxVars
  <2>2. \A u \in URIs : For(u, todo) = 0
    BY <2>1, ForNone DEF Accounts
  <2>3. Head(incoming) \in Seq(Request)
    BY <2>1, <1>t, HeadTailProperties, PostAssumption DEF ViewTypeOK
  <2>4. \A u \in URIs : For(u, todo') \in Nat
    BY <2>1, <2>3, ForType
  <2>5. ASSUME NEW u \in URIs
        PROVE  good'[u] = Cardinality(receivers'[u]) + For(u, todo') + refused'[u]
    BY <2>1, <2>2, <2>4, <1>n DEF Accounts
  <2>6. QED
    BY <2>1, <2>5 DEF Accounts
<1>2. CASE NextRequest
  <2>1. /\ hpc = "next" /\ UNCHANGED receivers /\ UNCHANGED refused /\ UNCHANGED good
        /\ \/ todo = <<>> /\ hpc' = "idle" /\ UNCHANGED todo
           \/ todo # <<>> /\ Current.kind = "bad" /\ todo' = Tail(todo) /\ UNCHANGED hpc
           \/ todo # <<>> /\ Current.kind = "good" /\ hpc' = "lock" /\ UNCHANGED todo
    BY <1>2 DEF NextRequest, muxVars
  <2>2. ASSUME NEW u \in URIs PROVE For(u, todo') = For(u, todo)
    <3>1. CASE todo' = todo
      BY <3>1
    <3>2. CASE todo # <<>> /\ Current.kind = "bad" /\ todo' = Tail(todo)
      <4>1. /\ For(u, Tail(todo)) \in Nat
            /\ For(u, todo) = For(u, Tail(todo))
                 + (IF Current.kind = "good" /\ Current.uri = u THEN 1 ELSE 0)
        BY <3>2, <1>c
      <4>2. QED
        BY <3>2, <4>1
    <3>3. QED
      BY <2>1, <3>1, <3>2
  <2>3. todo' = todo => Current' = Current
    BY DEF Current
  <2>4. QED
    BY <2>1, <2>2, <2>3 DEF Accounts
<1>3. CASE LookUp \/ Listen \/ Subscribe
  <2>1. /\ hpc \in {"lock", "listen", "subscribe"} /\ hpc' \in {"listen", "subscribe", "add"}
        /\ UNCHANGED receivers /\ UNCHANGED refused /\ UNCHANGED good /\ UNCHANGED todo
    BY <1>3 DEF LookUp, Listen, Subscribe, muxVars
  <2>2. QED
    BY <2>1 DEF Accounts, Current
<1>4. CASE SubscribeFails
  <2>1. /\ hpc = "subscribe" /\ hpc' = "next" /\ todo' = Tail(todo)
        /\ refused' = [refused EXCEPT ![Current.uri] = @ + 1]
        /\ UNCHANGED receivers /\ UNCHANGED good
    BY <1>4 DEF SubscribeFails, muxVars
  <2>2. todo # <<>> /\ Current.kind = "good"
    BY <2>1, <1>t DEF Accounts, ViewTypeOK
  <2>d. ASSUME NEW u \in URIs
        PROVE  /\ Current.uri \in URIs /\ For(u, todo') \in Nat
               /\ For(u, todo) = For(u, todo') + (IF Current.uri = u THEN 1 ELSE 0)
    <3>1. /\ Current.uri \in URIs /\ For(u, Tail(todo)) \in Nat
          /\ For(u, todo) = For(u, Tail(todo))
               + (IF Current.kind = "good" /\ Current.uri = u THEN 1 ELSE 0)
      BY <2>2, <1>c
    <3>2. QED
      BY <2>1, <2>2, <3>1
  <2>3. ASSUME NEW u \in URIs
        PROVE  good'[u] = Cardinality(receivers'[u]) + For(u, todo') + refused'[u]
    <3>1. refused'[u] = refused[u] + (IF Current.uri = u THEN 1 ELSE 0)
      BY <2>1, <2>3, <1>n
    <3>2. good[u] = Cardinality(receivers[u]) + For(u, todo) + refused[u]
      BY <2>3 DEF Accounts
    <3>3. QED
      <4>1. /\ For(u, todo') \in Nat
            /\ For(u, todo) = For(u, todo') + (IF Current.uri = u THEN 1 ELSE 0)
        BY <2>3, <2>d
      <4>2. good'[u] = good[u] /\ Cardinality(receivers'[u]) = Cardinality(receivers[u])
        BY <2>1
      <4>3. Cardinality(receivers[u]) \in Nat /\ refused[u] \in Nat
        BY <2>3, <1>n
      <4>4. QED
        BY <3>1, <3>2, <4>1, <4>2, <4>3
  <2>4. QED
    BY <2>1, <2>3 DEF Accounts
<1>5. CASE AddStream
  <2>1. /\ hpc = "add" /\ hpc' = "next" /\ todo' = Tail(todo)
        /\ receivers' = [receivers EXCEPT ![Current.uri] = @ \cup {Len(streams) + 1}]
        /\ UNCHANGED refused /\ UNCHANGED good
    BY <1>5 DEF AddStream, Add, Rest
  <2>2. todo # <<>> /\ Current.kind = "good"
    BY <2>1, <1>t DEF Accounts, ViewTypeOK
  <2>3. Len(streams) + 1 \notin receivers[Current.uri]
    <3>1. streams \in Seq(URIs)
      BY <1>t DEF ViewTypeOK
    <3>2. DOMAIN streams = 1..Len(streams) /\ Len(streams) \in Nat
      BY <3>1, LenProperties
    <3>3. QED
      BY <2>2, <1>c, <3>2 DEF StreamsPlaced
  <2>4. Cardinality(receivers[Current.uri] \cup {Len(streams) + 1}) = Cardinality(receivers[Current.uri]) + 1
    BY <2>2, <2>3, <1>c, <1>n, FS_AddElement
  <2>5. ASSUME NEW u \in URIs
        PROVE  Cardinality(receivers'[u]) = Cardinality(receivers[u]) + (IF Current.uri = u THEN 1 ELSE 0)
    BY <2>1, <2>4, <1>n, <1>t DEF MuxTypeOK
  <2>d. ASSUME NEW u \in URIs
        PROVE  /\ Current.uri \in URIs /\ For(u, todo') \in Nat
               /\ For(u, todo) = For(u, todo') + (IF Current.uri = u THEN 1 ELSE 0)
    <3>1. /\ Current.uri \in URIs /\ For(u, Tail(todo)) \in Nat
          /\ For(u, todo) = For(u, Tail(todo))
               + (IF Current.kind = "good" /\ Current.uri = u THEN 1 ELSE 0)
      BY <2>2, <1>c
    <3>2. QED
      BY <2>1, <2>2, <3>1
  <2>6. ASSUME NEW u \in URIs
        PROVE  good'[u] = Cardinality(receivers'[u]) + For(u, todo') + refused'[u]
    <3>1. good[u] = Cardinality(receivers[u]) + For(u, todo) + refused[u]
      BY <2>6 DEF Accounts
    <3>2. QED
      <4>1. /\ For(u, todo') \in Nat
            /\ For(u, todo) = For(u, todo') + (IF Current.uri = u THEN 1 ELSE 0)
        BY <2>6, <2>d
      <4>2. good'[u] = good[u] /\ refused'[u] = refused[u]
        BY <2>1
      <4>3. Cardinality(receivers[u]) \in Nat /\ refused[u] \in Nat
        BY <2>6, <1>n
      <4>4. Cardinality(receivers'[u]) = Cardinality(receivers[u]) + (IF Current.uri = u THEN 1 ELSE 0)
        BY <2>5, <2>6
      <4>5. QED
        BY <3>1, <4>1, <4>2, <4>3, <4>4
  <2>7. QED
    BY <2>1, <2>6 DEF Accounts
<1>6. QED
  BY <1>1, <1>2, <1>3, <1>4, <1>5 DEF Handler

\* Whatever is posted, refused and interleaved with muxes: every good request has
\* one stream on the mux of its URI, unless it waits or was refused.
THEOREM AllAccounted == Spec => []RequestsAccounted
<1>1. Init => Accounts
  <2> SUFFICES ASSUME Init PROVE Accounts
    OBVIOUS
  <2>1. \A u \in URIs : Cardinality(receivers[u]) = 0 /\ For(u, todo) = 0
    BY ForNone, FS_EmptySet DEF Init, MuxInit
  <2>2. QED
    BY <2>1 DEF Init, Accounts
<1>2. TypeOK /\ StreamsPlaced /\ Accounts /\ [Next]_vars => Accounts'
  <2> SUFFICES ASSUME TypeOK, StreamsPlaced, Accounts, [Next]_vars PROVE Accounts'
    OBVIOUS
  <2>1. CASE UNCHANGED <<receivers, good, refused, hpc, todo>>
    BY <2>1 DEF Accounts, Current
  <2>2. CASE Handler
    BY <2>2, AccountsHandler
  <2>3. ASSUME NEW n \in Namespaces, Namespace(n) \/ \E p \in Posts : Post(n, p)
        PROVE  UNCHANGED <<receivers, good, refused, hpc, todo>>
    BY <2>3 DEF Namespace, Connect, Resolve, Forward, Post, muxVars
  <2>4. ASSUME NEW u \in URIs, Data(u) \/ MuxStep(u) PROVE UNCHANGED receivers
    BY <2>4 DEF Data, Publish, MuxStep, Take, Send
  <2>5. ASSUME NEW s \in Streams, Consume(s) PROVE UNCHANGED receivers
    BY <2>5 DEF Consume
  <2>6. QED
    BY <2>1, <2>2, <2>3, <2>4, <2>5 DEF Next, vars, viewVars, muxVars
<1>3. Accounts /\ StreamsPlaced => RequestsAccounted
  BY DEF Accounts, RequestsAccounted
<1>4. QED
  BY <1>1, <1>2, <1>3, TypeCorrect, FedRight, PTL DEF Spec
=============================================================================
