--------------------------------- MODULE Mux ---------------------------------
(***************************************************************************)
(* The subscription multiplexers (archiver/mux.go), one per subscribed URI *)
(* pattern, and the buffers they feed.  A mux goroutine takes one message  *)
(* at a time off its BOSSWAVE subscription and sends it, blocking, to each *)
(* of its receivers while it holds the mux's read lock; a receiver is      *)
(* added under the write lock.                                             *)
(*                                                                         *)
(* Messages of a subscription are numbered in the order they arrive.  The  *)
(* receivers are the buffers of streams, numbered in the order in which    *)
(* the view manager makes them; the stream's reader is a plain consumer    *)
(* here (Stream.tla has what it does).                                     *)
(***************************************************************************)
EXTENDS Naturals, Sequences, FiniteSets

CONSTANTS URIs,       \* URI patterns that archive requests name
          BufferCap,  \* capacity of a stream's buffer (10000 in the code)
          MaxStreams, \* bound: streams made
          MaxData     \* bound: messages published per URI

ASSUME CapAssumption == BufferCap \in Nat \ {0}
ASSUME MuxBoundAssumption == MaxStreams \in Nat /\ MaxData \in Nat

Streams == 1..MaxStreams

VARIABLES
  data,      \* messages that reached the subscription of each URI
  at,        \* messages its mux has taken off the subscription
  pending,   \* receivers that still wait for the message in hand
  receivers, \* streams the mux feeds
  buf,       \* buffer of each stream: numbers of the messages in it
  done,      \* messages the stream's reader has taken out of its buffer
  joined     \* history: the message at which the stream was added

muxVars == <<data, at, pending, receivers, buf, done, joined>>

MuxInit ==
  /\ data = [u \in URIs |-> 0] /\ at = [u \in URIs |-> 0]
  /\ pending = [u \in URIs |-> {}] /\ receivers = [u \in URIs |-> {}]
  /\ buf = [s \in Streams |-> <<>>] /\ done = [s \in Streams |-> 0]
  /\ joined = [s \in Streams |-> 0]

\* A message arrives on the subscription.
Publish(u) ==
  /\ data[u] < MaxData
  /\ data' = [data EXCEPT ![u] = @ + 1]
  /\ UNCHANGED <<at, pending, receivers, buf, done, joined>>

\* The mux goroutine takes the next message and starts to send it around.  It
\* holds the read lock from here until no receiver is pending.
Take(u) ==
  /\ pending[u] = {}
  /\ at[u] < data[u]
  /\ at' = [at EXCEPT ![u] = @ + 1]
  /\ pending' = [pending EXCEPT ![u] = receivers[u]]
  /\ UNCHANGED <<data, receivers, buf, done, joined>>

\* Faulty variant: a select with a default drops what does not fit.
Send_dropping(u, s) ==
  /\ s \in pending[u]
  /\ buf' = [buf EXCEPT ![s] = IF Len(@) < BufferCap THEN Append(@, at[u]) ELSE @]
  /\ pending' = [pending EXCEPT ![u] = @ \ {s}]
  /\ UNCHANGED <<data, at, receivers, done, joined>>

\* r <- msg, for the receivers in any order (a Go map); a full one blocks.
Send(u, s) ==
  /\ s \in pending[u]
  /\ Len(buf[s]) < BufferCap
  /\ buf' = [buf EXCEPT ![s] = Append(@, at[u])]
  /\ pending' = [pending EXCEPT ![u] = @ \ {s}]
  /\ UNCHANGED <<data, at, receivers, done, joined>>

\* mux.add, under the write lock: not while a message is being sent around.
Add(u, s) ==
  /\ pending[u] = {}
  /\ receivers' = [receivers EXCEPT ![u] = @ \cup {s}]
  /\ joined' = [joined EXCEPT ![s] = at[u]]
  /\ UNCHANGED <<data, at, pending, buf, done>>

\* Faulty variant: the reader goroutine does not outlive its first message.
Consume_once(s) ==
  /\ buf[s] # <<>> /\ done[s] = 0
  /\ buf' = [buf EXCEPT ![s] = Tail(@)]
  /\ done' = [done EXCEPT ![s] = @ + 1]
  /\ UNCHANGED <<data, at, pending, receivers, joined>>

\* The reader of stream s takes the first message of its buffer.
Consume(s) ==
  /\ buf[s] # <<>>
  /\ buf' = [buf EXCEPT ![s] = Tail(@)]
  /\ done' = [done EXCEPT ![s] = @ + 1]
  /\ UNCHANGED <<data, at, pending, receivers, joined>>

MuxStep(u) == Take(u) \/ \E s \in Streams : Send(u, s)

-----------------------------------------------------------------------------
(* Properties.                                                             *)

MuxTypeOK ==
  /\ data \in [URIs -> Nat] /\ at \in [URIs -> Nat]
  /\ \A u \in URIs : at[u] <= data[u]
  /\ receivers \in [URIs -> SUBSET Streams]
  /\ pending \in [URIs -> SUBSET Streams]
  /\ \A u \in URIs : pending[u] \subseteq receivers[u]
  /\ buf \in [Streams -> Seq(Nat)]
  /\ \A s \in Streams : Len(buf[s]) <= BufferCap
  /\ done \in [Streams -> Nat] /\ joined \in [Streams -> Nat]

\* How many messages of u the stream s was sent.
Fed(u, s) == at[u] - joined[s] - (IF s \in pending[u] THEN 1 ELSE 0)

\* What s consumed and what is in its buffer is one unbroken run of the messages
\* of u, from where it was added on.
Unbroken(u, s) ==
  /\ joined[s] + (IF s \in pending[u] THEN 1 ELSE 0) <= at[u]
  /\ done[s] + Len(buf[s]) = Fed(u, s)
  /\ \A i \in 1..Len(buf[s]) : buf[s][i] = joined[s] + done[s] + i

\* mux.go:24 "we send (with blocking) on all of the receiver channels": a stream
\* gets every message its mux took since the stream was added, once and in order.
FedInOrder == \A u \in URIs : \A s \in receivers[u] : Unbroken(u, s)

\* A mux that holds a message waits for nothing but full buffers, and every
\* message that arrives gets to the reader of every stream in the end.
AllConsumed ==
  <>[](\A u \in URIs : receivers[u] # {} =>
         /\ at[u] = data[u] /\ pending[u] = {}
         /\ \A s \in receivers[u] : buf[s] = <<>>)
=============================================================================
