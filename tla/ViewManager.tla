----------------------------- MODULE ViewManager -----------------------------
(***************************************************************************)
(* archiver/view.go: from posts on the archiverequest topics to running    *)
(* streams.  Per listened namespace a goroutine subscribes to the topic    *)
(* and forwards what is posted there to one channel, `incoming`; a single  *)
(* handler goroutine takes the posts off it, and for each valid request    *)
(* makes a stream, finds or makes the mux of its URI and adds the stream   *)
(* to it.  Muxes, buffers and readers are those of module Mux.             *)
(*                                                                         *)
(* Left out: the calls that end the process when they fail (log.Fatal,     *)
(* ...OrExit).  A request is what distinguishes the paths of the code.     *)
(***************************************************************************)
EXTENDS Mux, Functions

CONSTANTS Namespaces,   \* namespaces, each in ListenNS
          NamespaceOf,  \* the namespace of each URI pattern
          Posts,        \* contents a post may have: sequences of requests
          IncomingCap,  \* capacity of vm.incoming (100 in the code)
          MaxPosts,     \* bound: posts on a topic
          MaxRefusals   \* bound: failed Subscribe calls

\* A "bad" request lacks a field or the permission to archive its URI (it is
\* dropped when its post is read) or has a URIMatch that is no regular
\* expression (it is dropped when it is handled).
Request == [uri : URIs, kind : {"good", "bad"}]

ASSUME NamespaceAssumption == NamespaceOf \in [URIs -> Namespaces]
ASSUME PostAssumption == Posts \subseteq Seq(Request)
ASSUME ViewBoundAssumption ==
  IncomingCap \in Nat \ {0} /\ MaxPosts \in Nat /\ MaxRefusals \in Nat

VARIABLES
  nspc,       \* where subscribeNamespace is, for each namespace
  topic,      \* posts on its topic that are not forwarded yet
  incoming,   \* vm.incoming
  hpc,        \* where the handler is
  todo,       \* requests of its current post still to handle
  locked,     \* subscriptionLock is held (only the handler ever takes it)
  muxed,      \* the keys of vm.subscriptions
  subscribed, \* namespaces whose metadata a scraper.Listener collects
  streams,    \* the URI of each stream made so far
  posted,     \* history: posts on the topics
  listeners,  \* history: Listeners started per namespace
  calls,      \* history: successful Subscribe calls per URI
  good,       \* history: good requests in the posts taken, per URI
  refused     \* history: Subscribe calls that failed, per URI

viewVars == <<nspc, topic, incoming, hpc, todo, locked, muxed, subscribed, streams,
              posted, listeners, calls, good, refused>>
vars == <<muxVars, viewVars>>

Init ==
  /\ MuxInit
  /\ nspc = [n \in Namespaces |-> "start"]
  /\ topic = [n \in Namespaces |-> <<>>]
  /\ incoming = <<>>
  /\ hpc = "idle" /\ todo = <<>> /\ locked = FALSE
  /\ muxed = {} /\ subscribed = {} /\ streams = <<>>
  /\ posted = 0
  /\ listeners = [n \in Namespaces |-> 0]
  /\ calls = [u \in URIs |-> 0] /\ good = [u \in URIs |-> 0] /\ refused = [u \in URIs |-> 0]

Total(f) == FoldFunction(+, 0, f)

\* The requests for URI u in a sequence of requests.
For(u, q) == Cardinality({i \in DOMAIN q : q[i].kind = "good" /\ q[i].uri = u})

-----------------------------------------------------------------------------
(* Namespaces.  namespaceLock is held by a subscribeNamespace that is      *)
(* connecting, and by the handler within a step.                           *)

NamespaceLockFree == \A n \in Namespaces : nspc[n] # "connecting"

\* Somebody posts requests for URIs of the namespace, after the archiver
\* subscribed to the topic.
Post(n, p) ==
  /\ nspc[n] \in {"connecting", "forwarding"}
  /\ posted < MaxPosts
  /\ posted' = posted + 1
  /\ topic' = [topic EXCEPT ![n] = Append(@, p)]
  /\ UNCHANGED <<muxVars, nspc, incoming, hpc, todo, locked, muxed, subscribed, streams,
                 listeners, calls, good, refused>>

\* The goroutine takes the lock and subscribes.
Connect(n) ==
  /\ nspc[n] = "start"
  /\ NamespaceLockFree
  /\ nspc' = [nspc EXCEPT ![n] = "connecting"]
  /\ UNCHANGED <<muxVars, topic, incoming, hpc, todo, locked, muxed, subscribed, streams,
                 posted, listeners, calls, good, refused>>

\* It resolves the namespace and starts to forward, or gives up; either way
\* the lock is released.
Resolve(n) ==
  /\ nspc[n] = "connecting"
  /\ \E to \in {"forwarding", "gaveup"} : nspc' = [nspc EXCEPT ![n] = to]
  /\ UNCHANGED <<muxVars, topic, incoming, hpc, todo, locked, muxed, subscribed, streams,
                 posted, listeners, calls, good, refused>>

\* Faulty variant: the channel takes one more than it holds.
IncomingRoom_offByOne == Len(incoming) <= IncomingCap
IncomingRoom == Len(incoming) < IncomingCap

\* vm.incoming <- msg.
Forward(n) ==
  /\ nspc[n] = "forwarding"
  /\ topic[n] # <<>>
  /\ IncomingRoom
  /\ incoming' = Append(incoming, Head(topic[n]))
  /\ topic' = [topic EXCEPT ![n] = Tail(@)]
  /\ UNCHANGED <<muxVars, nspc, hpc, todo, locked, muxed, subscribed, streams, posted,
                 listeners, calls, good, refused>>

Namespace(n) == Connect(n) \/ Resolve(n) \/ Forward(n)

-----------------------------------------------------------------------------
(* The handler.                                                            *)

Current == Head(todo)

\* Take a post.
TakePost ==
  /\ hpc = "idle"
  /\ incoming # <<>>
  /\ incoming' = Tail(incoming)
  /\ todo' = Head(incoming)
  /\ good' = [u \in URIs |-> good[u] + For(u, Head(incoming))]
  /\ hpc' = "next"
  /\ UNCHANGED <<muxVars, nspc, topic, locked, muxed, subscribed, streams, posted,
                 listeners, calls, refused>>

\* HandleArchiveRequest up to the lock: a bad request is logged and skipped.
NextRequest ==
  /\ hpc = "next"
  /\ \/ todo = <<>> /\ hpc' = "idle" /\ UNCHANGED todo
     \/ todo # <<>> /\ Current.kind = "bad"
        /\ todo' = Tail(todo) /\ UNCHANGED hpc
     \/ todo # <<>> /\ Current.kind = "good"
        /\ hpc' = "lock" /\ UNCHANGED todo
  /\ UNCHANGED <<muxVars, nspc, topic, incoming, locked, muxed, subscribed, streams,
                 posted, listeners, calls, good, refused>>

\* Faulty variant: only a new mux is followed by an unlock.
LookUp_keepsLock ==
  /\ hpc = "lock"
  /\ ~locked
  /\ hpc' = IF Current.uri \in muxed THEN "add" ELSE "listen"
  /\ locked' = TRUE
  /\ UNCHANGED <<muxVars, nspc, topic, incoming, todo, muxed, subscribed, streams, posted,
                 listeners, calls, good, refused>>

\* subscriptionLock.Lock(), which blocks while it is held; then look for the
\* mux of the URI, and unlock again if there is one.
LookUp ==
  /\ hpc = "lock"
  /\ ~locked
  /\ IF Current.uri \in muxed THEN hpc' = "add" /\ UNCHANGED locked
                              ELSE hpc' = "listen" /\ locked' = TRUE
  /\ UNCHANGED <<muxVars, nspc, topic, incoming, todo, muxed, subscribed, streams, posted,
                 listeners, calls, good, refused>>

\* Faulty variant: the namespace is not marked.
Marked_forgotten(n) == subscribed
Marked(n) == subscribed \cup {n}

\* Under namespaceLock: the first URI of a namespace starts its Listener.
Listen ==
  /\ hpc = "listen"
  /\ NamespaceLockFree
  /\ LET n == NamespaceOf[Current.uri]
     IN  IF n \in subscribed
         THEN UNCHANGED <<subscribed, listeners>>
         ELSE /\ listeners' = [listeners EXCEPT ![n] = @ + 1]
              /\ subscribed' = Marked(n)
  /\ hpc' = "subscribe"
  /\ UNCHANGED <<muxVars, nspc, topic, incoming, todo, locked, muxed, streams, posted,
                 calls, good, refused>>

\* Faulty variant: the mux is not entered in vm.subscriptions.
Entered_forgotten(u) == muxed
Entered(u) == muxed \cup {u}

\* Subscribe succeeds: a new mux, and the lock is released.
Subscribe ==
  /\ hpc = "subscribe"
  /\ calls' = [calls EXCEPT ![Current.uri] = @ + 1]
  /\ muxed' = Entered(Current.uri)
  /\ locked' = FALSE
  /\ hpc' = "add"
  /\ UNCHANGED <<muxVars, nspc, topic, incoming, todo, subscribed, streams, posted,
                 listeners, good, refused>>

\* Subscribe fails: return the error.  subscriptionLock stays locked.
SubscribeFails ==
  /\ hpc = "subscribe"
  /\ Total(refused) < MaxRefusals
  /\ refused' = [refused EXCEPT ![Current.uri] = @ + 1]
  /\ todo' = Tail(todo)
  /\ hpc' = "next"
  /\ UNCHANGED <<muxVars, nspc, topic, incoming, locked, muxed, subscribed, streams,
                 posted, listeners, calls, good>>

\* Faulty variant: the next request is skipped with this one.
Rest_skips(q) == IF Len(q) > 1 THEN Tail(Tail(q)) ELSE <<>>
Rest(q) == Tail(q)

\* Add the stream to the mux, which may have to finish sending a message, and
\* start it.
AddStream ==
  /\ hpc = "add"
  /\ Len(streams) < MaxStreams
  /\ streams' = Append(streams, Current.uri)
  /\ Add(Current.uri, Len(streams) + 1)
  /\ todo' = Rest(todo)
  /\ hpc' = "next"
  /\ UNCHANGED <<nspc, topic, incoming, locked, muxed, subscribed, posted, listeners,
                 calls, good, refused>>

Handler == \/ TakePost \/ NextRequest \/ LookUp \/ Listen \/ Subscribe
           \/ SubscribeFails \/ AddStream

-----------------------------------------------------------------------------
\* A message on a subscribed URI.
Data(u) == calls[u] > 0 /\ Publish(u)

Next ==
  \/ \E n \in Namespaces : Namespace(n) \/ \E p \in Posts : Post(n, p)
  \/ Handler
  \/ \E u \in URIs : (Data(u) \/ MuxStep(u)) /\ UNCHANGED viewVars
  \/ \E s \in Streams : Consume(s) /\ UNCHANGED viewVars

Spec == Init /\ [][Next]_vars

(* Every goroutine keeps running, and the calls to BOSSWAVE come back.  The *)
(* handler waits for a write lock in AddStream: Go lets no new reader pass  *)
(* a waiting writer, hence strong fairness there.  Nobody has to post.      *)
Fairness ==
  /\ \A n \in Namespaces : WF_vars(Namespace(n))
  /\ WF_vars(Handler) /\ SF_vars(AddStream)
  /\ \A u \in URIs : WF_vars(MuxStep(u) /\ UNCHANGED viewVars)
  /\ \A s \in Streams : WF_vars(Consume(s) /\ UNCHANGED viewVars)

FairSpec == Spec /\ Fairness

-----------------------------------------------------------------------------
(* Properties.                                                             *)

ViewTypeOK ==
  /\ nspc \in [Namespaces -> {"start", "connecting", "forwarding", "gaveup"}]
  /\ topic \in [Namespaces -> Seq(Posts)]
  /\ incoming \in Seq(Posts) /\ Len(incoming) <= IncomingCap
  /\ hpc \in {"idle", "next", "lock", "listen", "subscribe", "add"}
  /\ todo \in Seq(Request)
  /\ hpc \in {"lock", "listen", "subscribe", "add"} => todo # <<>>
  /\ locked \in BOOLEAN
  /\ muxed \in SUBSET URIs /\ subscribed \in SUBSET Namespaces
  /\ streams \in Seq(URIs) /\ Len(streams) <= MaxStreams
  /\ posted \in Nat /\ listeners \in [Namespaces -> Nat]
  /\ \A f \in {calls, good, refused} : f \in [URIs -> Nat]

\* Every variable has its type, vm.incoming never holds more than its capacity
\* and the handler has a request whenever it works on one.
TypeOK == MuxTypeOK /\ ViewTypeOK

\* view.go:182-213: whatever requests come in which order, the archiver
\* subscribes at most once to a URI and collects the metadata of a namespace
\* once, and before it feeds the first stream from there.
OneSubscription ==
  /\ \A u \in URIs :
       /\ calls[u] <= 1
       /\ receivers[u] # {} => calls[u] = 1 /\ listeners[NamespaceOf[u]] = 1
  /\ \A n \in Namespaces : listeners[n] <= 1

\* A mux feeds the streams of its own URI and no others.
StreamsPlaced == \A u \in URIs : receivers[u] = {s \in DOMAIN streams : streams[s] = u}

\* A good request that was taken has exactly one stream, fed by the mux of its
\* own URI, unless it is still to be handled or its subscription was refused.
RequestsAccounted ==
  /\ \A u \in URIs : good[u] = Cardinality(receivers[u]) + For(u, todo) + refused[u]
  /\ StreamsPlaced

Handled ==
  /\ \A n \in Namespaces : nspc[n] = "forwarding" => topic[n] = <<>>
  /\ incoming = <<>> /\ hpc = "idle"

\* Unless a Subscribe call failed, every post that is forwarded is handled.
HandledUnlessRefused == <>[](Total(refused) > 0 \/ Handled)

\* view.go:107 "For each received message on the URI, we extract the list of
\* ArchiveRequests": every message is handled.
EveryPostHandled == <>[]Handled

-----------------------------------------------------------------------------
(* The inductive invariants behind the theorems of ViewProofs.             *)

\* A stream that was not made yet has an empty buffer.
Untouched == \A s \in Streams \ DOMAIN streams : buf[s] = <<>> /\ done[s] = 0

\* The maps tell how often the calls they guard were made, and the handler
\* keeps what it looked up in them until it has acted on it.
MapsTell ==
  /\ \A u \in URIs :
       /\ calls[u] = IF u \in muxed THEN 1 ELSE 0
       /\ u \in muxed => NamespaceOf[u] \in subscribed
       /\ receivers[u] # {} => u \in muxed
  /\ \A n \in Namespaces : listeners[n] = IF n \in subscribed THEN 1 ELSE 0
  /\ hpc \in {"listen", "subscribe"} => Current.uri \notin muxed
  /\ hpc = "subscribe" => NamespaceOf[Current.uri] \in subscribed
  /\ hpc = "add" => Current.uri \in muxed
=============================================================================
