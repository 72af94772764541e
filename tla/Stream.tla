------------------------------- MODULE Stream -------------------------------
(***************************************************************************)
(* One archiver.Stream (archiver/stream.go): the goroutine of an archive   *)
(* request that takes messages off a channel, turns them into readings and *)
(* collects these per URI in a map; and, per initialised URI, a committer  *)
(* goroutine that copies the collected readings, writes them to the        *)
(* timeseries store and trims them off the map.  Map accesses are guarded  *)
(* by the stream's lock, but a read and the write-back it leads to are not *)
(* one critical section: the steps of the two goroutines interleave there. *)
(*                                                                         *)
(* The metadata store and the timeseries store are external; a call to one *)
(* succeeds or fails, and may have had its effect although it failed.      *)
(***************************************************************************)
EXTENDS Readings

CONSTANTS URIs,        \* URIs that match the subscription
          UUIDs,       \* stream identifiers
          UuidOf,      \* the stream of each URI (initialize rewrites the URI)
          Payloads,    \* contents a message may have
          BufferCap,   \* capacity of the buffer channel (10000 in the code)
          MaxMsgs,     \* bound: messages delivered
          MaxFailures, \* bound: failed AddReadings calls
          MaxRestarts  \* bound: restarts of the archiver

ASSUME UuidAssumption == UuidOf \in [URIs -> UUIDs]

ASSUME PayloadAssumption ==
  \A p \in Payloads :
    /\ p \in Payload
    /\ Increasing(p.kept)
    /\ p.kind \in {"empty", "opaque"} => p.kept = <<>>
    /\ p.kind = "scalar" => p.kept = <<1>>

ASSUME BoundAssumption == {BufferCap, MaxMsgs, MaxFailures, MaxRestarts} \subseteq Nat

VARIABLES
  sent,      \* every message put in the buffer channel so far
  taken,     \* how many of them the reader has taken out
  seen,      \* the keys of seenURIs and timeseries
  ts,        \* timeseries: the records kept for each URI
  rpc,       \* where the reader goroutine is
  rts,       \* the reader's copy of the timeseries it is extending
  cpc,       \* where the committer goroutine of each URI is
  cts,       \* the committer's copy of the timeseries, and what it writes
  docs,      \* URIs the metadata store is initialised for
  exists,    \* streams the timeseries store knows
  db,        \* for each URI, its readings in the store, as inserted
  saved,     \* history: readings the reader put in the map
  failures, restarts

storeVars == <<docs, exists, db>>
readerVars == <<taken, seen, rpc, rts>>
committerVars == <<cpc, cts>>
vars == <<sent, taken, seen, ts, rpc, rts, cpc, cts, docs, exists, db, saved,
          failures, restarts>>

Init ==
  /\ sent = <<>> /\ taken = 0
  /\ seen = {}
  /\ ts = [u \in URIs |-> <<>>]
  /\ rpc = "recv" /\ rts = <<>>
  /\ cpc = [u \in URIs |-> "off"]
  /\ cts = [u \in URIs |-> <<>>]
  /\ docs = {} /\ exists = {}
  /\ db = [u \in URIs |-> <<>>]
  /\ saved = [u \in URIs |-> {}]
  /\ failures = 0 /\ restarts = 0

\* The message the reader works on.
Msg == sent[taken]

-----------------------------------------------------------------------------
(* The environment: the subscription's mux sends on the buffer, blocking   *)
(* while it is full.                                                       *)

\* Faulty variant: one message more than the channel holds.
HasRoom_offByOne == Len(sent) - taken <= BufferCap
HasRoom == Len(sent) - taken < BufferCap

Deliver(u, p) ==
  /\ Len(sent) < MaxMsgs
  /\ HasRoom
  /\ sent' = Append(sent, [uri |-> u, load |-> p])
  /\ UNCHANGED <<ts, readerVars, committerVars, storeVars, saved, failures, restarts>>

-----------------------------------------------------------------------------
(* The reader: readPoints and initialize.                                  *)

\* A message without payload objects is dropped; one with an unseen URI marks
\* the URI seen, with an empty timeseries, before anything else is tried.
Receive ==
  /\ rpc = "recv"
  /\ taken < Len(sent)
  /\ taken' = taken + 1
  /\ LET m == sent[taken + 1]
     IN  \/ /\ m.load.kind = "empty"
            /\ UNCHANGED <<rpc, seen, ts>>
         \/ /\ m.load.kind # "empty" /\ m.uri \in seen
            /\ rpc' = "load"
            /\ UNCHANGED <<seen, ts>>
         \/ /\ m.load.kind # "empty" /\ m.uri \notin seen
            /\ rpc' = "meta"
            /\ seen' = seen \cup {m.uri}
            /\ ts' = [ts EXCEPT ![m.uri] = <<>>]
  /\ UNCHANGED <<sent, rts, committerVars, storeVars, saved, failures, restarts>>

\* metadataStore.InitializeURI.  On an error the message is dropped.
InitializeURI ==
  /\ rpc = "meta"
  /\ \/ rpc' = "exists" /\ docs' = docs \cup {Msg.uri}
     \/ rpc' = "recv" /\ docs' \in {docs, docs \cup {Msg.uri}}
  /\ UNCHANGED <<sent, taken, seen, ts, rts, committerVars, exists, db, saved,
                 failures, restarts>>

\* Initialisation is complete: the committer starts, the reader goes on.
StartCommitter == cpc' = [cpc EXCEPT ![Msg.uri] = "sleep"] /\ rpc' = "load"

\* timeseriesStore.StreamExists.
StreamExists ==
  /\ rpc = "exists"
  /\ \/ rpc' = "recv" /\ UNCHANGED cpc
     \/ UuidOf[Msg.uri] \in exists /\ StartCommitter
     \/ UuidOf[Msg.uri] \notin exists /\ rpc' = "register" /\ UNCHANGED cpc
  /\ UNCHANGED <<sent, taken, seen, ts, rts, cts, storeVars, saved, failures, restarts>>

\* What initialize does when the stream could not be registered.
\* Faulty variant: log the error and carry on.
RegisterFails_ignored == StartCommitter
RegisterFails == rpc' = "recv" /\ UNCHANGED cpc

\* timeseriesStore.RegisterStream.
RegisterStream ==
  /\ rpc = "register"
  /\ \/ StartCommitter /\ exists' = exists \cup {UuidOf[Msg.uri]}
     \/ RegisterFails /\ exists' \in {exists, exists \cup {UuidOf[Msg.uri]}}
  /\ UNCHANGED <<sent, taken, seen, ts, rts, cts, docs, db, saved, failures, restarts>>

\* The reader's copy after appending what it extracted.
\* Faulty variants: the new readings first; the new readings only.
Extended_prepend(have, new) == new \o have
Extended_fresh(have, new) == new
Extended(have, new) == have \o new

\* Read the timeseries from the map and extend the copy with the values
\* extracted from the message, unless there are none or an index is out of
\* range.  The map is not touched.
Load ==
  /\ rpc = "load"
  /\ LET p    == Msg.load
         have == ts[Msg.uri]
     IN  \/ /\ p.kind = "opaque"
            /\ rpc' = "recv" /\ UNCHANGED rts
         \/ /\ p.kind # "opaque" /\ Overruns(p, Len(have))
            /\ rpc' = "panicked" /\ UNCHANGED rts
         \/ /\ p.kind # "opaque" /\ ~Overruns(p, Len(have))
            /\ rpc' = "store"
            /\ rts' = Extended(have, Extract(p, taken, Len(have)))
  /\ UNCHANGED <<sent, taken, seen, ts, committerVars, storeVars, saved, failures, restarts>>

\* Write the extended copy back.
Store ==
  /\ rpc = "store"
  /\ ts' = [ts EXCEPT ![Msg.uri] = rts]
  /\ saved' = [saved EXCEPT ![Msg.uri] = @ \cup Range(rts)]
  /\ rpc' = "recv" /\ rts' = <<>>
  /\ UNCHANGED <<sent, taken, seen, committerVars, storeVars, failures, restarts>>

\* The deferred recover starts readPoints again; the message is gone.
Recover ==
  /\ rpc = "panicked"
  /\ rpc' = "recv"
  /\ UNCHANGED <<sent, taken, seen, ts, rts, committerVars, storeVars, saved,
                 failures, restarts>>

Reader == \/ Receive \/ InitializeURI \/ StreamExists \/ RegisterStream
          \/ Load \/ Store \/ Recover

-----------------------------------------------------------------------------
(* The committer of URI u.                                                 *)

\* Wake up and copy the timeseries; an empty one is left for the next tick.
Snapshot(u) ==
  /\ cpc[u] = "sleep"
  /\ ts[u] # <<>>
  /\ cts' = [cts EXCEPT ![u] = ts[u]]
  /\ cpc' = [cpc EXCEPT ![u] = "write"]
  /\ UNCHANGED <<sent, ts, readerVars, storeVars, saved, failures, restarts>>

\* timeseriesStore.AddReadings succeeds.
AddReadings(u) ==
  /\ cpc[u] = "write"
  /\ db' = [db EXCEPT ![u] = @ \o cts[u]]
  /\ cpc' = [cpc EXCEPT ![u] = "trim"]
  /\ UNCHANGED <<sent, ts, readerVars, cts, docs, exists, saved, failures, restarts>>

\* After a failed write the committer waits for its next tick, keeping the map.
\* Faulty variants: trim all the same; give up for good.
Retry_trims(u) == cpc' = [cpc EXCEPT ![u] = "trim"] /\ UNCHANGED cts
Retry_returns(u) == cpc' = [cpc EXCEPT ![u] = "failed"] /\ UNCHANGED cts
Retry(u) == /\ cpc' = [cpc EXCEPT ![u] = "sleep"]
            /\ cts' = [cts EXCEPT ![u] = <<>>]

\* AddReadings fails after the store took none, some or all of the readings
\* (it inserts them in batches, in order); the next tick tries again.
AddReadingsFails(u) ==
  /\ cpc[u] = "write"
  /\ failures < MaxFailures
  /\ failures' = failures + 1
  /\ \E n \in 0..Len(cts[u]) : db' = [db EXCEPT ![u] = @ \o SubSeq(cts[u], 1, n)]
  /\ Retry(u)
  /\ UNCHANGED <<sent, ts, readerVars, docs, exists, saved, restarts>>

\* What is left of the committer's copy when the readings it wrote are cut
\* off its front: it wrote all of them.
Trimmed(copy, written) == SubSeq(copy, Len(written) + 1, Len(copy))

\* Write the trimmed copy back over whatever the map holds now.
Trim(u) ==
  /\ cpc[u] = "trim"
  /\ ts' = [ts EXCEPT ![u] = Trimmed(cts[u], cts[u])]
  /\ cpc' = [cpc EXCEPT ![u] = "sleep"]
  /\ cts' = [cts EXCEPT ![u] = <<>>]
  /\ UNCHANGED <<sent, readerVars, storeVars, saved, failures, restarts>>

Committer(u) == Snapshot(u) \/ AddReadings(u) \/ AddReadingsFails(u) \/ Trim(u)

-----------------------------------------------------------------------------
\* The archiver stops (nothing is flushed) and starts again: the stores keep
\* what they have, the buffer and the map start empty.
Restart ==
  /\ restarts < MaxRestarts
  /\ restarts' = restarts + 1
  /\ taken' = Len(sent)
  /\ seen' = {}
  /\ ts' = [u \in URIs |-> <<>>]
  /\ rpc' = "recv" /\ rts' = <<>>
  /\ cpc' = [u \in URIs |-> "off"]
  /\ cts' = [u \in URIs |-> <<>>]
  /\ UNCHANGED <<sent, storeVars, saved, failures>>

Next ==
  \/ \E u \in URIs, p \in Payloads : Deliver(u, p)
  \/ Reader
  \/ \E u \in URIs : Committer(u)
  \/ Restart

Spec == Init /\ [][Next]_vars

(* Both goroutines run forever and no call to a store blocks forever.  A   *)
(* failing AddReadings is bounded by MaxFailures: the store recovers.      *)
(* Nothing is assumed of the environment, nor that a restart ever comes.   *)
Fairness == WF_vars(Reader) /\ \A u \in URIs : WF_vars(Committer(u))

FairSpec == Spec /\ Fairness

-----------------------------------------------------------------------------
(* Properties.                                                             *)

Message == [uri : URIs, load : Payloads]

ChannelOK == /\ sent \in Seq(Message)
             /\ taken \in 0..Len(sent)
             /\ Len(sent) - taken <= BufferCap

ReaderOK == /\ rpc \in {"recv", "meta", "exists", "register", "load", "store", "panicked"}
            /\ rpc # "recv" => taken > 0
            /\ rts \in Seq(Reading)

MapOK == /\ seen \in SUBSET URIs
         /\ ts \in [URIs -> Seq(Reading)]
         /\ saved \in [URIs -> SUBSET Reading]

CommitterOK == /\ cpc \in [URIs -> {"off", "sleep", "write", "trim"}]
               /\ cts \in [URIs -> Seq(Reading)]

StoreOK == /\ docs \in SUBSET URIs
           /\ exists \in SUBSET UUIDs
           /\ db \in [URIs -> Seq(Reading)]

BoundsOK == failures \in Nat /\ restarts \in Nat

\* Every variable has its type; the channel never holds more than its
\* capacity, and the reader has a message whenever it works on one.
TypeOK == ChannelOK /\ ReaderOK /\ MapOK /\ CommitterOK /\ StoreOK /\ BoundsOK

\* stream.go:91 "now we can assume the stream exists and can write to it": a
\* committer runs only for a URI that was seen in this run of the archiver,
\* has its documents and whose stream the timeseries store knows; and nothing
\* is in a stream that was never registered.
CommitterHasStream ==
  \A u \in URIs :
    /\ cpc[u] # "off" => u \in seen /\ u \in docs /\ UuidOf[u] \in exists
    /\ db[u] # <<>> => UuidOf[u] \in exists

\* What the committer is about to trim is in the timeseries store, and so is
\* everything in the store among what the reader saved for that URI.
TrimOnlyWritten ==
  \A u \in URIs :
    /\ cpc[u] = "trim" => Range(cts[u]) \subseteq Range(db[u])
    /\ Range(db[u]) \cup Range(cts[u]) \cup Range(ts[u]) \subseteq saved[u]

\* Where a saved reading still is: in the store, or on its way there.
Held(u) == Range(db[u]) \cup Range(ts[u]) \cup Range(cts[u])

\* The one way to lose a saved reading while the archiver runs is a trim that
\* overwrites readings saved after the committer took its copy.  The reader's
\* own write-back, a failed write and a retry lose nothing.
LostOnlyByTrim ==
  [][\A u \in URIs :
       LET lost == Held(u) \ Held(u)'
       IN  \/ lost = {}
           \/ restarts' # restarts
           \/ Trim(u) /\ lost \cap Range(cts[u]) = {}]_vars

\* The stream implements the abstract archive: the store grows by batches of
\* accepted readings in the order they were received, and a reading that
\* enters behind a later one was there already.
A == INSTANCE Archive WITH accepted <- saved, archived <- db
ImplementsArchive == A!Spec

\* A reader that panics is restarted, so every message is taken in the end,
\* and what is saved for a URI with a committer leaves memory in the end.
EventuallyDrained ==
  <>[](/\ taken = Len(sent)
       /\ \A u \in URIs : cpc[u] # "off" => ts[u] = <<>>)

\* stream.go:186 "generate the timeseries values from our extracted value, and
\* then save it": a saved reading is never lost while the archiver runs.
NoReadingLost == restarts = 0 => \A u \in URIs : saved[u] \subseteq Held(u)

\* stream.go:145 "if we haven't seen this URI before, then we need to initialize
\* it": readings are only collected for a URI with a committer to write them.
CollectedIsServed == \A u \in URIs : ts[u] # <<>> => cpc[u] # "off"

\* request.go:37 "Expression determining how to extract the value from the
\* received message": the i-th value of a message carries its i-th timestamp.
ValueHasItsTime == \A u \in URIs : \A r \in Range(db[u]) : r.time = r.val

-----------------------------------------------------------------------------
(* The inductive invariants behind the theorems of StreamProofs.           *)

\* While a URI is initialised it is seen, and past the metadata store it has
\* its documents.
InitProgress ==
  /\ rpc \in {"meta", "exists", "register"} => Msg.uri \in seen
  /\ rpc \in {"exists", "register"} => Msg.uri \in docs

\* A URI whose readings are collected was seen; while one is initialised its
\* committer has not started, and a committer that sleeps holds no copy.
Collecting ==
  /\ rpc # "recv" => Msg.uri \in seen
  /\ rpc \in {"meta", "exists", "register"} => cpc[Msg.uri] = "off"
  /\ \A u \in URIs : /\ ts[u] # <<>> => u \in seen
                     /\ cpc[u] \in {"off", "sleep"} => cts[u] = <<>>

\* A is a part of B, and what else is in B came after it.
Initial(A0, B0) == A0 \subseteq B0 /\ \A a \in A0, b \in B0 \ A0 : Before(a, b)

\* Nothing saved is newer than the messages the reader is done with.
SavedIsOld == \A u \in URIs : \A r \in saved[u] :
                r.msg < IF rpc = "recv" THEN taken + 1 ELSE taken

\* The copies of the timeseries that the two goroutines hold stay compatible:
\* each is in order, the committer's is the front of the map's, the map's the
\* front of the reader's, and what is in none but the store never comes behind
\* what is still to be written, unless it is a repeat.
CopiesAgree ==
  /\ \A u \in URIs :
       /\ Sorted(ts[u])
       /\ InOrder(db[u], ts[u])
       /\ cpc[u] \in {"write", "trim"} =>
            Sorted(cts[u]) /\ Initial(Range(cts[u]), Range(ts[u]))
  /\ rpc = "store" =>
       /\ Sorted(rts)
       /\ InOrder(db[Msg.uri], rts)
       /\ Initial(Range(ts[Msg.uri]), Range(rts))
       /\ \A r \in Range(rts) : r.msg <= taken

=============================================================================
