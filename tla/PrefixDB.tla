------------------------------ MODULE PrefixDB ------------------------------
(***************************************************************************)
(* The metadata scraper: one scraper.Listener (scraper/scraper.go) and the *)
(* prefix database it fills (scraper/prefixdb.go).  Metadata is published  *)
(* at sites of the URI tree.  The Listener subscribes, queries what is     *)
(* there already, and hands the messages to a pool of workers; a worker    *)
(* puts the record in the database in a transaction, of which there is one *)
(* at a time, and marks the URIs it concerns for refreshing.               *)
(*                                                                         *)
(* The n-th value published at a site is its version n; 0 is no value.     *)
(* Steps of the calls that end the process when they fail are left out.    *)
(***************************************************************************)
EXTENDS Naturals, Sequences, FiniteSets, Functions, SequencesExt

CONSTANTS Sites,       \* places where metadata is published
          URIs,        \* URIs of archived data, which inherit from sites
          PathOf,      \* the sites on the path to each URI, from the root on
          Marks,       \* URIs whose bytes begin with those of the site
          Workers,     \* the Listener's workers (10 in the code)
          MaxVersion,  \* bound: values published per site
          MaxFaults    \* bound: failed calls to a database or to BOSSWAVE,
                       \* and restarts of the archiver

Under(s, u) == s \in Range(PathOf[u])

ASSUME PathAssumption == IsFiniteSet(Sites) /\ PathOf \in [URIs -> Seq(Sites)]
ASSUME MarksAssumption ==
  /\ Marks \in [Sites -> SUBSET URIs]
  /\ \A s \in Sites, u \in URIs : Under(s, u) => u \in Marks[s]
ASSUME MetadataBoundAssumption == {MaxVersion, MaxFaults} \subseteq Nat

VARIABLES
  version,    \* values published at each site so far; the last one persists
  lpc,        \* where Listener.Init is
  sub,        \* subc: what the subscription brought and nobody took
  feed,       \* queryc: results of the query that nobody took
  nils,       \* those of the two channels that are nil
  wpc, wmsg,  \* where each worker is, and its message
  tx,         \* the open transaction: a set with the worker that opened it
  store,      \* the version of each site in the database
  used,       \* usagefilter: sites that some Lookup read
  recording,  \* URIs whose dependency a background goroutine is to record
  deps,       \* the dependency database: URIs someone has run Lookup for
  dirty,      \* updated: URIs whose documents are to be refreshed
  failures, restarts

listenVars == <<lpc, sub, feed, nils>>
workVars == <<wpc, wmsg, tx>>
lookupVars == <<used, recording, deps>>
countVars == <<failures, restarts>>
prefixVars == <<version, listenVars, workVars, store, lookupVars, dirty, countVars>>

PrefixInit ==
  /\ version = [s \in Sites |-> 0]
  /\ lpc = "subscribe" /\ sub = <<>> /\ feed = <<>> /\ nils = {}
  /\ wpc = [w \in Workers |-> "idle"] /\ wmsg = [w \in Workers |-> <<>>]
  /\ tx = {}
  /\ store = [s \in Sites |-> 0]
  /\ used = {} /\ recording = {} /\ deps = {} /\ dirty = {}
  /\ failures = 0 /\ restarts = 0

MayFault == failures + restarts < MaxFaults
Fail == MayFault /\ failures' = failures + 1

-----------------------------------------------------------------------------
(* Listener.Init.                                                          *)

\* Somebody publishes metadata at a site.
Publish(s) ==
  /\ version[s] < MaxVersion
  /\ version' = [version EXCEPT ![s] = @ + 1]
  /\ IF lpc = "subscribe" \/ "sub" \in nils
     THEN UNCHANGED sub
     ELSE sub' = Append(sub, <<s, version[s] + 1>>)
  /\ UNCHANGED <<lpc, feed, nils, workVars, store, lookupVars, dirty, countVars>>

\* MultiSubscribe.  After an error the loop sleeps and breaks, with no channel.
ListenSubscribe ==
  /\ lpc = "subscribe"
  /\ lpc' = "query"
  /\ \/ UNCHANGED <<nils, failures>>
     \/ nils' = nils \cup {"sub"} /\ Fail
  /\ UNCHANGED <<version, sub, feed, workVars, store, lookupVars, dirty, restarts>>

\* Query: the persisted messages, in any order.  An error as above.
ListenQuery ==
  /\ lpc = "query"
  /\ lpc' = "run"
  /\ \/ /\ \E q \in SetToSeqs({<<s, version[s]>> : s \in {r \in Sites : version[r] > 0}}) :
             feed' = q
        /\ UNCHANGED <<nils, failures>>
     \/ nils' = nils \cup {"feed"} /\ UNCHANGED feed /\ Fail
  /\ UNCHANGED <<version, sub, workVars, store, lookupVars, dirty, restarts>>

-----------------------------------------------------------------------------
(* Workers.                                                                *)

\* A worker takes a message: first what the query returned, then what the
\* subscription brings; a nil channel never yields anything.
TakeMessage(w) ==
  /\ lpc = "run" /\ wpc[w] = "idle"
  /\ "feed" \notin nils
  /\ IF feed # <<>>
     THEN /\ wmsg' = [wmsg EXCEPT ![w] = Head(feed)]
          /\ feed' = Tail(feed) /\ UNCHANGED sub
     ELSE /\ sub # <<>>
          /\ wmsg' = [wmsg EXCEPT ![w] = Head(sub)]
          /\ sub' = Tail(sub) /\ UNCHANGED feed
  /\ wpc' = [wpc EXCEPT ![w] = "open"]
  /\ UNCHANGED <<version, lpc, nils, tx, store, lookupVars, dirty, countVars>>

\* Faulty variant: a transaction is opened beside an open one.
OpenTransaction_shared(w) ==
  /\ wpc[w] = "open"
  /\ tx' = {w}
  /\ wpc' = [wpc EXCEPT ![w] = "mark"]
  /\ UNCHANGED <<version, listenVars, wmsg, store, lookupVars, dirty, countVars>>

\* OpenTransaction blocks while there is an open one.
OpenTransaction(w) ==
  /\ wpc[w] = "open"
  /\ tx = {}
  /\ tx' = {w}
  /\ wpc' = [wpc EXCEPT ![w] = "mark"]
  /\ UNCHANGED <<version, listenVars, wmsg, store, lookupVars, dirty, countVars>>

\* The URIs to refresh when site s changes.
\* Faulty variant: those of the site itself only.
Affected_exact(s) == {u \in deps : PathOf[u] # <<>> /\ Last(PathOf[u]) = s}
Affected(s) == deps \cap Marks[s]

\* If the site has been read by a Lookup (the Bloom filter may also say so when
\* it has not), mark every dependent URI dirty.
MarkDirty(w) ==
  /\ wpc[w] = "mark"
  /\ LET s == wmsg[w][1]
     IN  \/ dirty' = dirty \cup Affected(s)
         \/ s \notin used /\ UNCHANGED dirty
  /\ wpc' = [wpc EXCEPT ![w] = "commit"]
  /\ UNCHANGED <<version, listenVars, wmsg, tx, store, lookupVars, countVars>>

\* The record becomes visible, and another worker may open a transaction.
\* Faulty variant: the transaction is not closed.
AfterCommit_open == tx
AfterCommit == {}

Commit(w) ==
  /\ wpc[w] = "commit"
  /\ store' = [store EXCEPT ![wmsg[w][1]] = wmsg[w][2]]
  /\ tx' = AfterCommit
  /\ wpc' = [wpc EXCEPT ![w] = "idle"] /\ wmsg' = [wmsg EXCEPT ![w] = <<>>]
  /\ UNCHANGED <<version, listenVars, lookupVars, dirty, countVars>>

\* Commit fails: the worker logs it and goes on; the transaction is neither
\* retried nor discarded, so it stays open.
CommitFails(w) ==
  /\ wpc[w] = "commit"
  /\ Fail
  /\ wpc' = [wpc EXCEPT ![w] = "idle"] /\ wmsg' = [wmsg EXCEPT ![w] = <<>>]
  /\ UNCHANGED <<version, listenVars, tx, store, lookupVars, dirty, restarts>>

Worker(w) == \/ TakeMessage(w) \/ OpenTransaction(w) \/ MarkDirty(w)
             \/ Commit(w) \/ CommitFails(w)

-----------------------------------------------------------------------------
(* Lookup, which its callers run one site at a time.                       *)

\* The document of a Lookup that has read nothing yet: no versions.
NoDoc == [s \in Sites |-> 0]

\* Read the i-th site on the path of u into doc: the filter learns the site
\* before the database is read.
ReadSite(u, i) == used' = used \cup {PathOf[u][i]}
WithSite(doc, u, i) == [doc EXCEPT ![PathOf[u][i]] = store[PathOf[u][i]]]

\* Afterwards a goroutine is spawned to record that u was looked up.
SpawnRecord(u) == recording' = recording \cup {u}

RecordDependency(u) ==
  /\ u \in recording
  /\ recording' = recording \ {u}
  /\ deps' = deps \cup {u}
  /\ UNCHANGED <<version, listenVars, workVars, store, used, dirty, countVars>>

\* The background steps of the scraper.
Scraper == \/ ListenSubscribe \/ ListenQuery
           \/ \E w \in Workers : Worker(w)
           \/ \E u \in URIs : RecordDependency(u)
=============================================================================
