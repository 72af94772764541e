---------------------------- MODULE MetadataStore ----------------------------
(***************************************************************************)
(* The metadata store (archiver/metadata_store.go): MongoDB documents, one *)
(* per archived URI, made from the prefix database when a stream sees the  *)
(* URI for the first time, and kept up to date by a goroutine that every   *)
(* 30 seconds looks up again the URIs the scraper marked dirty.            *)
(*                                                                         *)
(* One stream per URI is modelled, so a URI stands for its UUID too.  The  *)
(* database MongoDB is external: an operation takes effect or fails.       *)
(***************************************************************************)
EXTENDS PrefixDB

VARIABLES
  documents, \* for each URI with a document, the versions in it
  uuidtouri, \* URIs in the collection that maps UUIDs to URIs
  uricache,  \* URIs in the cache in front of it
  ipc,       \* where InitializeURI is, for each URI
  idoc,      \* the document it builds, and how many sites it read
  rpc,       \* where the refreshing goroutine is
  torefresh, \* URIs it still has to look up, or to find the UUID of
  rdoc,      \* the lookup under way
  found      \* documents looked up in this round

mongoVars == <<documents, uuidtouri>>
initVars == <<ipc, idoc>>
refreshVars == <<rpc, torefresh, rdoc, found>>
vars == <<prefixVars, mongoVars, uricache, initVars, refreshVars>>

NoLookup == [n |-> 0, doc |-> NoDoc]

Init ==
  /\ PrefixInit
  /\ documents = <<>> /\ uuidtouri = {} /\ uricache = {}
  /\ ipc = [u \in URIs |-> "off"] /\ idoc = [u \in URIs |-> NoLookup]
  /\ rpc = "sleep" /\ torefresh = {} /\ rdoc = NoLookup /\ found = <<>>

\* A document is written, whether there was one or not.
Put(docs, u, doc) == [v \in DOMAIN docs \cup {u} |-> IF v = u THEN doc ELSE docs[v]]

\* One step of Lookup(u): l is the lookup so far.
Reading(u, l) == l.n < Len(PathOf[u])
ReadOn(u, l) == [n |-> l.n + 1, doc |-> WithSite(l.doc, u, l.n + 1)]

-----------------------------------------------------------------------------
(* InitializeURI(u), run by the reader of a stream.                        *)

Start(u) ==
  /\ ipc[u] = "off"
  /\ ipc' = [ipc EXCEPT ![u] = "lookup"]
  /\ idoc' = [idoc EXCEPT ![u] = NoLookup]
  /\ UNCHANGED <<prefixVars, mongoVars, uricache, refreshVars>>

InitRead(u) ==
  /\ ipc[u] = "lookup" /\ Reading(u, idoc[u])
  /\ idoc' = [idoc EXCEPT ![u] = ReadOn(u, @)]
  /\ ReadSite(u, idoc[u].n + 1)
  /\ UNCHANGED <<version, listenVars, workVars, store, recording, deps, dirty, countVars,
                 mongoVars, uricache, ipc, refreshVars>>

\* Nothing left to read: Lookup spawns the recording of the dependency.
InitLookedUp(u) ==
  /\ ipc[u] = "lookup" /\ ~Reading(u, idoc[u])
  /\ SpawnRecord(u)
  /\ ipc' = [ipc EXCEPT ![u] = "document"]
  /\ UNCHANGED <<version, listenVars, workVars, store, used, deps, dirty, countVars,
                 mongoVars, uricache, idoc, refreshVars>>

\* Faulty variant: the mapping before the document.
UpsertDocument_late(u) ==
  /\ ipc[u] = "document"
  /\ uuidtouri' = uuidtouri \cup {u} /\ UNCHANGED documents
  /\ ipc' = [ipc EXCEPT ![u] = "map"]
  /\ UNCHANGED <<prefixVars, uricache, idoc, refreshVars>>

\* documents.Upsert.
UpsertDocument(u) ==
  /\ ipc[u] = "document"
  /\ documents' = Put(documents, u, idoc[u].doc)
  /\ ipc' = [ipc EXCEPT ![u] = "map"]
  /\ UNCHANGED <<prefixVars, uuidtouri, uricache, idoc, refreshVars>>

\* uuidtouri.Upsert, and the cache.
UpsertMapping(u) ==
  /\ ipc[u] = "map"
  /\ uuidtouri' = uuidtouri \cup {u}
  /\ uricache' = uricache \cup {u}
  /\ ipc' = [ipc EXCEPT ![u] = "done"]
  /\ UNCHANGED <<prefixVars, documents, idoc, refreshVars>>

\* An upsert fails, perhaps after it took effect: the stream gets the error, and
\* never tries again.
InitFails(u) ==
  /\ ipc[u] \in {"document", "map"}
  /\ Fail
  /\ ipc' = [ipc EXCEPT ![u] = "failed"]
  /\ \/ UNCHANGED mongoVars
     \/ /\ ipc[u] = "document" /\ UNCHANGED uuidtouri
        /\ documents' = Put(documents, u, idoc[u].doc)
     \/ ipc[u] = "map" /\ uuidtouri' = uuidtouri \cup {u} /\ UNCHANGED documents
  /\ UNCHANGED <<version, listenVars, workVars, store, lookupVars, dirty, restarts,
                 uricache, idoc, refreshVars>>

InitializeURI(u) ==
  \/ InitRead(u) \/ InitLookedUp(u)
  \/ UpsertDocument(u) \/ UpsertMapping(u) \/ InitFails(u)

-----------------------------------------------------------------------------
(* The refreshing goroutine.                                               *)

\* Faulty variant: iterating up to the last mark, without it.
Taken_butLast(d) == IF Cardinality(d) = 1 THEN d ELSE d \ {CHOOSE u \in d : TRUE}
Taken(d) == d

\* GetUpdatedDocuments takes the marks, and clears them, under the lock.
TakeDirty ==
  /\ rpc = "sleep"
  /\ dirty # {}
  /\ torefresh' = Taken(dirty)
  /\ dirty' = {}
  /\ rpc' = "lookup" /\ found' = <<>>
  /\ UNCHANGED <<version, listenVars, workVars, store, lookupVars, countVars, mongoVars,
                 uricache, initVars, rdoc>>

\* The tree of marks is walked in its own order.
Next1 == CHOOSE u \in torefresh : TRUE

RefreshRead ==
  /\ rpc = "lookup"
  /\ Reading(Next1, rdoc)
  /\ rdoc' = ReadOn(Next1, rdoc)
  /\ ReadSite(Next1, rdoc.n + 1)
  /\ UNCHANGED <<version, listenVars, workVars, store, recording, deps, dirty, countVars,
                 mongoVars, uricache, initVars, rpc, torefresh, found>>

\* Faulty variant: one document for all the lookups of a round.
Afresh_shared == [n |-> 0, doc |-> rdoc.doc]
Afresh == NoLookup

\* A document is looked up.  After the last, they need their UUIDs.
RefreshLookedUp ==
  /\ rpc = "lookup"
  /\ ~Reading(Next1, rdoc)
  /\ SpawnRecord(Next1)
  /\ found' = Put(found, Next1, rdoc.doc)
  /\ IF torefresh = {Next1}
     THEN rpc' = "resolve" /\ torefresh' = DOMAIN found'
     ELSE UNCHANGED rpc /\ torefresh' = torefresh \ {Next1}
  /\ rdoc' = Afresh
  /\ UNCHANGED <<version, listenVars, workVars, store, used, deps, dirty, countVars,
                 mongoVars, uricache, initVars>>

\* UUIDFromURI: the cache, else the collection.  When it returns an error, be
\* it for a URI that is not initialised yet, the document is skipped.
UUIDFromURI ==
  /\ rpc = "resolve" /\ torefresh # {}
  /\ \/ /\ Next1 \in uricache \cup uuidtouri
        /\ uricache' = uricache \cup {Next1}
        /\ UNCHANGED <<found, failures>>
     \/ /\ Next1 \notin uricache
        /\ Next1 \in uuidtouri => MayFault
        /\ failures' = IF Next1 \in uuidtouri THEN failures + 1 ELSE failures
        /\ found' = Restrict(found, DOMAIN found \ {Next1})
        /\ UNCHANGED uricache
  /\ torefresh' = torefresh \ {Next1}
  /\ UNCHANGED <<version, listenVars, workVars, store, lookupVars, dirty, restarts,
                 mongoVars, initVars, rpc, rdoc>>

\* $set writes what the new document has and keeps the rest.
SetDoc(old, new) == [s \in Sites |-> IF new[s] = 0 THEN old[s] ELSE new[s]]
Updated(S) == [u \in DOMAIN documents |->
                 IF u \in S THEN SetDoc(documents[u], found[u]) ELSE documents[u]]

\* The bulk update of the documents that exist; it may fail halfway.
BulkUpdate ==
  /\ rpc = "resolve" /\ torefresh = {}
  /\ \/ documents' = Updated(DOMAIN found) /\ UNCHANGED failures
     \/ Fail /\ \E S \in SUBSET DOMAIN found : documents' = Updated(S)
  /\ rpc' = "sleep" /\ found' = <<>>
  /\ UNCHANGED <<version, listenVars, workVars, store, lookupVars, dirty, restarts,
                 uuidtouri, uricache, initVars, torefresh, rdoc>>

Refresher == \/ TakeDirty \/ RefreshRead \/ RefreshLookedUp
             \/ UUIDFromURI \/ BulkUpdate

-----------------------------------------------------------------------------
\* The archiver stops and starts again.  What was marked, the filter and the
\* cache are gone; BOSSWAVE and the databases keep what they have.
Restart ==
  /\ MayFault
  /\ restarts' = restarts + 1
  /\ lpc' = "subscribe" /\ sub' = <<>> /\ feed' = <<>> /\ nils' = {}
  /\ wpc' = [w \in Workers |-> "idle"] /\ wmsg' = [w \in Workers |-> <<>>]
  /\ tx' = {}
  /\ used' = {} /\ recording' = {} /\ dirty' = {}
  /\ uricache' = {}
  /\ ipc' = [u \in URIs |-> "off"] /\ idoc' = [u \in URIs |-> NoLookup]
  /\ rpc' = "sleep" /\ torefresh' = {} /\ rdoc' = NoLookup /\ found' = <<>>
  /\ UNCHANGED <<version, store, deps, failures, mongoVars>>

mongoSide == <<mongoVars, uricache, initVars, refreshVars>>

Next ==
  \/ \E s \in Sites : Publish(s) /\ UNCHANGED mongoSide
  \/ Scraper /\ UNCHANGED mongoSide
  \/ \E u \in URIs : Start(u) \/ InitializeURI(u)
  \/ Refresher
  \/ Restart

Spec == Init /\ [][Next]_vars

(* Goroutines keep running and calls to databases come back.  Nobody has to *)
(* publish, no URI has to be archived, and no restart has to come.          *)
Fairness ==
  /\ WF_vars((ListenSubscribe \/ ListenQuery) /\ UNCHANGED mongoSide)
  /\ \A w \in Workers : WF_vars(Worker(w) /\ UNCHANGED mongoSide)
  /\ \A u \in URIs : WF_vars(RecordDependency(u) /\ UNCHANGED mongoSide)
  /\ \A u \in URIs : WF_vars(InitializeURI(u))
  /\ WF_vars(Refresher)

FairSpec == Spec /\ Fairness

-----------------------------------------------------------------------------
(* Properties.                                                             *)

Doc == [Sites -> Nat]
Lookup == [n : Nat, doc : Doc]

PrefixTypeOK ==
  /\ version \in [Sites -> Nat] /\ store \in [Sites -> Nat]
  /\ lpc \in {"subscribe", "query", "run"} /\ nils \subseteq {"sub", "feed"}
  /\ sub \in Seq(Sites \X Nat) /\ feed \in Seq(Sites \X Nat)
  /\ wpc \in [Workers -> {"idle", "open", "mark", "commit"}]
  /\ \A w \in Workers : wpc[w] # "idle" => wmsg[w] \in Sites \X Nat
  /\ \A w \in Workers : wpc[w] \in {"mark", "commit"} => tx = {w}
  /\ used \subseteq Sites /\ recording \cup deps \cup dirty \subseteq URIs
  /\ failures \in Nat /\ restarts \in Nat

\* Every variable has its type, and the open transaction is that of the one
\* worker that marks or commits.
TypeOK ==
  /\ PrefixTypeOK
  /\ DOMAIN documents \subseteq URIs /\ \A u \in DOMAIN documents : documents[u] \in Doc
  /\ uuidtouri \cup uricache \subseteq URIs
  /\ ipc \in [URIs -> {"off", "lookup", "document", "map", "done", "failed"}]
  /\ idoc \in [URIs -> Lookup]
  /\ rpc \in {"sleep", "lookup", "resolve"} /\ torefresh \subseteq URIs
  /\ rdoc \in Lookup
  /\ DOMAIN found \subseteq URIs /\ \A u \in DOMAIN found : found[u] \in Doc

\* metadata_store.go:188: a URI the cache or the collection knows has its
\* document, across errors between the upserts and restarts, and a URI whose
\* initialisation went through is known.
KnownHasDocument ==
  /\ uricache \subseteq uuidtouri /\ uuidtouri \subseteq DOMAIN documents
  /\ \A u \in URIs : ipc[u] = "done" => u \in uuidtouri

\* A document holds what sites on the path of its URI have published, and
\* nothing else; nor does anything on its way into a document.
InheritsFromPath ==
  \A u \in URIs :
    \A d \in {documents[v] : v \in DOMAIN documents \cap {u}}
             \cup {found[v] : v \in DOMAIN found \cap {u}} \cup {idoc[u].doc} :
      \A s \in Sites : d[s] > 0 => Under(s, u) /\ d[s] <= version[s]

\* Without errors, whatever is published while the Listener runs or before is
\* put in the database in the end.
EverythingInserted ==
  <>[](\/ failures > 0
       \/ feed = <<>> /\ sub = <<>> /\ \A w \in Workers : wpc[w] = "idle")

\* A mark that is still there when a version is in the database gets that
\* version, or a later one, to the document of an initialised URI.
MarkIsHonoured ==
  \A u \in URIs : \A s \in Range(PathOf[u]), v \in 1..MaxVersion :
    u \in dirty /\ ipc[u] = "done" /\ store[s] = v
      ~> \/ store[s] # v \/ failures > 0 \/ ipc[u] # "done"
         \/ documents[u][s] = v

\* scraper/README.md:3 "Key is to get this CONSISTENT": in the end, the document
\* of an initialised URI has the last version of every site on its path.
Consistent ==
  <>[](\A u \in URIs : ipc[u] = "done" =>
         \A s \in Sites : Under(s, u) => documents[u][s] = version[s])
=============================================================================
