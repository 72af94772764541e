--------------------------- MODULE MetadataProofs ---------------------------
(* Theorems about MetadataStore and the prefix database it is filled from,   *)
(* for any sites, URIs, paths, workers and bounds.                          *)
EXTENDS MetadataStore, FiniteSetTheorems, SequenceTheorems, TLAPS

-----------------------------------------------------------------------------
(* The invariant.  What moves through the scraper was published before, and *)
(* what moves into a document was read on the path of its URI.              *)

\* Messages that the values published so far allow.
Sent(ver) == {m \in Sites \X Nat : m[2] <= ver[m[1]]}

\* Documents of u that they allow, and lookups on their way to one.
Docs(u, ver) ==
  {d \in Doc : \A s \in Sites : d[s] > 0 => Under(s, u) /\ d[s] <= ver[s]}
Looks(u, ver) == {l \in Lookup : l.doc \in Docs(u, ver)}

StoreInv ==
  /\ version \in [Sites -> Nat] /\ store \in [Sites -> Nat]
  /\ \A s \in Sites : store[s] <= version[s]

ListenInv ==
  /\ lpc \in {"subscribe", "query", "run"} /\ nils \subseteq {"sub", "feed"}
  /\ sub \in Seq(Sent(version)) /\ feed \in Seq(Sent(version))

WorkInv ==
  /\ wpc \in [Workers -> {"idle", "open", "mark", "commit"}]
  /\ DOMAIN wmsg = Workers
  /\ \A w \in Workers : wpc[w] # "idle" => wmsg[w] \in Sent(version)
  /\ \A w \in Workers : wpc[w] \in {"mark", "commit"} => tx = {w}

LookupInv ==
  /\ used \subseteq Sites /\ recording \cup deps \cup dirty \subseteq URIs
  /\ failures \in Nat /\ restarts \in Nat

MongoInv ==
  /\ DOMAIN documents \subseteq URIs
  /\ \A u \in DOMAIN documents : documents[u] \in Docs(u, version)
  /\ uricache \subseteq uuidtouri /\ uuidtouri \subseteq DOMAIN documents

InitInv ==
  /\ ipc \in [URIs -> {"off", "lookup", "document", "map", "done", "failed"}]
  /\ idoc \in [URIs -> Lookup] /\ \A u \in URIs : idoc[u] \in Looks(u, version)
  /\ \A u \in URIs : ipc[u] = "done" => u \in uuidtouri
  /\ \A u \in URIs : ipc[u] = "map" => u \in DOMAIN documents

\* Only the lookup under way has anything in it.
RefreshInv ==
  /\ rpc \in {"sleep", "lookup", "resolve"} /\ torefresh \subseteq URIs
  /\ DOMAIN found \subseteq URIs
  /\ \A u \in DOMAIN found : found[u] \in Docs(u, version)
  /\ rpc = "lookup" => torefresh # {} /\ rdoc \in Looks(Next1, version)
  /\ rpc # "lookup" => rdoc = NoLookup

ScraperInv == StoreInv /\ ListenInv /\ WorkInv /\ LookupInv
Inv == ScraperInv /\ MongoInv /\ InitInv /\ RefreshInv

-----------------------------------------------------------------------------
(* Documents, messages and lookups.                                        *)

LEMMA PutHas ==
  ASSUME NEW f, NEW u, NEW x
  PROVE  /\ DOMAIN Put(f, u, x) = DOMAIN f \cup {u}
         /\ Put(f, u, x)[u] = x
         /\ \A v \in DOMAIN f : v # u => Put(f, u, x)[v] = f[v]
BY DEF Put

LEMMA RestrictHas ==
  ASSUME NEW f, NEW S, S \subseteq DOMAIN f
  PROVE  DOMAIN Restrict(f, S) = S /\ \A v \in S : Restrict(f, S)[v] = f[v]
BY DEF Restrict

\* What was allowed stays so when more is published.
LEMMA Grows ==
  ASSUME NEW v \in [Sites -> Nat], NEW w \in [Sites -> Nat],
         \A s \in Sites : v[s] <= w[s]
  PROVE  /\ Sent(v) \subseteq Sent(w) /\ Seq(Sent(v)) \subseteq Seq(Sent(w))
         /\ \A u : Docs(u, v) \subseteq Docs(u, w) /\ Looks(u, v) \subseteq Looks(u, w)
<1>1. Sent(v) \subseteq Sent(w)
  BY DEF Sent
<1>2. \A u : Docs(u, v) \subseteq Docs(u, w)
  BY DEF Docs, Doc
<1>3. \A u : Looks(u, v) \subseteq Looks(u, w)
  BY <1>2 DEF Looks
<1>4. Seq(Sent(v)) \subseteq Seq(Sent(w))
  BY <1>1
<1>5. QED
  BY <1>1, <1>2, <1>3, <1>4

LEMMA NothingRead == ASSUME NEW u, NEW v PROVE NoLookup \in Looks(u, v)
<1>1. NoDoc \in Docs(u, v)
  BY DEF NoDoc, Docs, Doc
<1>2. NoDoc \in Doc
  BY DEF NoDoc, Doc
<1>3. QED
  BY <1>1, <1>2 DEF NoLookup, Looks, Lookup

\* A site is read into the document: it is on the path.
LEMMA ReadingOn ==
  ASSUME StoreInv, NEW u \in URIs, NEW l \in Looks(u, version), Reading(u, l)
  PROVE  /\ ReadOn(u, l) \in Looks(u, version)
         /\ PathOf[u][l.n + 1] \in Sites
<1> DEFINE s == PathOf[u][l.n + 1]
<1> DEFINE d == WithSite(l.doc, u, l.n + 1)
<1>1. l.n \in Nat /\ l.doc \in Docs(u, version) /\ l.doc \in Doc
  BY DEF Looks, Lookup
<1>2. PathOf[u] \in Seq(Sites)
  BY PathAssumption
<1>3. l.n + 1 \in DOMAIN PathOf[u]
  BY <1>1, <1>2 DEF Reading
<1>4. s \in Sites /\ Under(s, u)
  BY <1>2, <1>3 DEF Under, Range
<1>5. d = [l.doc EXCEPT ![s] = store[s]]
  BY DEF WithSite
<1>6. d \in Doc
  BY <1>1, <1>4, <1>5 DEF Doc, StoreInv
<1>7. ASSUME NEW r \in Sites, d[r] > 0
      PROVE  Under(r, u) /\ d[r] <= version[r]
  <2>1. CASE r = s
    <3>1. d[r] = store[s]
      BY <1>1, <1>4, <1>5, <2>1 DEF Doc
    <3>2. QED
      BY <1>4, <2>1, <3>1 DEF StoreInv
  <2>2. CASE r # s
    <3>1. d[r] = l.doc[r]
      BY <1>1, <1>4, <1>5, <2>2 DEF Doc
    <3>2. QED
      BY <1>1, <1>7, <3>1 DEF Docs
  <2>3. QED
    BY <2>1, <2>2
<1>8. d \in Docs(u, version)
  BY <1>6, <1>7 DEF Docs
<1>9. ReadOn(u, l) = [n |-> l.n + 1, doc |-> d]
  BY DEF ReadOn
<1> HIDE DEF d
<1>10. ReadOn(u, l) \in Looks(u, version)
  BY <1>1, <1>6, <1>8, <1>9 DEF Looks, Lookup
<1>11. QED
  BY <1>4, <1>10

\* $set takes each version from a document that may have it.
LEMMA SetAllowed ==
  ASSUME NEW u, NEW v, NEW d \in Docs(u, v), NEW e \in Docs(u, v)
  PROVE  SetDoc(d, e) \in Docs(u, v)
<1>1. d \in Doc /\ e \in Doc
  BY DEF Docs
<1>2. SetDoc(d, e) \in Doc
  BY <1>1 DEF SetDoc, Doc
<1>3. \A s \in Sites : SetDoc(d, e)[s] \in {d[s], e[s]}
  BY DEF SetDoc
<1>4. QED
  BY <1>2, <1>3 DEF Docs

LEMMA PutAllowed ==
  ASSUME NEW f, NEW u \in URIs, NEW v, NEW d \in Docs(u, v), DOMAIN f \subseteq URIs,
         \A w \in DOMAIN f : f[w] \in Docs(w, v)
  PROVE  /\ DOMAIN Put(f, u, d) \subseteq URIs /\ DOMAIN f \subseteq DOMAIN Put(f, u, d)
         /\ u \in DOMAIN Put(f, u, d)
         /\ \A w \in DOMAIN Put(f, u, d) : Put(f, u, d)[w] \in Docs(w, v)
BY DEF Put

-----------------------------------------------------------------------------
(* The scraper.                                                            *)

\* The results of the query are messages.
LEMMA QueryResults ==
  ASSUME StoreInv,
         NEW q \in SetToSeqs({<<s, version[s]>> : s \in {r \in Sites : version[r] > 0}})
  PROVE  q \in Seq(Sent(version))
<1> DEFINE S == {r \in Sites : version[r] > 0}
<1> DEFINE T == {<<s, version[s]>> : s \in S}
<1>1. IsFiniteSet(S)
  BY PathAssumption, FS_Subset
<1>2. IsFiniteSet(T)
  <2> DEFINE f == [s \in S |-> <<s, version[s]>>]
  <2>1. f \in Surjection(S, T)
    BY DEF Surjection
  <2>2. QED
    BY <1>1, <2>1, FS_Surjection
<1>3. Cardinality(T) \in Nat
  BY <1>2, FS_CardinalityType
<1>4. q \in [1..Cardinality(T) -> T]
  BY DEF SetToSeqs
<1>5. T \subseteq Sent(version)
  BY DEF Sent, StoreInv
<1> HIDE DEF T
<1>6. q \in Seq(T)
  BY <1>3, <1>4
<1>7. QED
  BY <1>5, <1>6

LEMMA PublishKeeps ==
  ASSUME Inv, NEW s \in Sites, Publish(s), UNCHANGED mongoSide
  PROVE  Inv'
<1> USE DEF Inv, ScraperInv
<1>1. version' \in [Sites -> Nat] /\ \A r \in Sites : version[r] <= version'[r]
  BY DEF Publish, StoreInv
<1>2. version \in [Sites -> Nat]
  BY DEF StoreInv
<1>3. /\ Sent(version) \subseteq Sent(version')
      /\ Seq(Sent(version)) \subseteq Seq(Sent(version'))
      /\ \A u : Docs(u, version) \subseteq Docs(u, version')
      /\ \A u : Looks(u, version) \subseteq Looks(u, version')
  BY <1>1, <1>2, Grows
<1>4. version'[s] = version[s] + 1 /\ version[s] \in Nat
  BY <1>2 DEF Publish
<1>5. StoreInv'
  BY <1>1 DEF Publish, StoreInv, workVars
<1>6. ListenInv'
  <2>1. <<s, version[s] + 1>> \in Sent(version')
    BY <1>4 DEF Sent
  <2>2. sub \in Seq(Sent(version')) /\ feed \in Seq(Sent(version'))
    BY <1>3 DEF ListenInv
  <2>3. sub' \in Seq(Sent(version'))
    BY <2>1, <2>2 DEF Publish
  <2>4. QED
    BY <2>2, <2>3 DEF Publish, ListenInv
<1>7. WorkInv'
  BY <1>3 DEF Publish, WorkInv, workVars
<1>8. LookupInv'
  BY DEF Publish, LookupInv, lookupVars, countVars
<1>9. MongoInv' /\ InitInv'
  BY <1>3 DEF MongoInv, InitInv, mongoSide, mongoVars, initVars
<1>10. RefreshInv'
  <2>1. Next1' = Next1
    BY DEF Next1, mongoSide, refreshVars
  <2>2. QED
    BY <1>3, <2>1 DEF RefreshInv, mongoSide, refreshVars
<1>11. QED
  BY <1>5, <1>6, <1>7, <1>8, <1>9, <1>10

\* Every part of the invariant whose variables a step leaves alone.
LEMMA SameElsewhere ==
  ASSUME Inv, UNCHANGED version
  PROVE  /\ UNCHANGED store => StoreInv'
         /\ UNCHANGED listenVars => ListenInv'
         /\ UNCHANGED workVars => WorkInv'
         /\ UNCHANGED lookupVars /\ UNCHANGED dirty /\ UNCHANGED countVars => LookupInv'
         /\ UNCHANGED mongoVars /\ UNCHANGED uricache => MongoInv'
         /\ UNCHANGED mongoVars /\ UNCHANGED initVars => InitInv'
         /\ UNCHANGED refreshVars => RefreshInv'
<1> USE DEF Inv, ScraperInv
<1>1. UNCHANGED store => StoreInv'
  BY DEF StoreInv
<1>2. UNCHANGED listenVars => ListenInv'
  BY DEF ListenInv, listenVars
<1>3. UNCHANGED workVars => WorkInv'
  BY DEF WorkInv, workVars
<1>4. UNCHANGED lookupVars /\ UNCHANGED dirty /\ UNCHANGED countVars => LookupInv'
  BY DEF LookupInv, lookupVars, countVars
<1>5. UNCHANGED mongoVars /\ UNCHANGED uricache => MongoInv'
  BY DEF MongoInv, mongoVars
<1>6. UNCHANGED mongoVars /\ UNCHANGED initVars => InitInv'
  BY DEF InitInv, mongoVars, initVars
<1>7. UNCHANGED refreshVars => RefreshInv'
  <2>1. UNCHANGED refreshVars => Next1' = Next1
    BY DEF Next1, refreshVars
  <2>2. QED
    BY <2>1 DEF RefreshInv, refreshVars
<1>8. QED
  BY <1>1, <1>2, <1>3, <1>4, <1>5, <1>6, <1>7

\* What the side of MongoDB has is not touched.
LEMMA MongoSideKeeps ==
  ASSUME MongoInv, InitInv, RefreshInv, UNCHANGED mongoSide, UNCHANGED version
  PROVE  MongoInv' /\ InitInv' /\ RefreshInv'
<1>1. Next1' = Next1
  BY DEF Next1, mongoSide, refreshVars
<1>2. QED
  BY <1>1 DEF MongoInv, InitInv, RefreshInv, mongoSide, mongoVars, initVars, refreshVars

LEMMA ListenKeeps ==
  ASSUME ScraperInv, ListenSubscribe \/ ListenQuery
  PROVE  ScraperInv' /\ UNCHANGED version
<1> USE DEF ScraperInv
<1>1. /\ UNCHANGED version /\ UNCHANGED sub
      /\ UNCHANGED workVars /\ UNCHANGED store /\ UNCHANGED lookupVars
      /\ UNCHANGED dirty /\ UNCHANGED restarts
  BY DEF ListenSubscribe, ListenQuery
<1>2. lpc' \in {"query", "run"} /\ nils' \subseteq {"sub", "feed"}
  BY DEF ListenSubscribe, ListenQuery, ListenInv
<1>3. failures' \in Nat
  BY DEF ListenSubscribe, ListenQuery, LookupInv, Fail
<1>4. feed' \in Seq(Sent(version))
  <2>1. CASE ListenSubscribe
    BY <2>1 DEF ListenSubscribe, ListenInv
  <2>2. CASE ListenQuery
    BY <2>2, QueryResults DEF ListenQuery, ListenInv
  <2>3. QED
    BY <2>1, <2>2
<1>5. StoreInv' /\ WorkInv'
  BY <1>1 DEF StoreInv, WorkInv, workVars
<1>6. ListenInv' /\ LookupInv'
  BY <1>1, <1>2, <1>3, <1>4 DEF ListenInv, LookupInv, lookupVars
<1>7. QED
  BY <1>1, <1>5, <1>6

LEMMA WorkerKeeps ==
  ASSUME ScraperInv, NEW w \in Workers, Worker(w)
  PROVE  ScraperInv' /\ UNCHANGED version
<1> USE DEF ScraperInv
<1>1. ASSUME TakeMessage(w)
      PROVE  ScraperInv' /\ UNCHANGED version
  <2>1. /\ wmsg'[w] \in Sent(version) /\ sub' \in Seq(Sent(version)) /\ feed' \in Seq(Sent(version))
        /\ DOMAIN wmsg' = Workers /\ \A v \in Workers : v # w => wmsg'[v] = wmsg[v]
    <3>1. CASE feed # <<>>
      <4>1. Head(feed) \in Sent(version) /\ Tail(feed) \in Seq(Sent(version))
        BY <3>1 DEF ListenInv
      <4>2. wmsg' = [wmsg EXCEPT ![w] = Head(feed)] /\ feed' = Tail(feed) /\ sub' = sub
        BY <1>1, <3>1 DEF TakeMessage
      <4>3. QED
        BY <4>1, <4>2 DEF ListenInv, WorkInv
    <3>2. CASE feed = <<>>
      <4>1. wmsg' = [wmsg EXCEPT ![w] = Head(sub)] /\ sub' = Tail(sub) /\ feed' = feed /\ sub # <<>>
        BY <1>1, <3>2 DEF TakeMessage
      <4>2. Head(sub) \in Sent(version) /\ Tail(sub) \in Seq(Sent(version))
        BY <4>1 DEF ListenInv
      <4>3. QED
        BY <4>1, <4>2 DEF ListenInv, WorkInv
    <3>3. QED
      BY <3>1, <3>2
  <2>2. /\ wpc' = [wpc EXCEPT ![w] = "open"] /\ UNCHANGED version /\ UNCHANGED lpc
        /\ UNCHANGED nils /\ UNCHANGED tx /\ UNCHANGED store /\ UNCHANGED lookupVars
        /\ UNCHANGED dirty /\ UNCHANGED countVars
    BY <1>1 DEF TakeMessage
  <2>3. WorkInv'
    BY <2>1, <2>2 DEF WorkInv
  <2>4. QED
    BY <2>1, <2>2, <2>3 DEF StoreInv, ListenInv, LookupInv, lookupVars, countVars
<1>2. ASSUME OpenTransaction(w)
      PROVE  ScraperInv' /\ UNCHANGED version
  <2>1. /\ wpc[w] = "open" /\ tx = {} /\ tx' = {w}
        /\ wpc' = [wpc EXCEPT ![w] = "mark"] /\ UNCHANGED version /\ UNCHANGED listenVars
        /\ UNCHANGED wmsg /\ UNCHANGED store /\ UNCHANGED lookupVars
        /\ UNCHANGED dirty /\ UNCHANGED countVars
    BY <1>2 DEF OpenTransaction
  <2>2. \A v \in Workers : wpc[v] \notin {"mark", "commit"}
    BY <2>1 DEF WorkInv
  <2>3. WorkInv'
    BY <2>1, <2>2 DEF WorkInv
  <2>4. QED
    BY <2>1, <2>3 DEF StoreInv, ListenInv, LookupInv, listenVars, lookupVars, countVars
<1>3. ASSUME MarkDirty(w)
      PROVE  ScraperInv' /\ UNCHANGED version
  <2>1. /\ wpc[w] = "mark" /\ wpc' = [wpc EXCEPT ![w] = "commit"] /\ UNCHANGED version
        /\ UNCHANGED listenVars /\ UNCHANGED wmsg /\ UNCHANGED tx /\ UNCHANGED store
        /\ UNCHANGED lookupVars /\ UNCHANGED countVars
    BY <1>3 DEF MarkDirty
  <2>2. dirty' \subseteq URIs
    BY <1>3 DEF MarkDirty, Affected, LookupInv
  <2>3. WorkInv'
    BY <2>1 DEF WorkInv
  <2>4. QED
    BY <2>1, <2>2, <2>3 DEF StoreInv, ListenInv, LookupInv, listenVars, lookupVars, countVars
<1>4. ASSUME Commit(w) \/ CommitFails(w)
      PROVE  ScraperInv' /\ UNCHANGED version
  <2>1. /\ wpc[w] = "commit" /\ wpc' = [wpc EXCEPT ![w] = "idle"] /\ UNCHANGED version
        /\ wmsg' = [wmsg EXCEPT ![w] = <<>>]
        /\ UNCHANGED listenVars /\ UNCHANGED lookupVars /\ UNCHANGED dirty /\ UNCHANGED restarts
    BY <1>4 DEF Commit, CommitFails, countVars
  <2>2. failures' \in Nat
    BY <1>4 DEF Commit, CommitFails, countVars, Fail, LookupInv
  <2>3. \A v \in Workers : v # w => wpc[v] \notin {"mark", "commit"}
    <3>1. SUFFICES ASSUME NEW v \in Workers, v # w, wpc[v] \in {"mark", "commit"}
                   PROVE  FALSE
      OBVIOUS
    <3>2. tx = {v} /\ tx = {w}
      BY <2>1, <3>1 DEF WorkInv
    <3>3. QED
      BY <3>1, <3>2
  <2>4. WorkInv'
    <3>1. wpc' \in [Workers -> {"idle", "open", "mark", "commit"}] /\ DOMAIN wmsg' = Workers
      BY <2>1 DEF WorkInv
    <3>2. \A v \in Workers : v # w => wpc'[v] = wpc[v] /\ wmsg'[v] = wmsg[v]
      BY <2>1 DEF WorkInv
    <3>3. wpc'[w] = "idle"
      BY <2>1 DEF WorkInv
    <3>4. QED
      BY <2>1, <2>3, <3>1, <3>2, <3>3 DEF WorkInv
  <2>5. StoreInv'
    <3>1. wmsg[w] \in Sent(version)
      BY <2>1 DEF WorkInv
    <3>2. /\ wmsg[w][1] \in Sites /\ wmsg[w][2] \in Nat
          /\ wmsg[w][2] <= version[wmsg[w][1]]
      BY <3>1 DEF Sent
    <3>3. UNCHANGED store \/ store' = [store EXCEPT ![wmsg[w][1]] = wmsg[w][2]]
      BY <1>4 DEF Commit, CommitFails
    <3>4. QED
      BY <2>1, <3>2, <3>3 DEF StoreInv
  <2>6. QED
    BY <2>1, <2>2, <2>4, <2>5 DEF ListenInv, LookupInv, listenVars, lookupVars
<1>5. QED
  BY <1>1, <1>2, <1>3, <1>4 DEF Worker

LEMMA ScraperKeeps ==
  ASSUME Inv, Scraper, UNCHANGED mongoSide
  PROVE  Inv'
<1>1. ASSUME NEW u \in URIs, RecordDependency(u)
      PROVE  ScraperInv' /\ UNCHANGED version
  <2>1. /\ recording' = recording \ {u} /\ deps' = deps \cup {u} /\ UNCHANGED version
        /\ UNCHANGED listenVars /\ UNCHANGED workVars /\ UNCHANGED store
        /\ UNCHANGED used /\ UNCHANGED dirty /\ UNCHANGED countVars
    BY <1>1 DEF RecordDependency
  <2>2. QED
    BY <2>1 DEF Inv, ScraperInv, StoreInv, ListenInv, WorkInv, LookupInv,
                listenVars, workVars, countVars
<1>2. ScraperInv' /\ UNCHANGED version
  BY <1>1, ListenKeeps, WorkerKeeps DEF Scraper, Inv
<1>3. QED
  BY <1>2, MongoSideKeeps DEF Inv

-----------------------------------------------------------------------------
(* Initialising a URI.                                                     *)

LEMMA InitKeeps ==
  ASSUME Inv, NEW u \in URIs, Start(u) \/ InitializeURI(u)
  PROVE  Inv'
<1> USE DEF Inv, ScraperInv
<1>1. ASSUME Start(u)
      PROVE  Inv'
  <2>1. /\ ipc[u] = "off" /\ ipc' = [ipc EXCEPT ![u] = "lookup"]
        /\ idoc' = [idoc EXCEPT ![u] = NoLookup]
        /\ UNCHANGED prefixVars /\ UNCHANGED mongoVars /\ UNCHANGED uricache /\ UNCHANGED refreshVars
    BY <1>1 DEF Start
  <2>2. InitInv'
    <3>1. NoLookup \in Lookup /\ NoLookup \in Looks(u, version)
      BY NothingRead DEF Looks
    <3>2. QED
      BY <2>1, <3>1 DEF InitInv, prefixVars, mongoVars
  <2>3. QED
    BY <2>1, <2>2, SameElsewhere DEF prefixVars
<1>2. ASSUME InitRead(u)
      PROVE  Inv'
  <2>1. /\ ipc[u] = "lookup" /\ Reading(u, idoc[u])
        /\ idoc' = [idoc EXCEPT ![u] = ReadOn(u, @)]
        /\ used' = used \cup {PathOf[u][idoc[u].n + 1]}
        /\ UNCHANGED version /\ UNCHANGED listenVars /\ UNCHANGED workVars /\ UNCHANGED store
        /\ UNCHANGED recording /\ UNCHANGED deps /\ UNCHANGED dirty /\ UNCHANGED countVars
        /\ UNCHANGED mongoVars /\ UNCHANGED uricache /\ UNCHANGED ipc /\ UNCHANGED refreshVars
    BY <1>2 DEF InitRead, ReadSite
  <2>2. idoc[u] \in Looks(u, version)
    BY DEF InitInv
  <2>3. ReadOn(u, idoc[u]) \in Looks(u, version) /\ used' \subseteq Sites
    BY <2>1, <2>2, ReadingOn DEF LookupInv
  <2>4. InitInv'
    <3>1. ReadOn(u, idoc[u]) \in Lookup
      BY <2>3 DEF Looks
    <3>2. QED
      BY <2>1, <2>3, <3>1 DEF InitInv, mongoVars
  <2>5. LookupInv'
    BY <2>1, <2>3 DEF LookupInv, countVars
  <2>6. QED
    BY <2>1, <2>4, <2>5, SameElsewhere
<1>3. ASSUME InitLookedUp(u)
      PROVE  Inv'
  <2>1. /\ ipc[u] = "lookup" /\ ipc' = [ipc EXCEPT ![u] = "document"]
        /\ recording' = recording \cup {u}
        /\ UNCHANGED version /\ UNCHANGED listenVars /\ UNCHANGED workVars /\ UNCHANGED store
        /\ UNCHANGED used /\ UNCHANGED deps /\ UNCHANGED dirty /\ UNCHANGED countVars
        /\ UNCHANGED mongoVars /\ UNCHANGED uricache /\ UNCHANGED idoc /\ UNCHANGED refreshVars
    BY <1>3 DEF InitLookedUp, SpawnRecord
  <2>2. InitInv' /\ LookupInv'
    BY <2>1 DEF InitInv, LookupInv, mongoVars, countVars
  <2>3. QED
    BY <2>1, <2>2, SameElsewhere
<1>4. ASSUME UpsertDocument(u) \/ UpsertMapping(u) \/ InitFails(u)
      PROVE  Inv'
  <2>1. /\ ipc[u] \in {"document", "map"}
        /\ \/ ipc' = [ipc EXCEPT ![u] = "map"] /\ documents' = Put(documents, u, idoc[u].doc)
           \/ ipc' = [ipc EXCEPT ![u] = "done"] /\ ipc[u] = "map" /\ u \in uuidtouri'
           \/ ipc' = [ipc EXCEPT ![u] = "failed"]
        /\ UNCHANGED documents \/ documents' = Put(documents, u, idoc[u].doc)
        /\ UNCHANGED uuidtouri \/ (ipc[u] = "map" /\ uuidtouri' = uuidtouri \cup {u})
        /\ UNCHANGED uricache \/ (u \in uuidtouri' /\ uricache' = uricache \cup {u})
        /\ UNCHANGED version /\ UNCHANGED listenVars /\ UNCHANGED workVars /\ UNCHANGED store
        /\ UNCHANGED lookupVars /\ UNCHANGED dirty /\ UNCHANGED restarts
        /\ UNCHANGED idoc /\ UNCHANGED refreshVars
    <3>1. CASE UpsertDocument(u)
      BY <3>1 DEF UpsertDocument, prefixVars, countVars
    <3>2. CASE UpsertMapping(u)
      BY <3>2 DEF UpsertMapping, prefixVars, countVars
    <3>3. CASE InitFails(u)
      BY <3>3 DEF InitFails, mongoVars
    <3>4. QED
      BY <1>4, <3>1, <3>2, <3>3
  <2>2. failures' \in Nat
    BY <1>4 DEF UpsertDocument, UpsertMapping, InitFails, Fail, LookupInv, prefixVars, countVars
  <2>3. idoc[u].doc \in Docs(u, version)
    BY DEF InitInv, Looks
  <2>4. /\ DOMAIN documents' \subseteq URIs /\ DOMAIN documents \subseteq DOMAIN documents'
        /\ \A v \in DOMAIN documents' : documents'[v] \in Docs(v, version)
    BY <2>1, <2>3, PutAllowed DEF MongoInv
  <2>5. documents' = Put(documents, u, idoc[u].doc) => u \in DOMAIN documents'
    BY DEF Put
  <2>6. ipc[u] = "map" => u \in DOMAIN documents
    BY DEF InitInv
  <2>7. MongoInv'
    BY <2>1, <2>4, <2>6 DEF MongoInv
  <2>8. InitInv'
    <3>1. /\ \A v \in URIs : v # u => ipc'[v] = ipc[v]
          /\ ipc' \in [URIs -> {"off", "lookup", "document", "map", "done", "failed"}]
      BY <2>1 DEF InitInv
    <3>2. ipc'[u] = "map" => u \in DOMAIN documents'
      BY <2>1, <2>5 DEF InitInv
    <3>3. ipc'[u] = "done" => u \in uuidtouri'
      BY <2>1 DEF InitInv
    <3>4. uuidtouri \subseteq uuidtouri'
      BY <2>1
    <3>5. QED
      BY <2>1, <2>4, <3>1, <3>2, <3>3, <3>4 DEF InitInv
  <2>9. LookupInv'
    BY <2>1, <2>2 DEF LookupInv, lookupVars
  <2>10. QED
    BY <2>1, <2>7, <2>8, <2>9, SameElsewhere
<1>5. QED
  BY <1>1, <1>2, <1>3, <1>4 DEF InitializeURI

-----------------------------------------------------------------------------
(* The refreshing goroutine.                                               *)

LEMMA RefreshKeeps ==
  ASSUME Inv, Refresher
  PROVE  Inv'
<1> USE DEF Inv, ScraperInv
<1>1. ASSUME TakeDirty
      PROVE  Inv'
  <2>1. /\ rpc = "sleep" /\ dirty # {} /\ torefresh' = dirty /\ dirty' = {} /\ rpc' = "lookup"
        /\ found' = <<>>
        /\ UNCHANGED version /\ UNCHANGED listenVars /\ UNCHANGED workVars /\ UNCHANGED store
        /\ UNCHANGED lookupVars /\ UNCHANGED countVars /\ UNCHANGED mongoVars
        /\ UNCHANGED uricache /\ UNCHANGED initVars /\ UNCHANGED rdoc
    BY <1>1 DEF TakeDirty, Taken
  <2>2. rdoc' = NoLookup
    BY <2>1 DEF RefreshInv
  <2>3. rdoc' \in Looks(Next1', version')
    BY <2>2, NothingRead
  <2>4. RefreshInv'
    BY <2>1, <2>3 DEF RefreshInv, LookupInv
  <2>5. LookupInv'
    BY <2>1 DEF LookupInv, lookupVars, countVars
  <2>6. QED
    BY <2>1, <2>4, <2>5, SameElsewhere
<1>2. ASSUME RefreshRead
      PROVE  Inv'
  <2>1. /\ rpc = "lookup" /\ Reading(Next1, rdoc) /\ rdoc' = ReadOn(Next1, rdoc)
        /\ used' = used \cup {PathOf[Next1][rdoc.n + 1]}
        /\ UNCHANGED version /\ UNCHANGED listenVars /\ UNCHANGED workVars /\ UNCHANGED store
        /\ UNCHANGED recording /\ UNCHANGED deps /\ UNCHANGED dirty /\ UNCHANGED countVars
        /\ UNCHANGED mongoVars /\ UNCHANGED uricache /\ UNCHANGED initVars
        /\ UNCHANGED rpc /\ UNCHANGED torefresh /\ UNCHANGED found
    BY <1>2 DEF RefreshRead, ReadSite
  <2>2. Next1 \in torefresh /\ Next1 \in URIs /\ rdoc \in Looks(Next1, version)
    BY <2>1 DEF RefreshInv, Next1
  <2>3. Next1' = Next1
    BY <2>1 DEF Next1
  <2>4. PICK u \in URIs : u = Next1
    BY <2>2
  <2>5. ReadOn(u, rdoc) \in Looks(u, version) /\ PathOf[u][rdoc.n + 1] \in Sites
    BY <2>1, <2>2, <2>4, ReadingOn
  <2>6. RefreshInv'
    BY <2>1, <2>3, <2>4, <2>5 DEF RefreshInv
  <2>7. LookupInv'
    BY <2>1, <2>4, <2>5 DEF LookupInv, countVars
  <2>8. QED
    BY <2>1, <2>6, <2>7, SameElsewhere
<1>3. ASSUME RefreshLookedUp
      PROVE  Inv'
  <2>1. /\ rpc = "lookup" /\ rdoc' = NoLookup
        /\ recording' = recording \cup {Next1}
        /\ found' = Put(found, Next1, rdoc.doc)
        /\ UNCHANGED version /\ UNCHANGED listenVars /\ UNCHANGED workVars /\ UNCHANGED store
        /\ UNCHANGED used /\ UNCHANGED deps /\ UNCHANGED dirty /\ UNCHANGED countVars
        /\ UNCHANGED mongoVars /\ UNCHANGED uricache /\ UNCHANGED initVars
    BY <1>3 DEF RefreshLookedUp, SpawnRecord, Afresh
  <2>2. \/ torefresh = {Next1} /\ rpc' = "resolve" /\ torefresh' = DOMAIN found'
        \/ torefresh # {Next1} /\ rpc' = rpc /\ torefresh' = torefresh \ {Next1}
    BY <1>3 DEF RefreshLookedUp
  <2>3. Next1 \in torefresh /\ Next1 \in URIs /\ rdoc \in Looks(Next1, version)
    BY <2>1 DEF RefreshInv, Next1
  <2>4. PICK u \in URIs : u = Next1
    BY <2>3
  <2>5. rdoc.doc \in Docs(u, version)
    BY <2>3, <2>4 DEF Looks
  <2>6. /\ DOMAIN found' \subseteq URIs
        /\ \A v \in DOMAIN found' : found'[v] \in Docs(v, version)
    BY <2>1, <2>4, <2>5, PutAllowed DEF RefreshInv
  <2>7. rdoc' \in Looks(Next1', version')
    BY <2>1, NothingRead
  <2>8. rpc' = "lookup" => torefresh' # {}
    BY <2>2, <2>3
  <2>9. torefresh' \subseteq URIs /\ rpc' \in {"lookup", "resolve"}
    BY <2>1, <2>2, <2>6 DEF RefreshInv
  <2>10. RefreshInv'
    BY <2>1, <2>6, <2>7, <2>8, <2>9 DEF RefreshInv
  <2>11. LookupInv'
    BY <2>1, <2>3 DEF LookupInv, countVars
  <2>12. QED
    BY <2>1, <2>10, <2>11, SameElsewhere
<1>4. ASSUME UUIDFromURI
      PROVE  Inv'
  <2>1. /\ rpc = "resolve" /\ torefresh' = torefresh \ {Next1}
        /\ UNCHANGED version /\ UNCHANGED listenVars /\ UNCHANGED workVars /\ UNCHANGED store
        /\ UNCHANGED lookupVars /\ UNCHANGED dirty /\ UNCHANGED restarts
        /\ UNCHANGED mongoVars /\ UNCHANGED initVars /\ UNCHANGED rpc /\ UNCHANGED rdoc
        /\ \/ Next1 \in uricache \cup uuidtouri /\ uricache' = uricache \cup {Next1}
           \/ UNCHANGED uricache
        /\ failures' \in {failures, failures + 1}
        /\ UNCHANGED found \/ found' = Restrict(found, DOMAIN found \ {Next1})
    BY <1>4 DEF UUIDFromURI
  <2>2. MongoInv'
    BY <2>1 DEF MongoInv, mongoVars
  <2>3. /\ DOMAIN found' \subseteq DOMAIN found
        /\ \A v \in DOMAIN found' : found'[v] = found[v]
    BY <2>1 DEF Restrict
  <2>4. RefreshInv'
    BY <2>1, <2>3 DEF RefreshInv
  <2>5. LookupInv'
    BY <2>1 DEF LookupInv, lookupVars
  <2>6. QED
    BY <2>1, <2>2, <2>4, <2>5, SameElsewhere
<1>5. ASSUME BulkUpdate
      PROVE  Inv'
  <2>1. PICK S \in SUBSET DOMAIN found : documents' = Updated(S)
    BY <1>5 DEF BulkUpdate
  <2>2. /\ rpc = "resolve" /\ torefresh = {} /\ rpc' = "sleep" /\ found' = <<>>
        /\ UNCHANGED version /\ UNCHANGED listenVars /\ UNCHANGED workVars /\ UNCHANGED store
        /\ UNCHANGED lookupVars /\ UNCHANGED dirty /\ UNCHANGED restarts /\ UNCHANGED uuidtouri
        /\ UNCHANGED uricache /\ UNCHANGED initVars /\ UNCHANGED torefresh /\ UNCHANGED rdoc
    BY <1>5 DEF BulkUpdate
  <2>3. failures' \in Nat
    BY <1>5 DEF BulkUpdate, Fail, LookupInv
  <2>4. DOMAIN documents' = DOMAIN documents
    BY <2>1 DEF Updated
  <2>5. ASSUME NEW v \in DOMAIN documents
        PROVE  documents'[v] \in Docs(v, version)
    <3>1. documents[v] \in Docs(v, version)
      BY DEF MongoInv
    <3>2. CASE v \in S
      <4>1. found[v] \in Docs(v, version)
        BY <2>1, <3>2 DEF RefreshInv
      <4>2. documents'[v] = SetDoc(documents[v], found[v])
        BY <2>1, <3>2 DEF Updated
      <4>3. QED
        BY <3>1, <4>1, <4>2, SetAllowed
    <3>3. CASE v \notin S
      BY <2>1, <3>1, <3>3 DEF Updated
    <3>4. QED
      BY <3>2, <3>3
  <2>6. MongoInv'
    BY <2>2, <2>4, <2>5 DEF MongoInv
  <2>7. InitInv'
    BY <2>2, <2>4 DEF InitInv, initVars
  <2>8. RefreshInv'
    BY <2>2 DEF RefreshInv
  <2>9. LookupInv'
    BY <2>2, <2>3 DEF LookupInv, lookupVars
  <2>10. QED
    BY <2>2, <2>6, <2>7, <2>8, <2>9, SameElsewhere
<1>6. QED
  BY <1>1, <1>2, <1>3, <1>4, <1>5 DEF Refresher

-----------------------------------------------------------------------------
LEMMA RestartKeeps == Inv /\ Restart => Inv'
<1> SUFFICES ASSUME Inv, Restart
             PROVE  Inv'
  OBVIOUS
<1>1. /\ lpc' = "subscribe" /\ sub' = <<>> /\ feed' = <<>> /\ nils' = {}
      /\ wpc' = [w \in Workers |-> "idle"] /\ wmsg' = [w \in Workers |-> <<>>]
      /\ used' = {} /\ recording' = {} /\ dirty' = {} /\ uricache' = {}
      /\ ipc' = [u \in URIs |-> "off"] /\ idoc' = [u \in URIs |-> NoLookup]
      /\ rpc' = "sleep" /\ torefresh' = {} /\ rdoc' = NoLookup /\ found' = <<>>
      /\ restarts' = restarts + 1
      /\ UNCHANGED version /\ UNCHANGED store /\ UNCHANGED deps /\ UNCHANGED failures
      /\ UNCHANGED mongoVars
  BY DEF Restart
<1>2. StoreInv' /\ ListenInv' /\ WorkInv'
  BY <1>1 DEF Inv, ScraperInv, StoreInv, ListenInv, WorkInv
<1>3. LookupInv' /\ MongoInv'
  BY <1>1 DEF Inv, ScraperInv, LookupInv, MongoInv, mongoVars
<1>4. InitInv'
  <2>1. NoLookup \in Lookup
    BY NothingRead DEF Looks
  <2>2. QED
    BY <1>1, <2>1, NothingRead DEF InitInv
<1>5. RefreshInv'
  BY <1>1 DEF RefreshInv
<1>6. QED
  BY <1>2, <1>3, <1>4, <1>5 DEF Inv, ScraperInv

LEMMA InitHolds == Init => Inv
<1> SUFFICES ASSUME Init
             PROVE  Inv
  OBVIOUS
<1>1. StoreInv /\ ListenInv /\ WorkInv /\ LookupInv
  BY DEF Init, PrefixInit, StoreInv, ListenInv, WorkInv, LookupInv
<1>2. MongoInv /\ InitInv /\ RefreshInv
  <2>1. NoLookup \in Lookup
    BY NothingRead DEF Looks
  <2>2. QED
    BY <2>1, NothingRead DEF Init, MongoInv, InitInv, RefreshInv
<1>3. QED
  BY <1>1, <1>2 DEF Inv, ScraperInv

LEMMA NextKeeps == Inv /\ [Next]_vars => Inv'
<1> SUFFICES ASSUME Inv, [Next]_vars
             PROVE  Inv'
  OBVIOUS
<1>1. CASE UNCHANGED vars
  <2>1. UNCHANGED prefixVars /\ UNCHANGED mongoSide
    BY <1>1 DEF vars, mongoSide
  <2>2. ScraperInv' /\ UNCHANGED version
    BY <2>1 DEF Inv, ScraperInv, StoreInv, ListenInv, WorkInv, LookupInv,
                prefixVars, listenVars, workVars, lookupVars, countVars
  <2>3. QED
    BY <2>1, <2>2, MongoSideKeeps DEF Inv
<1>2. CASE Next
  BY <1>2, PublishKeeps, ScraperKeeps, InitKeeps, RefreshKeeps, RestartKeeps DEF Next
<1>3. QED
  BY <1>1, <1>2

THEOREM Invariance == Spec => []Inv
<1>1. QED
  BY InitHolds, NextKeeps, PTL DEF Spec

-----------------------------------------------------------------------------
(* The properties.                                                         *)

\* Every variable keeps its type, and the open transaction is that of the one
\* worker that marks or commits, for any number of workers.
THEOREM TypeCorrect == Spec => []TypeOK
<1>1. Inv => TypeOK
  <2> SUFFICES ASSUME Inv
               PROVE  TypeOK
    OBVIOUS
  <2>1. Sent(version) \subseteq Sites \X Nat
    BY DEF Sent
  <2>2. \A u : Docs(u, version) \subseteq Doc /\ Looks(u, version) \subseteq Lookup
    BY DEF Docs, Looks
  <2>3. sub \in Seq(Sites \X Nat) /\ feed \in Seq(Sites \X Nat)
    BY <2>1 DEF Inv, ScraperInv, ListenInv
  <2>4. PrefixTypeOK
    BY <2>1, <2>3 DEF Inv, ScraperInv, StoreInv, ListenInv, WorkInv, LookupInv, PrefixTypeOK
  <2>5. rdoc \in Lookup
    BY <2>2, NothingRead DEF Inv, RefreshInv
  <2>6. QED
    BY <2>2, <2>4, <2>5 DEF Inv, MongoInv, InitInv, RefreshInv, TypeOK
<1>2. QED
  BY <1>1, Invariance, PTL

\* Whatever fails and whenever the archiver stops, a URI that the collection of
\* UUIDs or its cache knows has a document.
THEOREM AlwaysHasDocument == Spec => []KnownHasDocument
<1>1. Inv => KnownHasDocument
  BY DEF Inv, MongoInv, InitInv, KnownHasDocument
<1>2. QED
  BY <1>1, Invariance, PTL

\* No document, and nothing on its way into one, ever has a value of a site that
\* is not on the path of its URI, or one that nobody published.
THEOREM OnlyInherited == Spec => []InheritsFromPath
<1>1. Inv => InheritsFromPath
  <2> SUFFICES ASSUME Inv, NEW u \in URIs,
                      NEW d \in {documents[v] : v \in DOMAIN documents \cap {u}}
                                \cup {found[v] : v \in DOMAIN found \cap {u}} \cup {idoc[u].doc},
                      NEW s \in Sites, d[s] > 0
               PROVE  Under(s, u) /\ d[s] <= version[s]
    BY DEF InheritsFromPath
  <2>1. d \in Docs(u, version)
    BY DEF Inv, MongoInv, InitInv, RefreshInv, Looks
  <2>2. QED
    BY <2>1 DEF Docs
<1>2. QED
  BY <1>1, Invariance, PTL
=============================================================================
