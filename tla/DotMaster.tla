------------------------------ MODULE DotMaster ------------------------------
(***************************************************************************)
(* The DOT master (dots/master.go, dots/util.go): for which times the VK   *)
(* that asks may have the readings of a stream, and whether it may have    *)
(* its metadata, found in the registry of BOSSWAVE and kept in two caches. *)
(*                                                                         *)
(* One VK asks, and a stream stands for its UUID and for its URI.  A DOT   *)
(* of kind "access" is on the namespace of the streams, and its range runs *)
(* from creation to expiry; one of kind "archive" is on the archive        *)
(* namespace, and its range is the one in its URI.  The registry is        *)
(* external: it answers with the DOTs it has, or fails.  Its DOTs do not   *)
(* form a cycle, and can be parsed and resolved.                           *)
(***************************************************************************)
EXTENDS Ranges, FiniteSets

CONSTANTS Streams,     \* the streams asked for
          VK,          \* who asks
          NamespaceOf, \* for each stream, the VK its URI begins with
          DOTs,        \* [kind, from, to, on, rng]: all there ever are
          Granted,     \* those there are at first
          Expiry       \* ticks until what is cached about ranges expires

ASSUME DOTAssumption ==
  /\ NamespaceOf \in [Streams -> STRING] /\ Granted \subseteq DOTs
  /\ \A d \in DOTs : /\ d.kind \in {"access", "archive"} /\ d.on \subseteq Streams
                     /\ d.from # d.to /\ d.rng \in TimeRange
  /\ IsFiniteSet(DOTs)
  /\ Expiry \in Nat \ {0}

VARIABLES
  registry, \* the DOTs there are, after each change
  cache,    \* valid ranges: what was found, and how long it is still good
  canread   \* "yes", "no", or "none" as long as nobody asked

dotVars == <<registry, cache, canread>>

\* "archive/start/<t1>/end/<t2>/<uri>" with + for the earliest and the latest
parseArchiveURI(start, end, plus, Beginning, EndOfTime) ==
  [Start |-> IF start = plus THEN Beginning ELSE start,
   End |-> IF end = plus THEN EndOfTime ELSE end]

NotCached == [ranges |-> <<>>, ttl |-> 0]

DotInit ==
  /\ registry = <<Granted>>
  /\ cache = [u \in Streams |-> NotCached]
  /\ canread = [u \in Streams |-> "none"]

Current == Last(registry)

-----------------------------------------------------------------------------
(* Chains.                                                                 *)

Linked(c) == \A i \in 1..(Len(c) - 1) : c[i].to = c[i + 1].from

\* findDOTChains: from the authority of the URI along DOTs that cover it, until
\* the first that is given to the VK.  The chains of BuildChain are like that.
Chains(kind, u, reg) ==
  LET usable == {d \in reg : d.kind = kind /\ u \in d.on}
  IN  {c \in SeqOf(usable, Cardinality(usable)) :
         /\ c # <<>> /\ Linked(c)
         /\ c[1].from = NamespaceOf[u]
         /\ \A i \in DOMAIN c : c[i].to = VK <=> i = Len(c)}

ChainRange(c) == Intersection([i \in DOMAIN c |-> c[i].rng])

\* What the chains come to when they are merged into what was found before,
\* in the order in which the registry names them.
Found(before, kind, u, reg) ==
  {MergeAll(before, [i \in DOMAIN cs |-> ChainRange(cs[i])]) :
     cs \in SetToSeqs(Chains(kind, u, reg))}

-----------------------------------------------------------------------------
(* What workers do with the caches, each step for one of them.             *)

\* Faulty variant: what has expired is good.
Cached_expired(u) == cache[u] # NotCached
Cached(u) == cache[u].ttl > 0

GetAccessDOTChains(u) == Found(<<>>, "access", u, Current)
GetArchivalDOTChains(u, before) == Found(before, "archive", u, Current)

\* Faulty variant: the stream is not part of the key.
SetCache_shared(u, ranges) ==
  /\ cache' = [v \in Streams |-> [ranges |-> ranges, ttl |-> Expiry]]
  /\ UNCHANGED <<registry, canread>>

SetCache(u, ranges) ==
  /\ cache' = [cache EXCEPT ![u] = [ranges |-> ranges, ttl |-> Expiry]]
  /\ UNCHANGED <<registry, canread>>

\* Faulty variant: a chain that does not reach the VK will do.
BuildAnyChain_begun(u) ==
  \E d \in Current : d.kind = "access" /\ u \in d.on /\ d.from = NamespaceOf[u]

\* BuildAnyChain finds one iff there is one.
BuildAnyChain(u) == Chains("access", u, Current) # {}

\* The answer never expires: Get also returns items that have.
SetCanRead(u, ok) ==
  /\ canread' = [canread EXCEPT ![u] = IF ok THEN "yes" ELSE "no"]
  /\ UNCHANGED <<registry, cache>>

-----------------------------------------------------------------------------
\* Somebody grants a DOT, or revokes it.
Change(d) ==
  /\ registry' = Append(registry, IF d \in Current THEN Current \ {d} ELSE Current \cup {d})
  /\ UNCHANGED <<cache, canread>>

\* Time passes.
Tick ==
  /\ \E u \in Streams : cache[u].ttl > 0
  /\ cache' = [u \in Streams |-> [cache[u] EXCEPT !.ttl = IF @ > 0 THEN @ - 1 ELSE 0]]
  /\ UNCHANGED <<registry, canread>>
=============================================================================
