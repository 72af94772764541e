---------------------------- MODULE ArchiveTools ----------------------------
(***************************************************************************)
(* The tools that change lists of archive requests, and the watchdog to    *)
(* which BOSSWAVE sends every list that is published.                      *)
(***************************************************************************)
EXTENDS ArchiveRequests, Watchdog

CONSTANTS Requests, \* what a list may hold
          Watched,  \* the key of the requests that are watched here
          Loads     \* what the tools and the watchdog may be exposed to

\* A request that a config names, with its place.
Wanted == {[at |-> u, key |-> r.key, valid |-> r.valid, is |-> r] : u \in URIs, r \in Requests}

\* A load has the lists there are at first, each with one request for a key, the jobs
\* each tool may have, and bounds for the calls that fail, for time, and for the messages
\* on the watched URI.
ASSUME ToolsAssumption ==
  \A l \in Loads :
    /\ l.lists \in [URIs -> Seq(Requests)]
    /\ \A u \in URIs : \A i, j \in DOMAIN l.lists[u] : l.lists[u][i].key = l.lists[u][j].key => i = j
    /\ {l.failures, l.time, l.messages} \subseteq Nat
    /\ \A t \in Tools : \A j \in l.jobs[t] :
         j.kind \in {"add", "rm", "nuke"} /\ j.reqs \in Seq(Wanted) /\ j.uri \in URIs

VARIABLES posted \* lists that were published and not delivered yet

vars == <<load, reqVars, dogVars, posted>>

Init == load \in Loads /\ ReqInit /\ DogInit /\ posted = <<>>

\* Lists come in the order in which they were published.
Tool(t) ==
  /\ \/ \E job \in load.jobs[t] : Start(t, job) /\ UNCHANGED posted
     \/ (Get(t) \/ PublishFails(t)) /\ UNCHANGED posted
     \/ Publish(t) /\ posted' = Append(posted, Changed(t))
  /\ UNCHANGED dogVars

\* extractRequests: one watcher for each request of the list, also for those that
\* have a watcher already.
Delivered ==
  /\ posted # <<>>
  /\ LET hit == {i \in DOMAIN Head(posted) : Head(posted)[i].key = Watched} IN
     \/ hit = {} /\ posted' = Tail(posted) /\ UNCHANGED <<dogVars, failures>>
     \/ hit # {} /\ startWatcher /\ UNCHANGED failures
        /\ posted' = <<RemoveAt(Head(posted), Min(hit))>> \o Tail(posted)
     \/ hit # {} /\ Fault /\ UNCHANGED dogVars
        /\ posted' = <<RemoveAt(Head(posted), Min(hit))>> \o Tail(posted)
  /\ UNCHANGED <<lists, tool, disturbed>>

Stream ==
  \/ heard.count < load.messages /\ \E po \in BOOLEAN : Message(po)
  \/ \E w \in DOMAIN watchers : Handle(w)
  \/ now < load.time /\ Tick

Next ==
  /\ UNCHANGED load
  /\ \/ \E t \in Tools : Tool(t)
     \/ Delivered
     \/ watchers # <<>> /\ Stream /\ UNCHANGED <<reqVars, posted>>

Spec == Init /\ [][Next]_vars

-----------------------------------------------------------------------------
(* Properties.                                                             *)

Entries(l) == {l[i] : i \in DOMAIN l}
Keys(l) == {e.key : e \in Entries(l)}

\* Every variable has its type; a tool at work has something to do.
RequestsTypeOK ==
  /\ DOMAIN lists = URIs /\ DOMAIN tool = Tools /\ failures \in 0..load.failures
  /\ disturbed \subseteq Tools
  /\ \A t \in Tools : /\ tool[t].pc \in {"new", "get", "got", "done", "failed"}
                      /\ tool[t].pc \in {"get", "got"} => tool[t].todo # <<>>
                      /\ tool[t].stale \in BOOLEAN /\ tool[t].unresolved \subseteq URIs
  /\ now \in Nat \ {0} /\ {kicked, quiet} \subseteq Nat /\ begun \in Seq(Nat)
  /\ \A w \in DOMAIN watchers : Len(watchers[w].window) <= Window /\ watchers[w].todo \in Seq(BOOLEAN)

\* requests/api.go:225: no list ever has two requests with one key, whatever tools do
\* at the same time, unless a place could not be resolved.
NoTwins ==
  (\A t \in Tools : tool[t].unresolved = {}) =>
    \A u \in URIs : Cardinality(Keys(lists[u])) = Len(lists[u])

\* What a tool publishes differs from what is there by the one request it adds or by the
\* requests it removes, unless another published since it read.
OwnChange(t, u) ==
  LET job == tool[t].job
      keys == {job.reqs[i].key : i \in {i \in DOMAIN job.reqs : job.reqs[i].at = u}}
      gone == {e \in Entries(lists[u]) : e.key \in keys}
      added == {job.reqs[i].is : i \in {i \in DOMAIN job.reqs : job.reqs[i].at = u}}
  IN  CASE job.kind = "add" -> \E r \in added : Entries(lists'[u]) = Entries(lists[u]) \cup {r}
        [] job.kind = "rm" -> Entries(lists'[u]) = Entries(lists[u]) \ gone
                              \/ (u \in tool[t].unresolved /\ lists'[u] = lists[u])
        [] job.kind = "nuke" -> lists'[u] = <<>>

OnlyOwnChange ==
  [][\A u \in URIs : lists'[u] # lists[u] =>
       \E t \in Tools : tool'[t] # tool[t] /\ tool[t].pc = "got" /\ (tool[t].stale \/ OwnChange(t, u))]_vars

\* requests/api.go:103: a tool that ends without an error has done what it was for, if no
\* other tool published at its URIs: all it adds is there, under some definition; of
\* what it removes nothing is left, unless it emptied a list and did not go on.
DoneUnlessDisturbed ==
  \A t \in Tools \ disturbed :
    tool[t].pc = "done" /\ tool[t].unresolved = {} =>
      LET job == tool[t].job
          There(i) == job.reqs[i].key \in Keys(lists[job.reqs[i].at])
      IN  CASE job.kind = "add" -> \A i \in DOMAIN job.reqs : There(i)
            [] job.kind = "rm" -> \/ \A i \in DOMAIN job.reqs : ~There(i)
                                  \/ \E u \in Places(job) : lists[u] = <<>>
            [] job.kind = "nuke" -> lists[job.uri] = <<>>

\* artop/watcharchive.go:126: a stream that reports at least once in every MinInterval, from
\* when it is first watched, has no alarm, however many watchers of it there are and whenever they begin.
Regular == heard.count > 0 /\ heard.regular /\ now - heard.last <= MinInterval
NoFalseAlarm == Regular => ~Barks

\* A stream that is silent has an alarm when twice the longest time between two messages,
\* two MinIntervals, and since the last watcher began the grace period are over.
SilenceIsNoticed ==
  heard.count > 0 /\ now > heard.last + 2 * heard.longest /\ now > Last(begun) + Grace => Barks
=============================================================================
