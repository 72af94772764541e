--------------------------- MODULE ArchiveRequests ---------------------------
(***************************************************************************)
(* The command line tools for archive requests (requests/api.go, file.go): *)
(* addreq, rmreq and nukereq change the lists of requests that BOSSWAVE    *)
(* keeps, one list for each URI, by reading a list and publishing another. *)
(*                                                                         *)
(* Of a request matters its key (the archived URI and the name), all else  *)
(* that is in it (def), and whether it has a PO, a value expression and a  *)
(* name (valid).  A config names a place by an alias, which the tool       *)
(* resolves; one it cannot resolve still works as a place to read and to   *)
(* publish, but differs from the URI in what is read from there.           *)
(***************************************************************************)
EXTENDS Naturals, SequencesExt, FiniteSetsExt

CONSTANTS URIs,
          Tools \* runs of a tool

VARIABLES
  load,     \* rigid: jobs for each tool [kind, reqs, uri], and a bound for failures
  lists,    \* for each URI the requests that are persisted there
  tool,     \* for each tool where it is
  failures, \* registry and BOSSWAVE calls that failed
  disturbed \* history: tools at whose URIs another one published since they started

reqVars == <<lists, tool, failures, disturbed>>

NotStarted == [pc |-> "new", job |-> [kind |-> "none"], todo |-> <<>>, unresolved |-> {},
               got |-> <<>>, stale |-> FALSE]

ReqInit ==
  /\ lists = load.lists
  /\ tool = [t \in Tools |-> NotStarted]
  /\ failures = 0 /\ disturbed = {}

\* The places a job is about.
Places(job) == IF job.kind = "nuke" THEN {job.uri} ELSE {job.reqs[i].at : i \in DOMAIN job.reqs}

Goes(t, s) == tool' = [tool EXCEPT ![t] = s]
Fault == failures < load.failures /\ failures' = failures + 1

\* ReadConfig: a PO that is missing has a default, so of what is not valid there is
\* left what has no value expression or no name.  ToArchiveRequest fills in a missing
\* place after it has copied it, that is, never.
Checked(reqs) == \A i \in DOMAIN reqs : reqs[i].valid

\* Each place is resolved, or not.  What a tool removes is looked for at each place
\* once, in the order of a Go map.
Start(t, job) ==
  /\ tool[t].pc = "new"
  /\ \E unresolved \in SUBSET Places(job) :
       /\ failures + Cardinality(unresolved) <= load.failures
       /\ failures' = failures + Cardinality(unresolved)
       /\ \E todo \in CASE job.kind = "add" -> {job.reqs}
                        [] job.kind = "rm" -> SetToSeqs(Places(job))
                        [] job.kind = "nuke" -> {<<job.uri>>} :
            Goes(t, [tool[t] EXCEPT
                       !.job = job, !.todo = todo, !.unresolved = unresolved,
                       !.pc = IF job.kind = "add" /\ ~Checked(job.reqs) THEN "failed"
                              ELSE IF todo = <<>> THEN "done"
                              ELSE IF job.kind = "nuke" THEN "got" ELSE "get"])
  /\ UNCHANGED <<lists, disturbed>>

Place(t) == IF tool[t].job.kind = "add" THEN Head(tool[t].todo).at ELSE Head(tool[t].todo)

\* Faulty variant: what is looked for is compared without its place.
LooseSameAs_key(t, r, e, u) == r.key = e.key

\* Faulty variant: they are the same only if all of them is.
LooseSameAs_all(t, r, e, u) == r.is = e /\ r.at = u /\ u \notin tool[t].unresolved

\* A request of the tool and one that was read at u.
LooseSameAs(t, r, e, u) == r.key = e.key /\ r.at = u /\ u \notin tool[t].unresolved

Left(s) == [s EXCEPT !.todo = Tail(@), !.got = <<>>, !.stale = FALSE,
                     !.pc = IF Len(s.todo) = 1 THEN "done" ELSE "get"]

Read(t) == lists[Place(t)]

\* GetArchiveRequests.  A request that is there already is not added.
Get(t) ==
  /\ tool[t].pc = "get" /\ UNCHANGED <<lists, disturbed>>
  /\ \/ UNCHANGED failures
        /\ IF tool[t].job.kind = "add"
              /\ \E e \in Range(Read(t)) : LooseSameAs(t, Head(tool[t].todo), e, Place(t))
           THEN Goes(t, Left(tool[t]))
           ELSE Goes(t, [tool[t] EXCEPT !.got = Read(t), !.pc = "got", !.stale = FALSE])
     \/ Fault /\ Goes(t, [tool[t] EXCEPT !.pc = "failed"])

\* requestLoop: what is left of a list, in its order.
Without(requests, gone) ==
  FoldLeft(LAMBDA keep, req : IF req \in gone THEN keep ELSE Append(keep, req), <<>>, requests)

\* What a tool makes of a list.
Kept(t) ==
  Without(tool[t].got, {e \in Range(tool[t].got) :
    \E i \in DOMAIN tool[t].job.reqs : LooseSameAs(t, tool[t].job.reqs[i], e, Place(t))})
Changed(t) ==
  CASE tool[t].job.kind = "add"  -> Append(tool[t].got, Head(tool[t].todo).is)
    [] tool[t].job.kind = "rm"   -> Kept(t)
    [] tool[t].job.kind = "nuke" -> <<>>

\* AttachArchiveRequests checks what it publishes, and whoever it is from.
Refused(t) == tool[t].job.kind = "rm" /\ \E e \in Range(Kept(t)) : ~e.valid

\* Faulty variant: it stops when it has published a list.
After_first(t) == [Left(tool[t]) EXCEPT !.pc = "done"]

\* A tool that removes stops when it has emptied a list.
After(t) ==
  IF tool[t].job.kind = "rm" /\ Changed(t) = <<>>
  THEN [Left(tool[t]) EXCEPT !.pc = "done"] ELSE Left(tool[t])

\* The list is published, and replaces what is there by now.
Publish(t) ==
  /\ tool[t].pc = "got" /\ ~Refused(t)
  /\ LET u == Place(t)
         others == {o \in Tools \ {t} : tool[o].pc # "new" /\ u \in Places(tool[o].job)}
     IN  /\ lists' = [lists EXCEPT ![u] = Changed(t)]
         /\ tool' = [o \in Tools |->
              IF o = t THEN After(t)
              ELSE IF tool[o].pc = "got" /\ Place(o) = u THEN [tool[o] EXCEPT !.stale = TRUE]
              ELSE tool[o]]
         /\ disturbed' = disturbed \cup others
  /\ UNCHANGED failures

PublishFails(t) ==
  /\ tool[t].pc = "got"
  /\ IF Refused(t) THEN UNCHANGED failures ELSE Fault
  /\ Goes(t, [tool[t] EXCEPT !.pc = "failed"])
  /\ UNCHANGED <<lists, disturbed>>
=============================================================================
