---------------------------- MODULE ToolsProofs ----------------------------
(***************************************************************************)
(* Proofs about the tools for archive requests and the watchdog, for any   *)
(* URIs, requests, tools and loads, and any length of the window.          *)
(***************************************************************************)
EXTENDS ArchiveTools, SequenceLemmas

(* The loop of a tool that removes. *)

\* h is what requestLoop has kept so far.
Keeps(h, s, gone, E) ==
  /\ h \in [0..Len(s) -> Seq(E)] /\ h[0] = <<>>
  /\ \A k \in 1..Len(s) : h[k] = IF s[k] \in gone THEN h[k - 1] ELSE Append(h[k - 1], s[k])

\* The fold of requestLoop goes through what it has kept after each request.
LEMMA WithoutRuns ==
  ASSUME NEW E, NEW s \in Seq(E), NEW gone
  PROVE  \E h : Keeps(h, s, gone, E) /\ Without(s, gone) = h[Len(s)]
<1> DEFINE B == Seq(E)
           n == Len(s)
           G == [p \in (1..n) \X B |-> IF s[p[1]] \in gone THEN p[2] ELSE Append(p[2], s[p[1]])]
<1>1. n \in Nat /\ DOMAIN s = 1..n /\ \A i \in 1..n : s[i] \in E
  OBVIOUS
<1>2. IsStep(n, B, <<>>, G)
  BY <1>1 DEF IsStep
<1>3. PICK it : Unwound(it, n, B, <<>>, G)
  BY <1>2, UnwindingExists
<1>4. it = [t \in SUBSET DOMAIN s |->
              IF t = {} THEN <<>> ELSE IF s[Max(t)] \in gone THEN it[t \ {Max(t)}] ELSE Append(it[t \ {Max(t)}], s[Max(t)])]
  <2>1. ASSUME NEW t \in SUBSET (1..n), t # {}
        PROVE  it[t] = IF s[Max(t)] \in gone THEN it[t \ {Max(t)}] ELSE Append(it[t \ {Max(t)}], s[Max(t)])
    <3>1. Max(t) \in 1..n /\ t \ {Max(t)} \in SUBSET (1..n)
      BY <1>1, <2>1, Greatest
    <3>2. it[t \ {Max(t)}] \in B /\ it[t] = G[<<Max(t), it[t \ {Max(t)}]>>]
      BY <1>3, <2>1, <3>1 DEF Unwound
    <3>3. QED
      BY <3>1, <3>2
  <2> HIDE DEF G, B
  <2>2. QED
    BY <1>1, <1>3, <2>1 DEF Unwound
<1>5. PICK c : /\ c = [t \in SUBSET DOMAIN s |->
                         IF t = {} THEN <<>> ELSE IF s[Max(t)] \in gone THEN c[t \ {Max(t)}] ELSE Append(c[t \ {Max(t)}], s[Max(t)])]
               /\ Without(s, gone) = c[DOMAIN s]
  BY <1>4 DEF Without, FoldLeft, MapThenFoldSet
<1>6. Unwinds(c, n, B, <<>>, G)
  <2>1. c[{}] = <<>>
    BY <1>5
  <2>2. ASSUME NEW t \in SUBSET (1..n), t # {}, c[t \ {Max(t)}] \in B
        PROVE  c[t] = G[<<Max(t), c[t \ {Max(t)}]>>]
    <3>1. Max(t) \in 1..n
      BY <1>1, <2>2, Greatest
    <3>2. c[t] = IF s[Max(t)] \in gone THEN c[t \ {Max(t)}] ELSE Append(c[t \ {Max(t)}], s[Max(t)])
      BY <1>1, <1>5, <2>2
    <3>3. QED
      BY <2>2, <3>1, <3>2
  <2>3. QED
    BY <2>1, <2>2 DEF Unwinds
<1>7. PICK h : Runs(h, n, B, <<>>, G) /\ c[1..n] = h[n]
  <2> HIDE DEF B, n, G
  <2>1. QED
    BY <1>2, <1>6, UnwindsToRun
<1>8. ASSUME NEW k \in 1..n PROVE h[k] = IF s[k] \in gone THEN h[k - 1] ELSE Append(h[k - 1], s[k])
  <2>1. h \in [0..n -> B] /\ h[k] = G[<<k, h[k - 1]>>]
    BY <1>7 DEF Runs
  <2>2. h[k - 1] \in B
    <3> HIDE DEF G, B
    <3>1. QED
      BY <1>1, <2>1
  <2>3. QED
    BY <2>1, <2>2
<1>9. QED
  BY <1>1, <1>5, <1>7, <1>8 DEF Runs, Keeps


TwinFree(l) == \A i, j \in DOMAIN l : l[i].key = l[j].key => i = j

\* What is left of a list is what is not to go, no key of it twice, and all of
\* the list when nothing is to go.
LEMMA WithoutIs ==
  ASSUME NEW E, NEW s \in Seq(E), NEW gone
  PROVE  /\ Without(s, gone) \in Seq(E)
         /\ Entries(Without(s, gone)) = Entries(s) \ gone
         /\ TwinFree(s) => TwinFree(Without(s, gone))
         /\ gone = {} => Without(s, gone) = s
<1>0. PICK h : Keeps(h, s, gone, E) /\ Without(s, gone) = h[Len(s)]
  BY WithoutRuns
<1>1. /\ h \in [0..Len(s) -> Seq(E)] /\ h[0] = <<>>
      /\ \A k \in 1..Len(s) : h[k] = IF s[k] \in gone THEN h[k - 1] ELSE Append(h[k - 1], s[k])
      /\ Without(s, gone) = h[Len(s)]
  BY <1>0 DEF Keeps
<1> DEFINE P(k) == /\ Entries(h[k]) = {s[i] : i \in 1..k} \ gone
                   /\ TwinFree(s) => TwinFree(h[k])
                   /\ gone = {} => Len(h[k]) = k /\ \A i \in 1..k : h[k][i] = s[i]
           S == {k \in 0..Len(s) : P(k)}
<1>2. Len(s) \in Nat /\ DOMAIN s = 1..Len(s)
  OBVIOUS
<1>3. 0 \in S
  BY <1>1 DEF Entries, TwinFree
<1>4. ASSUME NEW k \in 1..Len(s), k - 1 \in S PROVE k \in S
  <2>1. PICK m : m = k - 1
    OBVIOUS
  <2>a. /\ m \in 0..Len(s) /\ k = m + 1 /\ P(m)
    BY <1>4, <2>1
  <2>b. h[m] \in Seq(E) /\ h[k] = IF s[k] \in gone THEN h[m] ELSE Append(h[m], s[k])
    BY <1>1, <2>1, <2>a
  <2>2. /\ m \in 0..Len(s) /\ k = m + 1 /\ P(m) /\ h[m] \in Seq(E)
        /\ h[k] = IF s[k] \in gone THEN h[m] ELSE Append(h[m], s[k])
    BY <2>a, <2>b
  <2>3. {s[i] : i \in 1..k} = {s[i] : i \in 1..m} \cup {s[k]}
    BY <2>2
  <2>4. CASE s[k] \in gone
    <3>1. h[k] = h[m] /\ gone # {}
      BY <2>2, <2>4
    <3>2. P(k)
      BY <2>2, <2>3, <2>4, <3>1
    <3>3. QED
      BY <3>2
  <2>5. CASE s[k] \notin gone
    <3>1. h[k] = Append(h[m], s[k]) /\ Len(h[m]) \in Nat /\ DOMAIN h[m] = 1..Len(h[m])
      BY <2>2, <2>5
    <3>2. /\ DOMAIN h[k] = 1..(Len(h[m]) + 1) /\ h[k][Len(h[m]) + 1] = s[k]
          /\ \A i \in 1..Len(h[m]) : h[k][i] = h[m][i]
          /\ Len(h[k]) = Len(h[m]) + 1
      BY <2>2, <3>1
    <3>3. Entries(h[k]) = Entries(h[m]) \cup {s[k]}
      BY <3>1, <3>2, SMTT(30) DEF Entries
    <3>4. Entries(h[k]) = {s[i] : i \in 1..k} \ gone
      BY <2>2, <2>3, <2>5, <3>3
    <3>5. ASSUME TwinFree(s) PROVE TwinFree(h[k])
      <4>1. \A i \in 1..Len(h[m]) : h[m][i].key # s[k].key
        <5>1. ASSUME NEW i \in 1..Len(h[m]) PROVE h[m][i].key # s[k].key
          <6>1. h[m][i] \in Entries(h[m])
            BY <3>1 DEF Entries
          <6>2. PICK j \in 1..m : h[m][i] = s[j]
            BY <2>2, <6>1
          <6>3. j \in DOMAIN s /\ k \in DOMAIN s /\ j # k
            BY <2>2, <1>2
          <6>4. QED
            BY <3>5, <6>2, <6>3 DEF TwinFree
        <5>2. QED
          BY <5>1
      <4>2. TwinFree(h[m])
        BY <2>2, <3>5
      <4>3. QED
        BY <3>1, <3>2, <4>1, <4>2 DEF TwinFree
    <3>6. ASSUME gone = {} PROVE Len(h[k]) = k /\ \A i \in 1..k : h[k][i] = s[i]
      BY <2>2, <3>2, <3>6
    <3>7. QED
      BY <3>4, <3>5, <3>6
  <2>6. QED
    BY <2>4, <2>5
<1>5. 0..Len(s) \subseteq S
  <2> HIDE DEF S
  <2>1. QED
    BY <1>2, <1>3, <1>4, UpTo
<1>6. P(Len(s)) /\ h[Len(s)] \in Seq(E)
  BY <1>1, <1>2, <1>5
<1>7. {s[i] : i \in 1..Len(s)} = Entries(s)
  BY <1>2 DEF Entries
<1>8. ASSUME gone = {} PROVE Without(s, gone) = s
  <2>1. h[Len(s)] \in Seq(E) /\ Len(h[Len(s)]) = Len(s) /\ \A i \in 1..Len(s) : h[Len(s)][i] = s[i]
    BY <1>6, <1>8
  <2>2. QED
    BY <1>1, <2>1, SeqEqual
<1>9. QED
  BY <1>1, <1>6, <1>7, <1>8

-----------------------------------------------------------------------------
(* The types of what the tools have, and what is still to do at each point. *)

Jobs == {[kind |-> "none"]} \cup UNION {l.jobs[t] : l \in Loads, t \in Tools}

ToolType == [pc : {"new", "get", "got", "done", "failed"}, job : Jobs, stale : BOOLEAN,
             todo : Seq(Wanted) \cup Seq(URIs), unresolved : SUBSET URIs, got : Seq(Requests)]

\* What a job may be.
Wants(job) == job.kind \in {"add", "rm", "nuke"} /\ job.reqs \in Seq(Wanted) /\ job.uri \in URIs

\* A tool adds the requests from the first to the last, and goes to each place once.
AtWork(s) ==
  /\ Wants(s.job) /\ s.unresolved \subseteq Places(s.job)
  /\ s.job.kind = "add" =>
       /\ s.todo \in Seq(Wanted) /\ Len(s.todo) <= Len(s.job.reqs)
       /\ \A i \in DOMAIN s.todo : s.todo[i] = s.job.reqs[Len(s.job.reqs) - Len(s.todo) + i]
       /\ s.pc = "done" => s.todo = <<>>
  /\ s.job.kind = "rm" => /\ s.todo \in Seq(Places(s.job))
                          /\ \A i, j \in DOMAIN s.todo : s.todo[i] = s.todo[j] => i = j
  /\ s.job.kind = "nuke" => s.todo \in {<<>>, <<s.job.uri>>} /\ s.pc # "get"
  /\ s.pc \in {"get", "got"} => s.todo # <<>>

ToolOK(s) == s \in ToolType /\ IF s.pc = "new" THEN s = NotStarted ELSE AtWork(s)

ToolsOK ==
  /\ load \in Loads /\ lists \in [URIs -> Seq(Requests)] /\ failures \in 0..load.failures
  /\ disturbed \subseteq Tools
  /\ DOMAIN tool = Tools /\ \A t \in Tools : ToolOK(tool[t])

\* The assumption about loads, as the proofs use it.
LEMMA LoadsOK ==
  ASSUME load \in Loads
  PROVE  /\ load.lists \in [URIs -> Seq(Requests)] /\ \A u \in URIs : TwinFree(load.lists[u])
         /\ load.failures \in Nat
         /\ \A t \in Tools : \A job \in load.jobs[t] : Wants(job) /\ job \in Jobs
BY ToolsAssumption DEF TwinFree, Wants, Jobs

\* A request that is wanted has the key of what it adds.
LEMMA WantedIs ==
  ASSUME NEW r \in Wanted
  PROVE  r.at \in URIs /\ r.is \in Requests /\ r.is.key = r.key
BY DEF Wanted

\* A job is about finitely many places.
LEMMA PlacesOK ==
  ASSUME NEW job, Wants(job)
  PROVE  Places(job) \subseteq URIs /\ IsFiniteSet(Places(job))
<1>1. CASE job.kind = "nuke"
  BY <1>1, FS_Singleton DEF Places, Wants
<1>2. CASE job.kind # "nuke"
  <2>1. Places(job) = {job.reqs[i].at : i \in 1..Len(job.reqs)} /\ Len(job.reqs) \in Nat
    BY <1>2 DEF Places, Wants
  <2>2. \A i \in 1..Len(job.reqs) : job.reqs[i] \in Wanted
    BY DEF Wants
  <2> DEFINE f == [i \in 1..Len(job.reqs) |-> job.reqs[i].at]
             T == {job.reqs[i].at : i \in 1..Len(job.reqs)}
  <2>3. IsFiniteSet(1..Len(job.reqs)) /\ f \in Surjection(1..Len(job.reqs), T)
    <3>1. IsFiniteSet(1..Len(job.reqs))
      BY <2>1, FS_Interval
    <3>2. f \in [1..Len(job.reqs) -> T] /\ \A u \in T : \E i \in 1..Len(job.reqs) : f[i] = u
      OBVIOUS
    <3> HIDE DEF f, T
    <3>3. QED
      BY <3>1, <3>2 DEF Surjection
  <2>4. IsFiniteSet(T)
    <3> HIDE DEF f, T
    <3>1. QED
      BY <2>3, FS_Surjection
  <2>5. QED
    BY <2>1, <2>2, <2>4, WantedIs
<1>3. QED
  BY <1>1, <1>2

\* Where a tool reads and publishes is one of its places, and the first of what it has to do.
LEMMA PlaceIs ==
  ASSUME NEW t \in Tools, ToolOK(tool[t]), tool[t].pc \in {"get", "got"}
  PROVE  /\ Place(t) \in Places(tool[t].job) /\ Place(t) \in URIs
         /\ AtWork(tool[t]) /\ Len(tool[t].todo) \in Nat \ {0} /\ Head(tool[t].todo) = tool[t].todo[1]
         /\ tool[t].job.kind = "add" =>
              /\ Head(tool[t].todo) \in Wanted /\ Place(t) = Head(tool[t].todo).at
              /\ \E i \in DOMAIN tool[t].job.reqs : 
                   /\ Head(tool[t].todo) = tool[t].job.reqs[i]
                   /\ i = Len(tool[t].job.reqs) - Len(tool[t].todo) + 1
         /\ tool[t].job.kind # "add" => Place(t) = Head(tool[t].todo)
<1>1. PICK s : s = tool[t]
  OBVIOUS
<1>2. AtWork(s) /\ Wants(s.job) /\ s.todo # <<>>
  BY <1>1 DEF ToolOK, AtWork
<1>3. Places(s.job) \subseteq URIs
  BY <1>2, PlacesOK
<1>4. CASE s.job.kind = "add"
  <2>1. PICK q, r : q = s.todo /\ r = s.job.reqs
    OBVIOUS
  <2>2. q \in Seq(Wanted) /\ r \in Seq(Wanted) /\ q # <<>> /\ Len(q) <= Len(r)
    BY <1>2, <1>4, <2>1 DEF AtWork, Wants
  <2>3. Len(q) \in Nat \ {0} /\ Head(q) = q[1] /\ q[1] \in Wanted /\ 1 \in DOMAIN q
    BY <2>2
  <2>4. q[1] = r[Len(r) - Len(q) + 1]
    BY <1>2, <1>4, <2>1, <2>3 DEF AtWork
  <2>5. PICK i \in DOMAIN r : i = Len(r) - Len(q) + 1
    BY <2>2, <2>3
  <2>6. Place(t) = q[1].at
    BY <1>1, <1>4, <2>1, <2>3 DEF Place
  <2>7. Place(t) \in Places(s.job)
    BY <1>4, <2>1, <2>4, <2>5, <2>6 DEF Places
  <2>8. QED
    BY <1>1, <1>2, <1>3, <1>4, <2>1, <2>3, <2>4, <2>5, <2>6, <2>7
<1>5. CASE s.job.kind = "rm"
  <2>1. s.todo \in Seq(Places(s.job)) /\ Place(t) = Head(s.todo)
    BY <1>1, <1>2, <1>5 DEF AtWork, Place
  <2>2. QED
    BY <1>1, <1>2, <1>3, <1>5, <2>1
<1>6. CASE s.job.kind = "nuke"
  <2>1. s.todo = <<s.job.uri>> /\ Place(t) = Head(s.todo)
    BY <1>1, <1>2, <1>6 DEF AtWork, Place
  <2>2. QED
    BY <1>1, <1>2, <1>3, <1>6, <2>1 DEF Places
<1>7. QED
  BY <1>2, <1>4, <1>5, <1>6 DEF Wants

\* A tool that has done with a place.
LEMMA LeftIs ==
  ASSUME NEW s, s \in ToolType, AtWork(s), s.pc \in {"get", "got"}, NEW pc \in {"get", "done"},
         pc = "get" => s.job.kind # "nuke" /\ Len(s.todo) # 1,
         pc = "done" /\ s.job.kind = "add" => Len(s.todo) = 1
  PROVE  LET l == [Left(s) EXCEPT !.pc = pc]
         IN  /\ l.pc = pc /\ l.job = s.job /\ l.unresolved = s.unresolved
             /\ l.todo = Tail(s.todo) /\ l.stale = FALSE
             /\ ToolOK(l)
<1> DEFINE l == [Left(s) EXCEPT !.pc = pc]
<1>1. /\ s = [pc |-> s.pc, job |-> s.job, stale |-> s.stale, todo |-> s.todo,
              unresolved |-> s.unresolved, got |-> s.got]
      /\ s.job \in Jobs /\ s.unresolved \in SUBSET URIs
  BY DEF ToolType
<1>a. PICK q, r : q = s.todo /\ r = s.job.reqs
  OBVIOUS
<1>2. l = [pc |-> pc, job |-> s.job, stale |-> FALSE, todo |-> Tail(s.todo),
           unresolved |-> s.unresolved, got |-> <<>>]
  <2>1. PICK p : p = IF Len(s.todo) = 1 THEN "done" ELSE "get"
    OBVIOUS
  <2>2. Left(s) = [s EXCEPT !.todo = Tail(s.todo), !.got = <<>>, !.stale = FALSE, !.pc = p]
    BY <2>1 DEF Left
  <2>3. Left(s) = [pc |-> p, job |-> s.job, stale |-> FALSE,
                   todo |-> Tail(s.todo), unresolved |-> s.unresolved, got |-> <<>>]
    BY <1>1, <2>2
  <2>4. PICK k : k = Left(s) /\ k = [pc |-> p, job |-> s.job, stale |-> FALSE,
                                     todo |-> Tail(s.todo), unresolved |-> s.unresolved, got |-> <<>>]
    BY <2>3
  <2>5. /\ l = [k EXCEPT !.pc = pc]
        /\ k = [pc |-> k.pc, job |-> k.job, stale |-> k.stale, todo |-> k.todo,
                unresolved |-> k.unresolved, got |-> k.got]
    BY <2>4
  <2>6. [k EXCEPT !.pc = pc] = [pc |-> pc, job |-> k.job, stale |-> k.stale, todo |-> k.todo,
                                unresolved |-> k.unresolved, got |-> k.got]
    BY <2>5
  <2>7. QED
    BY <2>4, <2>5, <2>6
<1> HIDE DEF l
<1>3. Wants(s.job) /\ s.todo # <<>>
  BY DEF AtWork
<1>4. /\ Places(s.job) \subseteq URIs
  BY <1>3, PlacesOK
<1>5. ASSUME s.job.kind = "add"
      PROVE  /\ Tail(q) \in Seq(Wanted) /\ Len(Tail(q)) <= Len(r)
             /\ \A i \in DOMAIN Tail(q) : Tail(q)[i] = r[Len(r) - Len(Tail(q)) + i]
             /\ pc = "done" => Tail(q) = <<>>
             /\ pc = "get" => Tail(q) # <<>>
  <2>1. q \in Seq(Wanted) /\ r \in Seq(Wanted) /\ Len(q) <= Len(r) /\ q # <<>>
    BY <1>3, <1>5, <1>a DEF AtWork, Wants
  <2>2. /\ Tail(q) \in Seq(Wanted) /\ Len(Tail(q)) = Len(q) - 1 /\ Len(q) \in Nat \ {0}
        /\ \A i \in DOMAIN Tail(q) : Tail(q)[i] = q[i + 1] /\ i + 1 \in DOMAIN q
        /\ DOMAIN Tail(q) = 1..Len(Tail(q)) /\ Tail(q) = <<>> <=> Len(q) = 1
    BY <2>1, Tails
  <2>3. ASSUME NEW i \in DOMAIN Tail(q)
        PROVE  Tail(q)[i] = r[Len(r) - Len(Tail(q)) + i]
    <3>1. i + 1 \in DOMAIN q /\ Tail(q)[i] = q[i + 1]
      BY <2>2
    <3>2. q[i + 1] = r[Len(r) - Len(q) + (i + 1)]
      BY <1>5, <1>a, <3>1 DEF AtWork
    <3>3. Len(r) - Len(q) + (i + 1) = Len(r) - Len(Tail(q)) + i
      BY <2>1, <2>2
    <3>4. QED
      BY <3>1, <3>2, <3>3
  <2>4. Len(Tail(q)) <= Len(r)
    BY <2>1, <2>2
  <2>5. QED
    BY <1>5, <1>a, <2>2, <2>3, <2>4
<1>6. ASSUME s.job.kind = "rm"
      PROVE  /\ Tail(q) \in Seq(Places(s.job))
             /\ \A i, j \in DOMAIN Tail(q) : Tail(q)[i] = Tail(q)[j] => i = j
             /\ pc = "get" => Tail(q) # <<>>
  <2>1. q \in Seq(Places(s.job)) /\ q # <<>> /\ \A i, j \in DOMAIN q : q[i] = q[j] => i = j
    BY <1>3, <1>6, <1>a DEF AtWork
  <2>2. /\ Tail(q) \in Seq(Places(s.job)) /\ Len(q) \in Nat \ {0}
        /\ \A i \in DOMAIN Tail(q) : Tail(q)[i] = q[i + 1] /\ i + 1 \in DOMAIN q
        /\ DOMAIN Tail(q) = 1..(Len(q) - 1) /\ Tail(q) = <<>> <=> Len(q) = 1
    BY <2>1, Tails
  <2>3. ASSUME NEW i \in DOMAIN Tail(q), NEW j \in DOMAIN Tail(q), Tail(q)[i] = Tail(q)[j]
        PROVE  i = j
    <3>1. i + 1 \in DOMAIN q /\ j + 1 \in DOMAIN q /\ q[i + 1] = q[j + 1]
      BY <2>2, <2>3
    <3>2. i + 1 = j + 1
      BY <2>1, <3>1
    <3>3. QED
      BY <2>2, <3>2
  <2>4. QED
    BY <1>a, <2>2, <2>3
<1>7. ASSUME s.job.kind = "nuke" PROVE Tail(q) = <<>> /\ pc = "done"
  <2>1. q = <<s.job.uri>>
    BY <1>3, <1>7, <1>a DEF AtWork
  <2>2. QED
    BY <1>7, <2>1
<1>8. Tail(q) \in Seq(Wanted) \cup Seq(URIs)
  <2>1. s.job.kind \in {"add", "rm", "nuke"}
    BY <1>3 DEF Wants
  <2>2. <<>> \in Seq(URIs)
    OBVIOUS
  <2>3. Seq(Places(s.job)) \subseteq Seq(URIs)
    BY <1>4
  <2>4. QED
    BY <1>5, <1>6, <1>7, <2>1, <2>2, <2>3
<1>9. l \in ToolType
  BY <1>1, <1>2, <1>8, <1>a DEF ToolType
<1>10. AtWork(l)
  <2>1. /\ l.job = s.job /\ l.unresolved = s.unresolved /\ l.todo = Tail(q) /\ l.pc = pc
        /\ s.unresolved \subseteq Places(s.job)
    BY <1>2, <1>a DEF AtWork
  <2>2. pc = "get" => Tail(q) # <<>>
    BY <1>3, <1>5, <1>6, <1>7 DEF Wants
  <2>3. QED
    BY <1>3, <1>5, <1>6, <1>7, <1>a, <2>1, <2>2 DEF AtWork
<1>11. QED
  BY <1>2, <1>9, <1>10 DEF l, ToolOK

-----------------------------------------------------------------------------
(* What each action does to the tools.                                      *)

\* A tool that has started: what it has to do is all of its job.
Started(s, job) ==
  /\ s.job = job /\ s.got = <<>> /\ s.stale = FALSE /\ s.pc # "new"
  /\ s.pc = "got" => job.kind = "nuke"
  /\ job.kind = "add" => s.todo = job.reqs
  /\ job.kind = "rm" => \A u \in Places(job) : u \in Range(s.todo)
  /\ s.pc = "done" => s.todo = <<>> /\ job.kind # "nuke"

\* A tool that starts, or fails at once for its config.
LEMMA StartIs ==
  ASSUME ToolsOK, NEW t \in Tools, NEW job \in load.jobs[t], Start(t, job)
  PROVE  /\ tool[t] = NotStarted /\ failures' \in 0..load.failures
         /\ \E s : ToolOK(s) /\ Started(s, job) /\ tool' = [tool EXCEPT ![t] = s]
<1>1. Wants(job) /\ job \in Jobs /\ load.failures \in Nat
  BY LoadsOK DEF ToolsOK
<1>2. Places(job) \subseteq URIs /\ IsFiniteSet(Places(job))
  BY <1>1, PlacesOK
<1>3. tool[t] = NotStarted
  BY DEF Start, ToolsOK, ToolOK
<1>4. PICK unresolved, q :
        /\ unresolved \in SUBSET Places(job)
        /\ failures + Cardinality(unresolved) <= load.failures
        /\ failures' = failures + Cardinality(unresolved)
        /\ q \in CASE job.kind = "add" -> {job.reqs}
                   [] job.kind = "rm" -> SetToSeqs(Places(job))
                   [] job.kind = "nuke" -> {<<job.uri>>}
        /\ Goes(t, [tool[t] EXCEPT
                      !.job = job, !.todo = q, !.unresolved = unresolved,
                      !.pc = IF job.kind = "add" /\ ~Checked(job.reqs) THEN "failed"
                             ELSE IF q = <<>> THEN "done"
                             ELSE IF job.kind = "nuke" THEN "got" ELSE "get"])
  BY DEF Start
<1>5. PICK pc : pc = IF job.kind = "add" /\ ~Checked(job.reqs) THEN "failed"
                     ELSE IF q = <<>> THEN "done"
                     ELSE IF job.kind = "nuke" THEN "got" ELSE "get"
  OBVIOUS
<1>6. PICK s : s = [pc |-> pc, job |-> job, todo |-> q, unresolved |-> unresolved,
                    got |-> <<>>, stale |-> FALSE]
  OBVIOUS
<1>7. tool' = [tool EXCEPT ![t] = s]
  <2>1. tool' = [tool EXCEPT ![t] = [tool[t] EXCEPT !.job = job, !.todo = q, !.unresolved = unresolved, !.pc = pc]]
    BY <1>4, <1>5 DEF Goes
  <2>2. [tool[t] EXCEPT !.job = job, !.todo = q, !.unresolved = unresolved, !.pc = pc] = s
    <3>1. PICK z : /\ z = tool[t] /\ z.got = <<>> /\ z.stale = FALSE
                   /\ z = [pc |-> z.pc, job |-> z.job, todo |-> z.todo, unresolved |-> z.unresolved,
                           got |-> z.got, stale |-> z.stale]
      BY <1>3 DEF NotStarted
    <3>2. z = [pc |-> z.pc, job |-> z.job, todo |-> z.todo, unresolved |-> z.unresolved,
               got |-> z.got, stale |-> z.stale]
      BY <3>1
    <3>a. PICK y : y = [z EXCEPT !.job = job, !.todo = q, !.unresolved = unresolved, !.pc = pc]
      OBVIOUS
    <3>3. y = [pc |-> pc, job |-> job, todo |-> q, unresolved |-> unresolved, got |-> z.got, stale |-> z.stale]
      BY <3>2, <3>a
    <3>4. QED
      BY <1>6, <3>1, <3>3, <3>a, Zenon
  <2>3. QED
    BY <2>1, <2>2, Zenon
<1>8. failures' \in 0..load.failures
  <2>1. IsFiniteSet(unresolved)
    BY <1>2, <1>4, FS_Subset
  <2>2. Cardinality(unresolved) \in Nat
    BY <2>1, FS_CardinalityType
  <2>3. QED
    BY <1>1, <1>4, <2>2 DEF ToolsOK
<1>9. ASSUME job.kind = "rm"
      PROVE  /\ q \in Seq(Places(job)) /\ \A i, j \in DOMAIN q : q[i] = q[j] => i = j
             /\ \A u \in Places(job) : u \in Range(q)
  <2>1. q \in SetToSeqs(Places(job))
    BY <1>4, <1>9
  <2>2. QED
    BY <1>2, <2>1, SeqsOfSet DEF Range
<1>10. (job.kind = "add" => q = job.reqs) /\ (job.kind = "nuke" => q = <<job.uri>> /\ q # <<>>)
  <2>1. <<job.uri>> # <<>>
    OBVIOUS
  <2>2. job.kind = "add" => q = job.reqs
    BY <1>4
  <2>3. job.kind = "nuke" => q = <<job.uri>>
    BY <1>4
  <2>4. QED
    BY <2>1, <2>2, <2>3
<1>11. Started(s, job)
  BY <1>1, <1>5, <1>6, <1>9, <1>10 DEF Started, Wants
<1>12. s \in ToolType
  <2>1. q \in Seq(Wanted) \cup Seq(URIs)
    <3>1. Seq(Places(job)) \subseteq Seq(URIs)
      BY <1>2
    <3>2. job.kind = "nuke" => q \in Seq(URIs)
      <4>1. job.uri \in URIs
        BY <1>1 DEF Wants
      <4>2. <<job.uri>> \in Seq(URIs)
        BY <4>1
      <4>3. QED
        BY <1>10, <4>2
    <3>3. job.kind = "add" => q \in Seq(Wanted)
      BY <1>1, <1>10 DEF Wants
    <3>4. job.kind = "rm" => q \in Seq(URIs)
      BY <1>9, <3>1
    <3>5. QED
      BY <1>1, <3>2, <3>3, <3>4 DEF Wants
  <2>2. pc \in {"new", "get", "got", "done", "failed"}
    BY <1>5
  <2>3. unresolved \in SUBSET URIs
    BY <1>2, <1>4
  <2>4. QED
    BY <1>1, <1>6, <2>1, <2>2, <2>3 DEF ToolType
<1>13. AtWork(s)
  <2>1. PICK r : r = job.reqs
    OBVIOUS
  <2>2. ASSUME job.kind = "add"
        PROVE  /\ q \in Seq(Wanted) /\ Len(q) <= Len(r)
               /\ \A i \in DOMAIN q : q[i] = r[Len(r) - Len(q) + i]
    <3>1. q = r /\ r \in Seq(Wanted) /\ Len(r) \in Nat /\ DOMAIN r = 1..Len(r)
      BY <1>1, <1>10, <2>1, <2>2 DEF Wants
    <3>2. \A i \in 1..Len(r) : Len(r) - Len(r) + i = i
      BY <3>1
    <3>3. QED
      BY <3>1, <3>2
  <2>3. /\ s.job = job /\ s.unresolved \subseteq Places(job) /\ s.todo = q /\ s.pc = pc
        /\ pc = "done" => q = <<>>
        /\ pc \in {"get", "got"} => q # <<>>
        /\ pc = "get" => job.kind # "nuke"
    BY <1>4, <1>5, <1>6
  <2>4. QED
    BY <1>1, <1>9, <1>10, <2>1, <2>2, <2>3 DEF AtWork
<1>14. QED
  BY <1>3, <1>7, <1>8, <1>11, <1>12, <1>13 DEF ToolOK, Started

\* What becomes of a tool that reads, or is done with a place, or fails.
Reads(t, s) ==
  /\ s.pc = "got" /\ s.got = lists[Place(t)] /\ s.stale = FALSE /\ s.todo = tool[t].todo
  /\ tool[t].job.kind = "add" =>
       \A e \in Range(lists[Place(t)]) : ~LooseSameAs(t, Head(tool[t].todo), e, Place(t))

Skips(t, s) ==
  /\ s = [Left(tool[t]) EXCEPT !.pc = s.pc] /\ s.pc = (IF Len(tool[t].todo) = 1 THEN "done" ELSE "get")
  /\ s.todo = Tail(tool[t].todo) /\ tool[t].job.kind = "add"
  /\ \E e \in Range(lists[Place(t)]) : LooseSameAs(t, Head(tool[t].todo), e, Place(t))

\* A tool keeps its job.
Same(t, s) == s.job = tool[t].job /\ s.unresolved = tool[t].unresolved

\* A tool that fails keeps its job and what it has not done.
LEMMA FailsIs ==
  ASSUME ToolsOK, NEW t \in Tools, tool[t].pc \in {"get", "got"}, NEW s, s = [tool[t] EXCEPT !.pc = "failed"]
  PROVE  ToolOK(s) /\ s.pc = "failed" /\ Same(t, s)
<1>1. PICK z : z = tool[t] /\ z \in ToolType /\ AtWork(z) /\ z.pc \in {"get", "got"}
  BY DEF ToolsOK, ToolOK
<1>2. s = [z EXCEPT !.pc = "failed"]
  BY <1>1
<1>3. /\ s \in ToolType /\ s.pc = "failed" /\ s.job = z.job /\ s.todo = z.todo
      /\ s.unresolved = z.unresolved
  BY <1>1, <1>2 DEF ToolType
<1>4. AtWork(s)
  BY <1>1, <1>3 DEF AtWork
<1>5. QED
  BY <1>1, <1>3, <1>4 DEF ToolOK, Same

\* A tool reads the list of its next place, finds that its request is there, or fails.
LEMMA GetIs ==
  ASSUME ToolsOK, NEW t \in Tools, Get(t)
  PROVE  /\ tool[t].pc = "get" /\ failures' \in 0..load.failures
         /\ \E s : /\ ToolOK(s) /\ Same(t, s) /\ tool' = [tool EXCEPT ![t] = s]
                   /\ Reads(t, s) \/ Skips(t, s) \/ s.pc = "failed"
<1>1. PICK z : z = tool[t] /\ z \in ToolType /\ AtWork(z) /\ z.pc = "get" /\ ToolOK(z)
  BY DEF ToolsOK, ToolOK, Get
<1>2. Place(t) \in URIs /\ lists[Place(t)] \in Seq(Requests)
  <2>1. Place(t) \in URIs
    BY <1>1, PlaceIs
  <2>2. QED
    BY <2>1 DEF ToolsOK
<1>3. load.failures \in Nat /\ failures \in 0..load.failures
  BY LoadsOK DEF ToolsOK
<1>4. ASSUME Fault, Goes(t, [tool[t] EXCEPT !.pc = "failed"])
      PROVE  /\ failures' \in 0..load.failures
             /\ \E s : ToolOK(s) /\ Same(t, s) /\ tool' = [tool EXCEPT ![t] = s] /\ s.pc = "failed"
  <2>1. PICK s : s = [tool[t] EXCEPT !.pc = "failed"]
    OBVIOUS
  <2>2. ToolOK(s) /\ s.pc = "failed" /\ Same(t, s)
    BY <1>1, <2>1, FailsIs
  <2>3. tool' = [tool EXCEPT ![t] = s]
    BY <1>4, <2>1 DEF Goes
  <2>4. failures' \in 0..load.failures
    BY <1>3, <1>4 DEF Fault
  <2>5. QED
    BY <2>2, <2>3, <2>4
<1>5. ASSUME UNCHANGED failures, tool[t].job.kind = "add", 
             \E e \in Range(Read(t)) : LooseSameAs(t, Head(tool[t].todo), e, Place(t)), Goes(t, Left(tool[t]))
      PROVE  /\ failures' \in 0..load.failures
             /\ \E s : ToolOK(s) /\ Same(t, s) /\ tool' = [tool EXCEPT ![t] = s] /\ Skips(t, s)
  <2>1. PICK s : s = Left(z)
    OBVIOUS
  <2>2. PICK pc : pc = IF Len(z.todo) = 1 THEN "done" ELSE "get"
    OBVIOUS
  <2>3. s = [Left(z) EXCEPT !.pc = pc]
    <3>1. s = [z EXCEPT !.todo = Tail(z.todo), !.got = <<>>, !.stale = FALSE, !.pc = pc]
      BY <2>1, <2>2 DEF Left
    <3>2. s = [pc |-> pc, job |-> s.job, stale |-> s.stale, todo |-> s.todo, unresolved |-> s.unresolved, got |-> s.got]
      BY <1>1, <3>1 DEF ToolType
    <3>3. s = [s EXCEPT !.pc = pc]
      BY <3>2
    <3>4. QED
      BY <2>1, <3>3, Zenon
  <2>4. /\ s.pc = pc /\ s.job = z.job /\ s.unresolved = z.unresolved /\ s.todo = Tail(z.todo) /\ ToolOK(s)
    <3>1. z \in ToolType /\ AtWork(z) /\ z.pc \in {"get", "got"} /\ s = [Left(z) EXCEPT !.pc = pc]
      BY <1>1, <2>3
    <3>2. pc \in {"get", "done"} /\ (pc = "get" => z.job.kind # "nuke" /\ Len(z.todo) # 1)
      BY <1>1, <1>5, <2>2
    <3>3. pc = "done" /\ z.job.kind = "add" => Len(z.todo) = 1
      BY <2>2
    <3> HIDE DEF ToolOK
    <3>4. QED
      BY <3>1, <3>2, <3>3, LeftIs
  <2>5. tool' = [tool EXCEPT ![t] = s]
    BY <1>1, <1>5, <2>1 DEF Goes
  <2>6. Skips(t, s) /\ Same(t, s)
    BY <1>1, <1>5, <2>2, <2>3, <2>4 DEF Skips, Same, Read
  <2>7. QED
    BY <1>3, <1>5, <2>4, <2>5, <2>6
<1>6. ASSUME UNCHANGED failures, Goes(t, [tool[t] EXCEPT !.got = Read(t), !.pc = "got", !.stale = FALSE]),
             ~(tool[t].job.kind = "add"
               /\ \E e \in Range(Read(t)) : LooseSameAs(t, Head(tool[t].todo), e, Place(t)))
      PROVE  /\ failures' \in 0..load.failures
             /\ \E s : ToolOK(s) /\ Same(t, s) /\ tool' = [tool EXCEPT ![t] = s] /\ Reads(t, s)
  <2>1. PICK l \in Seq(Requests) : l = lists[Place(t)]
    BY <1>2
  <2>2. PICK s : s = [z EXCEPT !.got = l, !.pc = "got", !.stale = FALSE]
    OBVIOUS
  <2>3. /\ s \in ToolType /\ s.pc = "got" /\ s.job = z.job /\ s.todo = z.todo
        /\ s.unresolved = z.unresolved /\ s.got = l /\ s.stale = FALSE
    BY <1>1, <2>2 DEF ToolType
  <2>4. AtWork(s)
    BY <1>1, <2>3 DEF AtWork
  <2>5. tool' = [tool EXCEPT ![t] = s]
    BY <1>1, <1>6, <2>1, <2>2 DEF Goes, Read
  <2>6. Reads(t, s) /\ Same(t, s)
    BY <1>1, <1>6, <2>1, <2>3 DEF Reads, Same, Read
  <2>7. QED
    BY <1>3, <1>6, <2>3, <2>4, <2>5, <2>6 DEF ToolOK
<1>7. QED
  BY <1>1, <1>4, <1>5, <1>6 DEF Get

\* What a tool takes out of a list.
Gone(t) ==
  {e \in Range(tool[t].got) :
     \E i \in DOMAIN tool[t].job.reqs : LooseSameAs(t, tool[t].job.reqs[i], e, Place(t))}

\* What a tool makes of the list it has read.
LEMMA ChangedIs ==
  ASSUME ToolsOK, NEW t \in Tools, tool[t].pc = "got"
  PROVE  /\ Changed(t) \in Seq(Requests)
         /\ tool[t].job.kind = "add" => Changed(t) = Append(tool[t].got, Head(tool[t].todo).is)
         /\ tool[t].job.kind = "rm" =>
              /\ Entries(Changed(t)) = Entries(tool[t].got) \ Gone(t)
              /\ TwinFree(tool[t].got) => TwinFree(Changed(t))
              /\ Gone(t) = {} => Changed(t) = tool[t].got
         /\ tool[t].job.kind = "nuke" => Changed(t) = <<>>
<1>1. PICK z : z = tool[t] /\ z \in ToolType /\ AtWork(z) /\ ToolOK(z) /\ z.got \in Seq(Requests)
  BY DEF ToolsOK, ToolOK, ToolType
<1>2. z.job.kind \in {"add", "rm", "nuke"}
  BY <1>1 DEF AtWork, Wants
<1>3. CASE z.job.kind = "add"
  <2>1. Changed(t) = Append(z.got, Head(z.todo).is)
    BY <1>1, <1>3 DEF Changed
  <2>2. Head(z.todo) \in Wanted
    BY <1>1, <1>3, PlaceIs
  <2>3. QED
    BY <1>1, <1>3, <2>1, <2>2, WantedIs
<1>4. CASE z.job.kind = "rm"
  <2>1. Changed(t) = Without(z.got, Gone(t))
    BY <1>1, <1>4 DEF Changed, Kept, Gone
  <2>2. PICK g, l : g = Gone(t) /\ l = Without(z.got, g)
    OBVIOUS
  <2>3. /\ l \in Seq(Requests) /\ Entries(l) = Entries(z.got) \ g
        /\ TwinFree(z.got) => TwinFree(l)
        /\ g = {} => l = z.got
    BY <1>1, <2>2, WithoutIs
  <2>4. QED
    BY <1>1, <1>4, <2>1, <2>2, <2>3
<1>5. CASE z.job.kind = "nuke"
  <2>1. Changed(t) = <<>>
    BY <1>1, <1>5 DEF Changed
  <2>2. QED
    BY <1>1, <1>5, <2>1
<1>6. QED
  BY <1>2, <1>3, <1>4, <1>5

\* What becomes of the tool that publishes, and of the others.
Published(t, s) ==
  /\ s.pc \in {"get", "done"} /\ s.stale = FALSE /\ s.todo = Tail(tool[t].todo)
  /\ s.pc = "done" => Len(tool[t].todo) = 1 \/ (tool[t].job.kind = "rm" /\ Changed(t) = <<>>)

Aside(o, s, u) ==
  /\ s.pc = tool[o].pc /\ s.job = tool[o].job /\ s.unresolved = tool[o].unresolved
  /\ s.todo = tool[o].todo /\ s.got = tool[o].got
  /\ s.stale = (tool[o].stale \/ (tool[o].pc = "got" /\ Place(o) = u))

\* A tool publishes: its list replaces what is there, and who read that is stale.
LEMMA PublishIs ==
  ASSUME ToolsOK, NEW t \in Tools, Publish(t)
  PROVE  /\ tool[t].pc = "got" /\ Place(t) \in URIs /\ lists' = [lists EXCEPT ![Place(t)] = Changed(t)]
         /\ failures' = failures /\ DOMAIN tool' = Tools
         /\ ToolOK(tool'[t]) /\ Same(t, tool'[t]) /\ Published(t, tool'[t])
         /\ \A o \in Tools \ {t} : ToolOK(tool'[o]) /\ Aside(o, tool'[o], Place(t))
         /\ disturbed' = disturbed \cup
              {o \in Tools \ {t} : tool[o].pc # "new" /\ Place(t) \in Places(tool[o].job)}
<1>1. PICK z : z = tool[t] /\ z \in ToolType /\ AtWork(z) /\ z.pc = "got" /\ ToolOK(z)
  BY DEF ToolsOK, ToolOK, Publish
<1>2. PICK u \in URIs : u = Place(t)
  BY <1>1, PlaceIs
<1>3. tool' = [o \in Tools |->
              IF o = t THEN After(t)
              ELSE IF tool[o].pc = "got" /\ Place(o) = u THEN [tool[o] EXCEPT !.stale = TRUE]
              ELSE tool[o]]
  BY <1>2 DEF Publish
<1>4. PICK s : s = After(t)
  OBVIOUS
<1>5. ToolOK(s) /\ Same(t, s) /\ Published(t, s)
  <2>1. PICK pc \in {"get", "done"} :
                     /\ s = [Left(z) EXCEPT !.pc = pc]
                     /\ pc = "get" => Len(z.todo) # 1
                     /\ pc = "done" => Len(z.todo) = 1 \/ (z.job.kind = "rm" /\ Changed(t) = <<>>)
    <3>1. CASE z.job.kind = "rm" /\ Changed(t) = <<>>
      <4>1. CASE Len(z.todo) = 1
        BY <1>1, <1>4, <3>1, <4>1 DEF After
      <4>2. CASE Len(z.todo) # 1
        BY <1>1, <1>4, <3>1, <4>2 DEF After
      <4>3. QED
        BY <4>1, <4>2
    <3>2. CASE ~(z.job.kind = "rm" /\ Changed(t) = <<>>)
      <4>1. PICK pc : pc = IF Len(z.todo) = 1 THEN "done" ELSE "get"
        OBVIOUS
      <4>2. s = [z EXCEPT !.todo = Tail(z.todo), !.got = <<>>, !.stale = FALSE, !.pc = pc] /\ s = Left(z)
        BY <1>1, <1>4, <3>2, <4>1 DEF Left, After
      <4>3. s = [pc |-> pc, job |-> s.job, stale |-> s.stale, todo |-> s.todo, unresolved |-> s.unresolved, got |-> s.got]
        BY <1>1, <4>2 DEF ToolType
      <4>4. s = [s EXCEPT !.pc = pc]
        BY <4>3
      <4>5. s = [Left(z) EXCEPT !.pc = pc]
        BY <4>2, <4>4, Zenon
      <4>6. QED
        BY <4>1, <4>5
    <3>3. QED
      BY <3>1, <3>2
  <2>2. /\ pc = "get" => z.job.kind # "nuke" /\ Len(z.todo) # 1
        /\ pc = "done" /\ z.job.kind = "add" => Len(z.todo) = 1
    <3>1. z.job.kind = "nuke" => Len(z.todo) = 1
      BY <1>1 DEF AtWork
    <3>2. QED
      BY <2>1, <3>1
  <2>3. /\ s.pc = pc /\ s.job = z.job /\ s.unresolved = z.unresolved
        /\ s.todo = Tail(z.todo) /\ s.stale = FALSE /\ ToolOK(s)
    <3>1. z \in ToolType /\ AtWork(z) /\ z.pc \in {"get", "got"} /\ s = [Left(z) EXCEPT !.pc = pc]
      BY <1>1, <2>1
    <3>2. pc = "get" => z.job.kind # "nuke" /\ Len(z.todo) # 1
      BY <2>2
    <3>3. pc = "done" /\ z.job.kind = "add" => Len(z.todo) = 1
      BY <2>2
    <3> HIDE DEF ToolOK
    <3>4. QED
      BY <3>1, <3>2, <3>3, LeftIs
  <2>4. QED
    BY <1>1, <2>1, <2>3 DEF Same, Published
<1>6. ASSUME NEW o \in Tools \ {t} PROVE ToolOK(tool'[o]) /\ Aside(o, tool'[o], u)
  <2>1. PICK y : y = tool[o] /\ y \in ToolType /\ ToolOK(y)
    BY DEF ToolsOK, ToolOK
  <2>2. CASE y.pc = "got" /\ Place(o) = u
    <3>1. tool'[o] = [y EXCEPT !.stale = TRUE]
      BY <1>3, <2>1, <2>2
    <3>2. PICK x : x = tool'[o]
      OBVIOUS
    <3>3. /\ x \in ToolType /\ x.pc = y.pc /\ x.job = y.job /\ x.unresolved = y.unresolved
          /\ x.todo = y.todo /\ x.got = y.got /\ x.stale = TRUE
      BY <2>1, <3>1, <3>2 DEF ToolType
    <3>4. AtWork(x)
      BY <2>1, <2>2, <3>3 DEF AtWork, ToolOK
    <3>5. QED
      BY <2>1, <2>2, <3>2, <3>3, <3>4 DEF ToolOK, Aside
  <2>3. CASE ~(y.pc = "got" /\ Place(o) = u)
    <3>1. tool'[o] = y /\ y.stale \in BOOLEAN
      BY <1>3, <2>1, <2>3 DEF ToolType
    <3>2. QED
      BY <2>1, <2>3, <3>1 DEF Aside
  <2>4. QED
    BY <2>2, <2>3
<1>7. tool'[t] = s /\ DOMAIN tool' = Tools
  BY <1>3, <1>4
<1>8. lists' = [lists EXCEPT ![u] = Changed(t)] /\ failures' = failures
  BY <1>2 DEF Publish
<1>9. disturbed' = disturbed \cup {o \in Tools \ {t} : tool[o].pc # "new" /\ u \in Places(tool[o].job)}
  BY <1>2 DEF Publish
<1>10. QED
  BY <1>1, <1>2, <1>5, <1>6, <1>7, <1>8, <1>9

\* A tool that cannot publish changes no list.
LEMMA PublishFailsIs ==
  ASSUME ToolsOK, NEW t \in Tools, PublishFails(t)
  PROVE  /\ failures' \in 0..load.failures
         /\ \E s : ToolOK(s) /\ Same(t, s) /\ tool' = [tool EXCEPT ![t] = s] /\ s.pc = "failed"
<1>1. tool[t].pc = "got" /\ load.failures \in Nat /\ failures \in 0..load.failures
  BY LoadsOK DEF ToolsOK, PublishFails
<1>2. PICK s : s = [tool[t] EXCEPT !.pc = "failed"]
  OBVIOUS
<1>3. ToolOK(s) /\ s.pc = "failed" /\ Same(t, s)
  BY <1>1, <1>2, FailsIs
<1>4. tool' = [tool EXCEPT ![t] = s]
  BY <1>2 DEF PublishFails, Goes
<1>5. failures' \in 0..load.failures
  BY <1>1 DEF PublishFails, Fault
<1>6. QED
  BY <1>3, <1>4, <1>5

-----------------------------------------------------------------------------
\* A step of the system is one of these, for the lists and the tools.
LEMMA StepIs ==
  ASSUME ToolsOK, [Next]_vars
  PROVE  /\ load' = load
         /\ \/ \E t \in Tools : \E job \in load.jobs[t] : Start(t, job)
            \/ \E t \in Tools : Get(t)
            \/ \E t \in Tools : PublishFails(t)
            \/ \E t \in Tools : Publish(t)
            \/ /\ UNCHANGED <<lists, tool, disturbed>> /\ failures' \in 0..load.failures
               /\ UNCHANGED dogVars \/ startWatcher \/ (watchers # <<>> /\ Stream)
<1>1. load.failures \in Nat /\ failures \in 0..load.failures
  BY LoadsOK DEF ToolsOK
<1>2. CASE UNCHANGED vars
  BY <1>1, <1>2 DEF vars, reqVars, dogVars
<1>3. ASSUME NEW t \in Tools, Tool(t), UNCHANGED load
      PROVE  \/ \E job \in load.jobs[t] : Start(t, job)
             \/ Get(t) \/ PublishFails(t) \/ Publish(t)
  BY <1>3 DEF Tool
<1>4. ASSUME Delivered
      PROVE  /\ UNCHANGED <<lists, tool, disturbed>> /\ failures' \in 0..load.failures
             /\ UNCHANGED dogVars \/ startWatcher
  BY <1>1, <1>4 DEF Delivered, Fault
<1>5. ASSUME watchers # <<>>, Stream, UNCHANGED <<reqVars, posted>>
      PROVE  UNCHANGED <<lists, tool, disturbed>> /\ failures' \in 0..load.failures
  BY <1>1, <1>5 DEF reqVars
<1>6. QED
  BY <1>2, <1>3, <1>4, <1>5 DEF Next

\* Every step keeps the types.
LEMMA ToolsStep ==
  ASSUME ToolsOK, [Next]_vars
  PROVE  ToolsOK'
<1>1. load' \in Loads /\ load' = load /\ DOMAIN tool = Tools /\ lists \in [URIs -> Seq(Requests)]
  BY StepIs DEF ToolsOK
<1>2. ASSUME NEW t \in Tools, NEW s, ToolOK(s), tool' = [tool EXCEPT ![t] = s],
             failures' \in 0..load.failures, UNCHANGED <<lists, disturbed>>
      PROVE  ToolsOK'
  <2>1. \A o \in Tools : tool'[o] = IF o = t THEN s ELSE tool[o]
    BY <1>1, <1>2
  <2>2. \A o \in Tools : ToolOK(tool'[o])
    BY <1>2, <2>1 DEF ToolsOK
  <2>3. \A o \in Tools : ToolOK(tool[o])'
    BY <2>2 DEF ToolOK
  <2>4. QED
    BY <1>1, <1>2, <2>3 DEF ToolsOK
<1>3. ASSUME NEW t \in Tools, NEW job \in load.jobs[t], Start(t, job) PROVE ToolsOK'
  <2>1. UNCHANGED <<lists, disturbed>>
    BY <1>3 DEF Start
  <2>2. QED
    BY <1>2, <1>3, <2>1, StartIs
<1>4. ASSUME NEW t \in Tools, Get(t) PROVE ToolsOK'
  <2>1. UNCHANGED <<lists, disturbed>>
    BY <1>4 DEF Get
  <2>2. QED
    BY <1>2, <1>4, <2>1, GetIs
<1>5. ASSUME NEW t \in Tools, PublishFails(t) PROVE ToolsOK'
  <2>1. UNCHANGED <<lists, disturbed>>
    BY <1>5 DEF PublishFails
  <2>2. QED
    BY <1>2, <1>5, <2>1, PublishFailsIs
<1>6. ASSUME NEW t \in Tools, Publish(t) PROVE ToolsOK'
  <2>1. Changed(t) \in Seq(Requests)
    BY <1>6, ChangedIs DEF Publish
  <2>2. lists' \in [URIs -> Seq(Requests)]
    BY <1>1, <1>6, <2>1, PublishIs
  <2>3. \A o \in Tools : ToolOK(tool'[o])
    BY <1>6, PublishIs
  <2>4. disturbed' \subseteq Tools /\ DOMAIN tool' = Tools /\ failures' \in 0..load.failures
    BY <1>6, PublishIs DEF ToolsOK
  <2>5. \A o \in Tools : ToolOK(tool[o])'
    BY <2>3 DEF ToolOK
  <2>6. QED
    BY <1>1, <2>2, <2>4, <2>5 DEF ToolsOK
<1>7. ASSUME UNCHANGED <<lists, tool, disturbed>>, failures' \in 0..load.failures PROVE ToolsOK'
  BY <1>1, <1>7 DEF ToolsOK, ToolOK
<1>8. QED
  BY <1>3, <1>4, <1>5, <1>6, <1>7, StepIs

-----------------------------------------------------------------------------
(* No list has a key twice: what a tool has read has none, and does not have *)
(* the key that it is about to add.                                         *)

Resolved == \A t \in Tools : tool[t].unresolved = {}

Lone(s) ==
  s.pc = "got" =>
    /\ TwinFree(s.got)
    /\ s.job.kind = "add" => (\A i \in DOMAIN s.got : s.got[i].key # Head(s.todo).key)

Twins ==
  Resolved => (\A u \in URIs : TwinFree(lists[u])) /\ (\A t \in Tools : Lone(tool[t]))

\* No step makes a twin: a tool adds what was not there when it read, to what it read.
LEMMA TwinsStep ==
  ASSUME ToolsOK, Twins, [Next]_vars
  PROVE  Twins'
<1> USE DEF ToolsOK
<1>1. ASSUME NEW t \in Tools, NEW s, tool' = [tool EXCEPT ![t] = s], UNCHANGED lists,
             s.unresolved = {} => tool[t].unresolved = {},
             Resolved /\ (\A u \in URIs : TwinFree(lists[u])) => Lone(s)
      PROVE  Twins'
  <2>1. \A o \in Tools : tool'[o] = IF o = t THEN s ELSE tool[o]
    BY <1>1
  <2>2. ASSUME Resolved' PROVE Resolved
    BY <1>1, <2>1, <2>2 DEF Resolved
  <2>3. ASSUME Resolved' PROVE (\A u \in URIs : TwinFree(lists'[u])) /\ (\A o \in Tools : Lone(tool'[o]))
    <3>1. (\A u \in URIs : TwinFree(lists[u])) /\ (\A o \in Tools : Lone(tool[o])) /\ Resolved
      BY <2>2, <2>3 DEF Twins
    <3>2. Lone(s)
      BY <1>1, <3>1
    <3>3. QED
      BY <1>1, <2>1, <3>1, <3>2
  <2>4. QED
    BY <2>3 DEF Twins, Lone, TwinFree
<1>2. ASSUME NEW t \in Tools, NEW job \in load.jobs[t], Start(t, job) PROVE Twins'
  <2>1. PICK s : /\ Started(s, job) /\ tool' = [tool EXCEPT ![t] = s]
                 /\ tool[t] = NotStarted /\ UNCHANGED lists
    BY <1>2, StartIs DEF Start
  <2>2. Lone(s) /\ tool[t].unresolved = {}
    BY <2>1 DEF Started, Lone, TwinFree, NotStarted
  <2>3. QED
    BY <1>1, <2>1, <2>2
<1>3. ASSUME NEW t \in Tools, Get(t) PROVE Twins'
  <2>1. PICK s : /\ ToolOK(s) /\ Same(t, s) /\ tool' = [tool EXCEPT ![t] = s]
                 /\ Reads(t, s) \/ Skips(t, s) \/ s.pc = "failed"
    BY <1>3, GetIs
  <2>2. UNCHANGED lists
    BY <1>3 DEF Get
  <2>3. ASSUME Resolved, \A u \in URIs : TwinFree(lists[u]), s.pc = "got" PROVE Lone(s)
    <3>1. Reads(t, s)
      BY <2>1, <2>3 DEF Skips
    <3>2. /\ Place(t) \in URIs
          /\ tool[t].job.kind = "add" => Place(t) = Head(tool[t].todo).at
      BY <1>3, PlaceIs DEF Get
    <3>3. TwinFree(s.got) /\ s.got = lists[Place(t)] /\ s.todo = tool[t].todo
      BY <2>3, <3>1, <3>2 DEF Reads
    <3>4. ASSUME s.job.kind = "add", NEW i \in DOMAIN s.got PROVE s.got[i].key # Head(s.todo).key
      <4>1. s.got[i] \in Range(lists[Place(t)]) /\ tool[t].job.kind = "add"
        BY <2>1, <3>3, <3>4 DEF Range, Same
      <4>2. ~LooseSameAs(t, Head(tool[t].todo), s.got[i], Place(t))
        BY <3>1, <4>1 DEF Reads
      <4>3. Place(t) \notin tool[t].unresolved
        BY <2>3 DEF Resolved
      <4>4. QED
        BY <3>2, <3>3, <4>1, <4>2, <4>3 DEF LooseSameAs
    <3>5. QED
      BY <3>3, <3>4 DEF Lone
  <2>4. Resolved /\ (\A u \in URIs : TwinFree(lists[u])) => Lone(s)
    BY <2>3 DEF Lone
  <2>5. s.unresolved = tool[t].unresolved
    BY <2>1 DEF Same
  <2>6. QED
    BY <1>1, <2>1, <2>2, <2>4, <2>5
<1>4. ASSUME NEW t \in Tools, PublishFails(t) PROVE Twins'
  <2>1. PICK s : Same(t, s) /\ tool' = [tool EXCEPT ![t] = s] /\ s.pc = "failed" /\ UNCHANGED lists
    BY <1>4, PublishFailsIs DEF PublishFails
  <2>2. Lone(s)
    BY <2>1 DEF Lone
  <2>3. QED
    BY <1>1, <2>1, <2>2 DEF Same
<1>5. ASSUME NEW t \in Tools, Publish(t) PROVE Twins'
  <2>1. /\ tool[t].pc = "got" /\ Place(t) \in URIs /\ lists' = [lists EXCEPT ![Place(t)] = Changed(t)]
        /\ Same(t, tool'[t]) /\ Published(t, tool'[t])
        /\ \A o \in Tools \ {t} : Aside(o, tool'[o], Place(t))
    BY <1>5, PublishIs
  <2>2. ASSUME Resolved' PROVE Resolved
    BY <2>1, <2>2 DEF Resolved, Same, Aside
  <2>3. ASSUME Resolved' PROVE (\A u \in URIs : TwinFree(lists'[u])) /\ (\A o \in Tools : Lone(tool'[o]))
    <3>1. (\A u \in URIs : TwinFree(lists[u])) /\ (\A o \in Tools : Lone(tool[o]))
      BY <2>2, <2>3 DEF Twins
    <3>2. PICK z : z = tool[t] /\ TwinFree(z.got) /\ z.got \in Seq(Requests) /\ AtWork(z)
      BY <2>1, <3>1 DEF Lone, ToolOK, ToolType
    <3>3. ASSUME z.job.kind = "add" PROVE TwinFree(Changed(t))
      <4>1. PICK r \in Wanted : r = Head(z.todo)
        BY <2>1, <3>2, <3>3, PlaceIs
      <4>2. PICK g, e : g = z.got /\ e = r.is /\ e \in Requests /\ e.key = r.key
        BY <4>1, WantedIs
      <4>3. g \in Seq(Requests) /\ \A i \in DOMAIN g : g[i].key # e.key
        BY <2>1, <3>1, <3>2, <3>3, <4>1, <4>2 DEF Lone
      <4>4. Changed(t) = Append(g, e)
        BY <2>1, <3>2, <3>3, <4>1, <4>2, ChangedIs
      <4>5. /\ Len(g) \in Nat /\ DOMAIN g = 1..Len(g)
            /\ DOMAIN Append(g, e) = 1..(Len(g) + 1) /\ Append(g, e)[Len(g) + 1] = e
            /\ \A i \in 1..Len(g) : Append(g, e)[i] = g[i]
        BY <4>2, <4>3, Appended
      <4>6. ASSUME NEW i \in 1..(Len(g) + 1), NEW j \in 1..(Len(g) + 1),
                   Append(g, e)[i].key = Append(g, e)[j].key
            PROVE  i = j
        <5>1. CASE i \in 1..Len(g) /\ j \in 1..Len(g)
          BY <3>2, <4>2, <4>5, <4>6, <5>1 DEF TwinFree
        <5>2. CASE i \in 1..Len(g) /\ j = Len(g) + 1
          BY <4>3, <4>5, <4>6, <5>2
        <5>3. CASE i = Len(g) + 1 /\ j \in 1..Len(g)
          BY <4>3, <4>5, <4>6, <5>3
        <5>4. QED
          BY <4>5, <5>1, <5>2, <5>3
      <4>7. QED
        BY <4>4, <4>5, <4>6 DEF TwinFree
    <3>4. ASSUME z.job.kind # "add" PROVE TwinFree(Changed(t))
      <4>1. z.job.kind \in {"rm", "nuke"}
        BY <3>2, <3>4 DEF AtWork, Wants
      <4>2. CASE z.job.kind = "rm"
        BY <2>1, <3>2, <4>2, ChangedIs
      <4>3. ASSUME z.job.kind = "nuke" PROVE TwinFree(Changed(t))
        <5>1. Changed(t) = <<>>
          BY <2>1, <3>2, <4>3, ChangedIs
        <5>2. DOMAIN Changed(t) = {}
          BY <5>1
        <5>3. QED
          BY <5>2 DEF TwinFree
      <4>4. QED
        BY <4>1, <4>2, <4>3
    <3>5. TwinFree(Changed(t))
      BY <3>3, <3>4
    <3>6. \A u \in URIs : TwinFree(lists'[u])
      BY <2>1, <3>1, <3>5
    <3>7. \A o \in Tools : Lone(tool'[o])
      BY <2>1, <3>1 DEF Lone, Aside, Published
    <3>8. QED
      BY <3>6, <3>7
  <2>4. QED
    BY <2>3 DEF Twins, Lone, TwinFree
<1>6. ASSUME UNCHANGED <<lists, tool>> PROVE Twins'
  BY <1>6 DEF Twins, Resolved, Lone, TwinFree
<1>7. QED
  BY <1>2, <1>3, <1>4, <1>5, <1>6, StepIs

-----------------------------------------------------------------------------
(* A tool at whose place nobody published since has read what is there.     *)

PlaceOf(s) == IF s.job.kind = "add" THEN Head(s.todo).at ELSE Head(s.todo)

Seen(s, ls) == s.pc = "got" /\ ~s.stale /\ s.job.kind # "nuke" => s.got = ls[PlaceOf(s)]

Fresh == \A t \in Tools : Seen(tool[t], lists)

\* Who is not stale holds what is there.
LEMMA FreshStep ==
  ASSUME ToolsOK, Fresh, [Next]_vars
  PROVE  Fresh'
<1> USE DEF ToolsOK
<1>1. ASSUME NEW t \in Tools, NEW s, tool' = [tool EXCEPT ![t] = s], UNCHANGED lists, Seen(s, lists)
      PROVE  Fresh'
  <2>1. \A o \in Tools : tool'[o] = IF o = t THEN s ELSE tool[o]
    BY <1>1
  <2>2. \A o \in Tools : Seen(tool'[o], lists')
    BY <1>1, <2>1 DEF Fresh
  <2>3. QED
    BY <2>2 DEF Fresh, Seen, PlaceOf
<1>2. ASSUME NEW t \in Tools, NEW job \in load.jobs[t], Start(t, job) PROVE Fresh'
  <2>1. PICK s : Started(s, job) /\ tool' = [tool EXCEPT ![t] = s] /\ UNCHANGED lists
    BY <1>2, StartIs DEF Start
  <2>2. Seen(s, lists)
    BY <2>1 DEF Started, Seen
  <2>3. QED
    BY <1>1, <2>1, <2>2
<1>3. ASSUME NEW t \in Tools, Get(t) PROVE Fresh'
  <2>1. PICK s : /\ Same(t, s) /\ tool' = [tool EXCEPT ![t] = s]
                 /\ Reads(t, s) \/ Skips(t, s) \/ s.pc = "failed"
    BY <1>3, GetIs
  <2>2. UNCHANGED lists
    BY <1>3 DEF Get
  <2>3. Seen(s, lists)
    BY <2>1 DEF Reads, Skips, Seen, Same, PlaceOf, Place
  <2>4. QED
    BY <1>1, <2>1, <2>2, <2>3
<1>4. ASSUME NEW t \in Tools, PublishFails(t) PROVE Fresh'
  <2>1. PICK s : tool' = [tool EXCEPT ![t] = s] /\ s.pc = "failed" /\ UNCHANGED lists
    BY <1>4, PublishFailsIs DEF PublishFails
  <2>2. Seen(s, lists)
    BY <2>1 DEF Seen
  <2>3. QED
    BY <1>1, <2>1, <2>2
<1>5. ASSUME NEW t \in Tools, Publish(t) PROVE Fresh'
  <2>1. /\ Place(t) \in URIs /\ lists' = [lists EXCEPT ![Place(t)] = Changed(t)]
        /\ Published(t, tool'[t])
        /\ \A o \in Tools \ {t} : Aside(o, tool'[o], Place(t))
    BY <1>5, PublishIs
  <2>2. Seen(tool'[t], lists')
    BY <2>1 DEF Published, Seen
  <2>3. ASSUME NEW o \in Tools \ {t} PROVE Seen(tool'[o], lists')
    <3>1. Aside(o, tool'[o], Place(t)) /\ Seen(tool[o], lists)
      BY <2>1 DEF Fresh
    <3>2. PICK y, x, u : y = tool[o] /\ x = tool'[o] /\ u = Place(t)
      OBVIOUS
    <3>3. ASSUME x.pc = "got", ~x.stale, x.job.kind # "nuke" PROVE x.got = lists'[PlaceOf(x)]
      <4>1. /\ y.pc = "got" /\ ~y.stale /\ y.job.kind # "nuke" /\ x.got = y.got /\ PlaceOf(x) = PlaceOf(y)
            /\ PlaceOf(y) # u
        BY <3>1, <3>2, <3>3 DEF Aside, PlaceOf, Place
      <4>2. lists'[PlaceOf(x)] = lists[PlaceOf(y)]
        BY <2>1, <3>2, <4>1
      <4>3. QED
        BY <3>1, <3>2, <4>1, <4>2 DEF Seen
    <3>4. QED
      BY <3>2, <3>3 DEF Seen
  <2>4. QED
    BY <2>2, <2>3 DEF Fresh, Seen, PlaceOf
<1>6. ASSUME UNCHANGED <<lists, tool>> PROVE Fresh'
  BY <1>6 DEF Fresh, Seen, PlaceOf
<1>7. QED
  BY <1>2, <1>3, <1>4, <1>5, <1>6, StepIs

-----------------------------------------------------------------------------
(* What a tool changes.                                                     *)

\* What a tool publishes that has read what is there.
LEMMA OwnChangeIs ==
  ASSUME ToolsOK, Fresh, NEW t \in Tools, Publish(t), ~tool[t].stale,
         lists'[Place(t)] # lists[Place(t)]
  PROVE  OwnChange(t, Place(t))
<1>1. PICK z, u : z = tool[t] /\ u = Place(t) /\ z.pc = "got" /\ AtWork(z)
  BY DEF Publish, ToolsOK, ToolOK
<1>2. u \in URIs /\ lists'[u] = Changed(t) /\ z.job.kind \in {"add", "rm", "nuke"}
  BY <1>1, PublishIs DEF ToolsOK, AtWork, Wants
<1>3. z.job.kind # "nuke" => z.got = lists[u]
  BY <1>1 DEF Fresh, Seen, PlaceOf, Place
<1>4. z.got \in Seq(Requests)
  BY <1>1 DEF ToolsOK, ToolOK, ToolType
<1>5. CASE z.job.kind = "add"
  <2>1. PICK i \in DOMAIN z.job.reqs : Head(z.todo) = z.job.reqs[i] /\ z.job.reqs[i].at = u /\ z.job.reqs[i] \in Wanted
    BY <1>1, <1>5, PlaceIs DEF ToolsOK
  <2>2. PICK e \in Requests : e = z.job.reqs[i].is
    BY <2>1, WantedIs
  <2>3. Changed(t) = Append(z.got, e)
    BY <1>1, <1>5, <2>1, <2>2, ChangedIs
  <2>4. Entries(Append(z.got, e)) = Entries(z.got) \cup {e}
    BY <1>4, <2>2, Appended DEF Entries
  <2>5. Entries(lists'[u]) = Entries(lists[u]) \cup {e}
    BY <1>2, <1>3, <1>5, <2>3, <2>4
  <2>6. QED
    BY <1>1, <1>5, <2>1, <2>2, <2>5 DEF OwnChange
<1>6. CASE z.job.kind = "rm"
  <2>1. /\ Entries(Changed(t)) = Entries(z.got) \ Gone(t)
        /\ Gone(t) = {} => Changed(t) = z.got
    BY <1>1, <1>6, ChangedIs
  <2>2. u \in z.unresolved => Gone(t) = {}
    BY <1>1 DEF Gone, LooseSameAs
  <2>3. u \notin z.unresolved
    BY <1>1, <1>2, <1>3, <1>6, <2>1, <2>2
  <2>4. Gone(t) = {e \in Entries(lists[u]) :
                     e.key \in {z.job.reqs[i].key : i \in {j \in DOMAIN z.job.reqs : z.job.reqs[j].at = u}}}
    BY <1>1, <1>3, <1>6, <2>3 DEF Gone, LooseSameAs, Entries, Range
  <2>5. Entries(lists'[u]) = Entries(lists[u]) \ Gone(t)
    BY <1>2, <1>3, <1>6, <2>1
  <2>6. QED
    BY <1>1, <1>6, <2>4, <2>5 DEF OwnChange
<1>7. CASE z.job.kind = "nuke"
  BY <1>1, <1>2, <1>7, ChangedIs DEF OwnChange
<1>8. QED
  BY <1>2, <1>5, <1>6, <1>7

\* A list changes by what the tool that publishes it is for.
LEMMA OnlyOwnChangeStep ==
  ASSUME ToolsOK, Fresh, [Next]_vars
  PROVE  \A u \in URIs : lists'[u] # lists[u] =>
           \E t \in Tools : tool'[t] # tool[t] /\ tool[t].pc = "got" /\ (tool[t].stale \/ OwnChange(t, u))
<1> SUFFICES ASSUME NEW u \in URIs, lists'[u] # lists[u]
             PROVE  \E t \in Tools : tool'[t] # tool[t] /\ tool[t].pc = "got"
                                     /\ (tool[t].stale \/ OwnChange(t, u))
  OBVIOUS
<1>1. PICK t \in Tools : Publish(t)
  BY StepIs DEF Start, Get, PublishFails
<1>2. /\ tool[t].pc = "got" /\ lists' = [lists EXCEPT ![Place(t)] = Changed(t)]
      /\ Published(t, tool'[t])
  BY <1>1, PublishIs
<1>3. u = Place(t) /\ tool'[t] # tool[t]
  BY <1>2 DEF Published, ToolsOK
<1>4. ~tool[t].stale => OwnChange(t, u)
  BY <1>1, <1>3, OwnChangeIs
<1>5. QED
  BY <1>2, <1>3, <1>4

-----------------------------------------------------------------------------
(* What a tool that nobody disturbs has done so far.                        *)

There(r, ls) == r.key \in Keys(ls[r.at])

DoneSoFar(s, ls) ==
  /\ s.pc = "got" => ~s.stale
  /\ s.job.kind = "add" => (\A i \in 1..(Len(s.job.reqs) - Len(s.todo)) : There(s.job.reqs[i], ls))
  /\ s.job.kind = "rm" =>
       \/ /\ \A i \in DOMAIN s.job.reqs : s.job.reqs[i].at \notin Range(s.todo) => ~There(s.job.reqs[i], ls)
          /\ s.pc = "done" => s.todo = <<>>
       \/ s.pc = "done" /\ \E u \in Places(s.job) : ls[u] = <<>>
  /\ s.job.kind = "nuke" /\ s.pc = "done" => ls[s.job.uri] = <<>>

Works(s) == s.unresolved = {} /\ s.pc \in {"get", "got", "done"}

Undisturbed == \A t \in Tools \ disturbed : Works(tool[t]) => DoneSoFar(tool[t], lists)

\* What is at a place of a job.
LEMMA PlaceOfRequest ==
  ASSUME NEW job, Wants(job), NEW i \in DOMAIN job.reqs, job.kind # "nuke"
  PROVE  job.reqs[i].at \in Places(job) /\ job.reqs[i].at \in URIs
BY WantedIs DEF Wants, Places

\* One request more is there.
LEMMA OneMore ==
  ASSUME ToolsOK, NEW t \in Tools, tool[t].pc \in {"get", "got"}, tool[t].job.kind = "add",
         NEW s, s.job = tool[t].job, s.todo = Tail(tool[t].todo), NEW ls,
         \A i \in 1..(Len(s.job.reqs) - Len(tool[t].todo)) : There(s.job.reqs[i], ls),
         There(Head(tool[t].todo), ls)
  PROVE  \A i \in 1..(Len(s.job.reqs) - Len(s.todo)) : There(s.job.reqs[i], ls)
<1>1. PICK z, q, r : z = tool[t] /\ q = z.todo /\ r = s.job.reqs
  OBVIOUS
<1>2. ToolOK(z) /\ AtWork(z) /\ z.pc \in {"get", "got"} /\ z.job.kind = "add"
  BY <1>1, PlaceIs DEF ToolsOK
<1>3. q \in Seq(Wanted) /\ r \in Seq(Wanted) /\ q # <<>>
  BY <1>1, <1>2 DEF AtWork, Wants
<1>4. Len(q) \in Nat \ {0} /\ Len(Tail(q)) = Len(q) - 1 /\ Len(r) \in Nat
  BY <1>3, Tails
<1>5. Head(q) = r[Len(r) - Len(q) + 1]
  BY <1>1, <1>2, PlaceIs
<1>6. \A i \in 1..(Len(r) - Len(q)) : There(r[i], ls)
  BY <1>1
<1>7. There(Head(q), ls)
  BY <1>1
<1>8. ASSUME NEW i \in 1..(Len(r) - Len(Tail(q))) PROVE There(r[i], ls)
  <2>1. i \in 1..(Len(r) - Len(q)) \/ i = Len(r) - Len(q) + 1
    <3>1. PICK m, n : m = Len(q) /\ n = Len(r) /\ m \in Nat /\ n \in Nat /\ Len(Tail(q)) = m - 1
      BY <1>4
    <3>2. i \in 1..(n - (m - 1))
      BY <3>1
    <3>3. QED
      BY <3>1, <3>2
  <2>2. QED
    BY <1>5, <1>6, <1>7, <2>1
<1>9. QED
  BY <1>1, <1>8

\* A tool that nobody disturbs publishes, and has done one place more.
LEMMA UndisturbedPublish ==
  ASSUME ToolsOK, Fresh, Undisturbed, NEW t \in Tools \ disturbed, Publish(t), Works(tool'[t])
  PROVE  DoneSoFar(tool'[t], lists')
<1>1. PICK z, s, u : z = tool[t] /\ s = tool'[t] /\ u = Place(t)
  OBVIOUS
<1>2. /\ z.pc = "got" /\ u \in URIs /\ u \in Places(z.job) /\ lists' = [lists EXCEPT ![u] = Changed(t)]
      /\ AtWork(z) /\ ToolOK(z) /\ s.job = z.job /\ s.unresolved = z.unresolved
      /\ s.pc \in {"get", "done"} /\ s.todo = Tail(z.todo)
      /\ s.pc = "done" => Len(z.todo) = 1 \/ (z.job.kind = "rm" /\ Changed(t) = <<>>)
  BY <1>1, PublishIs, PlaceIs DEF ToolsOK, Same, Published
<1>3. z.unresolved = {} /\ DoneSoFar(z, lists)
  BY <1>1, <1>2 DEF Undisturbed, Works
<1>4. z.job.kind # "nuke" => z.got = lists[u]
  BY <1>1, <1>2, <1>3 DEF Fresh, Seen, DoneSoFar, PlaceOf, Place
<1>5. z.got \in Seq(Requests) /\ DOMAIN lists = URIs /\ Wants(z.job)
  BY <1>2 DEF ToolsOK, ToolOK, ToolType, AtWork
<1>6. CASE z.job.kind = "add"
  <2>1. PICK r \in Wanted : r = Head(z.todo) /\ r.at = u /\ r.is \in Requests /\ r.is.key = r.key
    BY <1>1, <1>2, <1>6, PlaceIs, WantedIs
  <2>2. lists'[u] = Append(z.got, r.is)
    BY <1>1, <1>2, <1>5, <1>6, <2>1, ChangedIs
  <2>3. Keys(lists'[u]) = Keys(lists[u]) \cup {r.key}
    <3>1. PICK g, e : g = z.got /\ e = r.is /\ e \in Requests
      BY <2>1
    <3>2. Entries(Append(g, e)) = Entries(g) \cup {e}
      BY <1>5, <3>1, Appended DEF Entries
    <3>3. QED
      BY <1>4, <1>6, <2>1, <2>2, <3>1, <3>2 DEF Keys
  <2>4. \A x : There(x, lists) /\ x.at \in URIs => There(x, lists')
    BY <1>2, <1>5, <2>3 DEF There
  <2>5. There(r, lists')
    BY <2>1, <2>3 DEF There
  <2>6. ASSUME NEW i \in 1..(Len(s.job.reqs) - Len(z.todo)) PROVE There(s.job.reqs[i], lists')
    <3>1. PICK q, rs : q = z.todo /\ rs = z.job.reqs
      OBVIOUS
    <3>2. q \in Seq(Wanted) /\ rs \in Seq(Wanted)
      BY <1>2, <1>6, <3>1 DEF AtWork, Wants
    <3>3. i \in DOMAIN rs
      BY <1>2, <3>1, <3>2
    <3>4. There(rs[i], lists)
      BY <1>2, <1>3, <1>6, <3>1 DEF DoneSoFar
    <3>5. rs[i].at \in URIs
      BY <3>2, <3>3, WantedIs
    <3>6. QED
      BY <1>2, <2>4, <3>1, <3>4, <3>5
  <2>7. \A i \in 1..(Len(s.job.reqs) - Len(s.todo)) : There(s.job.reqs[i], lists')
    BY <1>1, <1>2, <1>6, <2>1, <2>5, <2>6, OneMore
  <2>8. QED
    BY <1>1, <1>2, <1>6, <2>7 DEF DoneSoFar
<1>7. CASE z.job.kind = "rm"
  <2>1. PICK q : q = z.todo /\ q \in Seq(Places(z.job)) /\ q # <<>>
    BY <1>2, <1>7 DEF AtWork
  <2>2. /\ Head(q) = q[1] /\ DOMAIN q = 1..Len(q) /\ Len(q) \in Nat \ {0}
        /\ DOMAIN Tail(q) = 1..(Len(q) - 1) /\ \A i \in 1..(Len(q) - 1) : Tail(q)[i] = q[i + 1]
        /\ Tail(q) = <<>> <=> Len(q) = 1
    BY <2>1, Tails
  <2>3. u = Head(q)
    BY <1>1, <1>2, <1>7, <2>1, PlaceIs
  <2>4. ASSUME NEW x, x \in Range(q) PROVE x = u \/ x \in Range(Tail(q))
    <3>1. PICK j \in 1..Len(q) : x = q[j]
      BY <2>2, <2>4 DEF Range
    <3>2. CASE j = 1
      BY <2>2, <2>3, <3>1, <3>2
    <3>3. CASE j # 1
      <4>1. j - 1 \in DOMAIN Tail(q) /\ Tail(q)[j - 1] = q[(j - 1) + 1] /\ (j - 1) + 1 = j
        BY <2>2, <3>1, <3>3
      <4>2. QED
        BY <3>1, <4>1 DEF Range
    <3>4. QED
      BY <3>2, <3>3
  <2>5. /\ Entries(lists'[u]) = Entries(lists[u]) \ Gone(t) /\ lists'[u] = Changed(t)
    BY <1>1, <1>2, <1>4, <1>5, <1>7, ChangedIs
  <2>6. ASSUME NEW i \in DOMAIN z.job.reqs, z.job.reqs[i].at \notin Range(Tail(q))
        PROVE  ~There(z.job.reqs[i], lists')
    <3>1. z.job.reqs[i].at \in URIs
      BY <1>5, <1>7, PlaceOfRequest
    <3>2. CASE z.job.reqs[i].at = u
      <4>1. \A e \in Entries(lists[u]) : e.key = z.job.reqs[i].key => e \in Gone(t)
        BY <1>1, <1>3, <1>4, <1>7, <3>2 DEF Gone, LooseSameAs, Entries, Range
      <4>2. QED
        BY <2>5, <3>2, <4>1 DEF There, Keys
    <3>3. CASE z.job.reqs[i].at # u
      <4>1. z.job.reqs[i].at \notin Range(q)
        BY <2>4, <2>6, <3>3
      <4>2. ~There(z.job.reqs[i], lists)
        BY <1>2, <1>3, <1>7, <2>1, <4>1 DEF DoneSoFar
      <4>3. lists'[z.job.reqs[i].at] = lists[z.job.reqs[i].at]
        BY <1>2, <1>5, <3>1, <3>3
      <4>4. QED
        BY <4>2, <4>3 DEF There
    <3>4. QED
      BY <3>2, <3>3
  <2>7. s.pc = "done" => Tail(q) = <<>> \/ lists'[u] = <<>>
    BY <1>2, <2>1, <2>2, <2>5
  <2>8. QED
    BY <1>1, <1>2, <1>7, <2>1, <2>6, <2>7 DEF DoneSoFar
<1>8. CASE z.job.kind = "nuke"
  <2>1. u = z.job.uri /\ Changed(t) = <<>>
    <3>1. Places(z.job) = {z.job.uri}
      BY <1>8 DEF Places
    <3>2. QED
      BY <1>1, <1>2, <1>8, <3>1, ChangedIs
  <2>2. lists'[z.job.uri] = <<>>
    BY <1>2, <1>5, <2>1
  <2>3. QED
    BY <1>1, <1>2, <1>8, <2>2 DEF DoneSoFar
<1>9. QED
  BY <1>5, <1>6, <1>7, <1>8 DEF Wants

\* What a tool has done that nobody disturbs stays done.
LEMMA UndisturbedStep ==
  ASSUME ToolsOK, Fresh, Undisturbed, [Next]_vars
  PROVE  Undisturbed'
<1> USE DEF ToolsOK
<1>1. ASSUME NEW t \in Tools, NEW s, tool' = [tool EXCEPT ![t] = s], UNCHANGED <<lists, disturbed>>,
             Works(s) /\ t \notin disturbed => DoneSoFar(s, lists)
      PROVE  Undisturbed'
  <2>1. \A o \in Tools : tool'[o] = IF o = t THEN s ELSE tool[o]
    BY <1>1
  <2>2. \A o \in Tools \ disturbed : Works(tool'[o]) => DoneSoFar(tool'[o], lists)
    BY <1>1, <2>1 DEF Undisturbed
  <2>3. \A o \in Tools \ disturbed' : Works(tool'[o]) => DoneSoFar(tool'[o], lists')
    BY <1>1, <2>2
  <2>4. QED
    BY <2>3 DEF Undisturbed, Works, DoneSoFar, There, Keys, Entries, Places, Range
<1>2. ASSUME NEW t \in Tools, NEW job \in load.jobs[t], Start(t, job) PROVE Undisturbed'
  <2>1. PICK s : ToolOK(s) /\ Started(s, job) /\ tool' = [tool EXCEPT ![t] = s]
    BY <1>2, StartIs
  <2>2. UNCHANGED <<lists, disturbed>>
    BY <1>2 DEF Start
  <2>3. AtWork(s) /\ Wants(job)
    BY <2>1 DEF Started, ToolOK, AtWork
  <2>4. job.kind = "add" => 1..(Len(s.job.reqs) - Len(s.todo)) = {}
    <3>1. ASSUME NEW r, r \in Seq(Wanted) PROVE 1..(Len(r) - Len(r)) = {}
      BY <3>1
    <3>2. job.kind = "add" => s.job.reqs \in Seq(Wanted) /\ s.todo = s.job.reqs
      BY <2>1, <2>3 DEF Started, Wants
    <3>3. QED
      BY <3>1, <3>2
  <2>5. job.kind = "rm" => \A i \in DOMAIN job.reqs : job.reqs[i].at \in Range(s.todo)
    BY <2>1, <2>3, PlaceOfRequest DEF Started
  <2>6. DoneSoFar(s, lists)
    BY <2>1, <2>4, <2>5 DEF DoneSoFar, Started
  <2>7. QED
    BY <1>1, <2>1, <2>2, <2>6
<1>3. ASSUME NEW t \in Tools, Get(t) PROVE Undisturbed'
  <2>1. PICK s : /\ ToolOK(s) /\ Same(t, s) /\ tool' = [tool EXCEPT ![t] = s]
                 /\ Reads(t, s) \/ Skips(t, s) \/ s.pc = "failed"
    BY <1>3, GetIs
  <2>2. UNCHANGED <<lists, disturbed>>
    BY <1>3 DEF Get
  <2>3. ASSUME Works(s), t \notin disturbed PROVE DoneSoFar(s, lists)
    <3>1. PICK z : z = tool[t] /\ z.pc = "get" /\ DoneSoFar(z, lists) /\ s.job = z.job /\ z.unresolved = {}
      BY <1>3, <2>1, <2>3 DEF Undisturbed, Works, Same, Get
    <3>2. CASE Reads(t, s)
      <4>1. s.pc = "got" /\ s.stale = FALSE /\ s.todo = z.todo
        BY <3>1, <3>2 DEF Reads
      <4>2. QED
        BY <3>1, <4>1 DEF DoneSoFar
    <3>3. CASE Skips(t, s)
      <4>1. s.todo = Tail(z.todo) /\ z.job.kind = "add" /\ s.pc \in {"get", "done"}
        BY <3>1, <3>3 DEF Skips
      <4>2. PICK e \in Range(lists[Place(t)]) : e.key = Head(z.todo).key
        BY <3>1, <3>3 DEF Skips, LooseSameAs
      <4>3. Place(t) = Head(z.todo).at
        BY <3>1, <4>1 DEF Place
      <4>4. There(Head(z.todo), lists)
        BY <4>2, <4>3 DEF There, Keys, Entries, Range
      <4>5. \A i \in 1..(Len(s.job.reqs) - Len(z.todo)) : There(s.job.reqs[i], lists)
        BY <3>1, <4>1 DEF DoneSoFar
      <4>6. \A i \in 1..(Len(s.job.reqs) - Len(s.todo)) : There(s.job.reqs[i], lists)
        BY <3>1, <4>1, <4>4, <4>5, OneMore
      <4>7. QED
        BY <3>1, <4>1, <4>6 DEF DoneSoFar
    <3>4. QED
      BY <2>1, <2>3, <3>2, <3>3 DEF Works
  <2>4. QED
    BY <1>1, <2>1, <2>2, <2>3
<1>4. ASSUME NEW t \in Tools, PublishFails(t) PROVE Undisturbed'
  <2>1. PICK s : tool' = [tool EXCEPT ![t] = s] /\ s.pc = "failed" /\ UNCHANGED <<lists, disturbed>>
    BY <1>4, PublishFailsIs DEF PublishFails
  <2>2. ~Works(s)
    BY <2>1 DEF Works
  <2>3. QED
    BY <1>1, <2>1, <2>2
<1>5. ASSUME NEW t \in Tools, Publish(t) PROVE Undisturbed'
  <2>1. /\ Place(t) \in URIs /\ lists' = [lists EXCEPT ![Place(t)] = Changed(t)]
        /\ \A o \in Tools \ {t} : ToolOK(tool'[o]) /\ Aside(o, tool'[o], Place(t))
        /\ disturbed' = disturbed \cup
             {o \in Tools \ {t} : tool[o].pc # "new" /\ Place(t) \in Places(tool[o].job)}
    BY <1>5, PublishIs
  <2>2. ASSUME t \notin disturbed', Works(tool'[t]) PROVE DoneSoFar(tool'[t], lists')
    <3>1. t \in Tools \ disturbed
      BY <2>1, <2>2
    <3>2. QED
      BY <1>5, <2>2, <3>1, UndisturbedPublish
  <2>3. ASSUME NEW o \in Tools \ {t}, o \notin disturbed', Works(tool'[o]) PROVE DoneSoFar(tool'[o], lists')
    <3>1. PICK y, x, u : y = tool[o] /\ x = tool'[o] /\ u = Place(t)
      OBVIOUS
    <3>2. /\ o \notin disturbed /\ u \notin Places(y.job) /\ ToolOK(y) /\ AtWork(y)
          /\ x.pc = y.pc /\ x.job = y.job /\ x.unresolved = y.unresolved /\ x.todo = y.todo
          /\ x.stale = (y.stale \/ (y.pc = "got" /\ Place(o) = u))
      BY <2>1, <2>3, <3>1 DEF Aside, Works, ToolOK
    <3>3. DoneSoFar(y, lists)
      BY <2>3, <3>1, <3>2 DEF Undisturbed, Works
    <3>4. y.pc = "got" => Place(o) \in Places(y.job)
      BY <3>1, <3>2, PlaceIs
    <3>5. x.pc = "got" => ~x.stale
      BY <3>2, <3>3, <3>4 DEF DoneSoFar
    <3>6. Wants(y.job) /\ Places(y.job) \subseteq URIs
      BY <3>2, PlacesOK DEF AtWork
    <3>7. \A v \in Places(y.job) : lists'[v] = lists[v]
      BY <2>1, <3>1, <3>2, <3>6
    <3>8. y.job.kind # "nuke" =>
            \A i \in DOMAIN y.job.reqs : There(y.job.reqs[i], lists') <=> There(y.job.reqs[i], lists)
      BY <3>6, <3>7, PlaceOfRequest DEF There
    <3>9. y.job.kind = "nuke" => y.job.uri \in Places(y.job)
      BY DEF Places
    <3>10. ASSUME y.job.kind = "add", NEW i \in 1..(Len(y.job.reqs) - Len(y.todo))
           PROVE  There(y.job.reqs[i], lists')
      <4>1. PICK q, r : q = y.todo /\ r = y.job.reqs
        OBVIOUS
      <4>2. q \in Seq(Wanted) /\ r \in Seq(Wanted)
        BY <3>2, <3>10, <4>1 DEF AtWork, Wants
      <4>3. i \in DOMAIN r
        BY <3>10, <4>1, <4>2
      <4>4. There(r[i], lists)
        BY <3>3, <3>10, <4>1 DEF DoneSoFar
      <4>5. QED
        BY <3>8, <3>10, <4>1, <4>3, <4>4
    <3>11. DoneSoFar(x, lists')
      BY <3>2, <3>3, <3>5, <3>7, <3>8, <3>9, <3>10 DEF DoneSoFar
    <3>12. QED
      BY <3>1, <3>11
  <2>4. \A o \in Tools \ disturbed' : Works(tool'[o]) => DoneSoFar(tool'[o], lists')
    BY <2>2, <2>3
  <2>5. QED
    BY <2>4 DEF Undisturbed, Works, DoneSoFar, There, Keys, Entries, Places, Range
<1>6. ASSUME UNCHANGED <<lists, tool, disturbed>> PROVE Undisturbed'
  <2>1. \A o \in Tools \ disturbed' : Works(tool'[o]) => DoneSoFar(tool'[o], lists')
    BY <1>6 DEF Undisturbed
  <2>2. QED
    BY <2>1 DEF Undisturbed, Works, DoneSoFar, There, Keys, Entries, Places, Range
<1>7. QED
  BY <1>2, <1>3, <1>4, <1>5, <1>6, StepIs

-----------------------------------------------------------------------------
(* The watchdog.  What the windows of watchers have in them.                *)

\* m intervals of at most l are d long at most.
Within(d, m, l) == d \in Int /\ m \in Nat /\ l \in Nat /\ 0 <= d /\ d <= m * l

\* One interval more.
LEMMA WithinOne ==
  ASSUME NEW d, NEW m, NEW l, Within(d, m, l), NEW e \in 0..l
  PROVE  Within(d + e, m + 1, l)
<1>1. (m + 1) * l = m * l + l /\ m * l \in Int
  BY DEF Within
<1>2. QED
  BY <1>1 DEF Within

\* Longer intervals.
LEMMA WithinMore ==
  ASSUME NEW d, NEW m, NEW l, Within(d, m, l), NEW e \in Nat, l <= e
  PROVE  Within(d, m, e)
<1>1. m * e = m * l + m * (e - l) /\ m * l \in Nat /\ m * (e - l) \in Nat /\ m * e \in Nat
  BY DEF Within
<1>2. QED
  BY <1>1 DEF Within

\* The average of intervals of at most l is at most l.
LEMMA WithinAverage ==
  ASSUME NEW d, NEW m, NEW l, Within(d, m, l), m > 0
  PROVE  d \div m \in Nat /\ d \div m <= l
<1>1. PICK a, r : a = d \div m /\ r = d % m
  OBVIOUS
<1>2. a \in Int /\ r \in 0..(m - 1) /\ d = m * a + r
  BY <1>1 DEF Within
<1>3. a >= 0
  <2>1. ASSUME a < 0 PROVE FALSE
    <3>1. m * a <= m * (-1)
      BY <1>2, <2>1 DEF Within
    <3>2. QED
      BY <1>2, <3>1 DEF Within
  <2>2. QED
    BY <1>2, <2>1
<1>4. a <= l
  <2>1. ASSUME a > l PROVE FALSE
    <3>1. m * a = m * l + m * (a - l) /\ m * (a - l) >= m
      BY <1>2, <2>1 DEF Within
    <3>2. QED
      BY <1>2, <3>1 DEF Within
  <2>2. QED
    BY <1>2, <2>1 DEF Within
<1>5. QED
  BY <1>1, <1>2, <1>3, <1>4

\* What is in the ring is what was in it, without the oldest if it was full, and the time.
LEMMA ReportedIs ==
  ASSUME now \in Nat, NEW window \in Seq(Nat), Len(window) <= Window
  PROVE  \E r, d : /\ r = Reported(window) /\ r \in Seq(Nat) /\ Len(r) \in 1..Window /\ DOMAIN r = 1..Len(r)
                   /\ d = (IF Len(window) = Window THEN 1 ELSE 0) /\ Len(r) - 1 = Len(window) - d
                   /\ r[Len(r)] = now
                   /\ \A i \in 1..(Len(r) - 1) : r[i] = window[i + d] /\ i + d \in DOMAIN window
<1>0. Window \in Nat /\ Window > 2
  BY WatchdogAssumption
<1>1. CASE Len(window) = Window
  <2>1. window # <<>>
    BY <1>0, <1>1
  <2>a. PICK q : q = Tail(window)
    OBVIOUS
  <2>2. /\ q = Tail(window) /\ q \in Seq(Nat) /\ Len(q) = Window - 1 /\ DOMAIN window = 1..Window
        /\ \A i \in 1..(Window - 1) : q[i] = window[i + 1] /\ i + 1 \in DOMAIN window
    BY <1>1, <2>1, <2>a, Tails
  <2>3. PICK r : r = Append(q, now) /\ r = Reported(window)
    BY <1>1, <2>2 DEF Reported
  <2>4. /\ r \in Seq(Nat) /\ Len(r) = Window /\ DOMAIN r = 1..Window /\ r[Window] = now
        /\ \A i \in 1..(Window - 1) : r[i] = q[i]
    <3>1. /\ Append(q, now) \in Seq(Nat) /\ Len(Append(q, now)) = Len(q) + 1
          /\ DOMAIN Append(q, now) = 1..(Len(q) + 1) /\ Append(q, now)[Len(q) + 1] = now
          /\ \A i \in 1..Len(q) : Append(q, now)[i] = q[i]
      BY <2>2, Appended
    <3>2. Len(q) + 1 = Window
      BY <1>0, <2>2
    <3>3. QED
      BY <2>2, <2>3, <3>1, <3>2
  <2>5. \A i \in 1..(Len(r) - 1) : r[i] = window[i + 1] /\ i + 1 \in DOMAIN window
    BY <1>0, <2>2, <2>4
  <2>6. r[Len(r)] = now /\ Len(r) - 1 = Len(window) - 1 /\ Len(r) \in 1..Window
    BY <1>0, <1>1, <2>4
  <2>7. QED
    BY <1>1, <2>3, <2>4, <2>5, <2>6
<1>2. CASE Len(window) # Window
  <2>1. PICK r : r = Append(window, now) /\ r = Reported(window)
    BY <1>2 DEF Reported
  <2>2. /\ r \in Seq(Nat) /\ Len(window) \in Nat /\ DOMAIN window = 1..Len(window)
        /\ Len(r) = Len(window) + 1 /\ DOMAIN r = 1..(Len(window) + 1) /\ r[Len(window) + 1] = now
        /\ \A i \in 1..Len(window) : r[i] = window[i]
    <3>1. /\ Append(window, now) \in Seq(Nat) /\ Len(window) \in Nat /\ DOMAIN window = 1..Len(window)
          /\ Len(Append(window, now)) = Len(window) + 1
          /\ DOMAIN Append(window, now) = 1..(Len(window) + 1) /\ Append(window, now)[Len(window) + 1] = now
          /\ \A i \in 1..Len(window) : Append(window, now)[i] = window[i]
      BY Appended
    <3>2. QED
      BY <2>1, <3>1
  <2>3. \A i \in 1..(Len(r) - 1) : r[i] = window[i + 0] /\ i + 0 \in DOMAIN window
    BY <2>2
  <2>4. r[Len(r)] = now /\ Len(r) - 1 = Len(window) - 0 /\ Len(r) \in 1..Window
    <3>1. PICK m : m = Len(window) /\ m \in Nat /\ m <= Window /\ m # Window /\ Len(r) = m + 1 /\ r[m + 1] = now
      BY <1>2, <2>2
    <3>2. m - 0 = m /\ (m + 1) - 1 = m /\ m + 1 \in 1..Window
      BY <1>0, <3>1
    <3>3. QED
      BY <3>1, <3>2
  <2>5. QED
    BY <1>2, <2>1, <2>2, <2>3, <2>4
<1>3. QED
  BY <1>1, <1>2

\* How a watcher stands at time n, when h has been heard: times in its window are no more
\* than the longest interval apart, the last that it handled is the last that came.
WatcherType == [window : Seq(Nat), todo : Seq(BOOLEAN)]

Latest(w) == w.window[Len(w.window)]

Fits(w, h, n) ==
  /\ Len(w.window) <= Window /\ Len(w.window) + Len(w.todo) <= h.count
  /\ \A k \in DOMAIN w.window : \A i \in 1..k : Within(w.window[k] - w.window[i], k - i, h.longest)
  /\ w.todo # <<>> => h.last = n
  /\ w.window # <<>> => /\ Latest(w) <= n
                        /\ w.todo = <<>> => Latest(w) = h.last
                        /\ w.todo # <<>> => n - Latest(w) <= h.longest

HeardType == [count : Nat, last : Nat, longest : Nat, regular : BOOLEAN]

DogType ==
  /\ now \in Nat \ {0} /\ kicked \in 0..now /\ quiet \in Nat
  /\ begun \in Seq(1..now) /\ watchers \in Seq(WatcherType) /\ Len(begun) = Len(watchers)
  /\ heard \in HeardType /\ heard.longest >= MinInterval /\ heard.last <= now
  /\ watchers = <<>> => heard.count = 0 /\ quiet = 0 /\ kicked = 0
  /\ watchers # <<>> => quiet > 0
  /\ kicked > 0 => heard.count >= 3

\* The dog is quiet no longer than the last watcher or the last message lets it be.
Soon ==
  watchers # <<>> =>
    \/ quiet <= Last(begun) + Grace
    \/ heard.count > 0 /\ quiet <= heard.last + 2 * heard.longest

DogOK == DogType /\ Soon /\ \A i \in DOMAIN watchers : Fits(watchers[i], heard, now)

\* What is in the window of a watcher when it has handled a message.
LEMMA FitsHandled ==
  ASSUME now \in Nat, NEW w \in WatcherType, NEW h \in HeardType, Fits(w, h, now), w.todo # <<>>,
         NEW v, v = [window |-> Reported(w.window), todo |-> Tail(w.todo)]
  PROVE  /\ v \in WatcherType /\ Fits(v, h, now) /\ v.window # <<>> /\ Latest(v) = now
         /\ Len(v.window) \in 1..Window
         /\ Len(v.window) = (IF Len(w.window) = Window THEN Window ELSE Len(w.window) + 1)
         /\ Len(w.todo) \in Nat \ {0} /\ Len(v.todo) = Len(w.todo) - 1
<1>1. PICK q, todo : q = w.window /\ todo = w.todo /\ q \in Seq(Nat) /\ todo \in Seq(BOOLEAN) /\ Len(q) <= Window
  BY DEF WatcherType, Fits
<1>2. PICK r, d : /\ r = Reported(q) /\ r \in Seq(Nat) /\ Len(r) \in 1..Window /\ DOMAIN r = 1..Len(r)
                  /\ d = (IF Len(q) = Window THEN 1 ELSE 0) /\ Len(r) - 1 = Len(q) - d
                  /\ r[Len(r)] = now
                  /\ \A i \in 1..(Len(r) - 1) : r[i] = q[i + d] /\ i + d \in DOMAIN q
  BY <1>1, ReportedIs
<1>3. PICK n, m, l : n = Len(r) /\ m = Len(q) /\ l = h.longest
  OBVIOUS
<1>4. n \in Nat /\ n > 0 /\ m \in Nat /\ d \in 0..1 /\ n - 1 = m - d /\ DOMAIN q = 1..m /\ l \in Nat
  BY <1>1, <1>2, <1>3 DEF HeardType
<1>5. /\ Tail(todo) \in Seq(BOOLEAN) /\ Len(todo) \in Nat \ {0} /\ Len(Tail(todo)) = Len(todo) - 1
  BY <1>1, Tails
<1>6. v.window = r /\ v.todo = Tail(todo) /\ v \in WatcherType
  BY <1>1, <1>2, <1>5 DEF WatcherType
<1>7. \A k \in 1..m : \A i \in 1..k : Within(q[k] - q[i], k - i, l)
  BY <1>1, <1>3, <1>4 DEF Fits
<1>8. m > 0 => q[m] \in Nat /\ q[m] <= now /\ now - q[m] <= l
  <2>1. m > 0 => q # <<>> /\ q[m] \in Nat
    BY <1>1, <1>3, <1>4
  <2>2. QED
    BY <1>1, <1>3, <2>1 DEF Fits, Latest
<1>9. ASSUME NEW k \in 1..n, NEW i \in 1..k PROVE Within(r[k] - r[i], k - i, l)
  <2>1. CASE k < n
    <3>1. /\ r[k] = q[k + d] /\ r[i] = q[i + d] /\ k + d \in 1..m /\ i + d \in 1..(k + d)
          /\ (k + d) - (i + d) = k - i
      BY <1>2, <1>3, <1>4, <2>1, SMTT(30)
    <3>2. Within(q[k + d] - q[i + d], (k + d) - (i + d), l)
      BY <1>7, <3>1
    <3>3. QED
      BY <3>1, <3>2
  <2>2. CASE k = n /\ i = n
    <3>1. r[n] - r[n] = 0 /\ n - n = 0 /\ 0 * l = 0
      BY <1>2, <1>3, <1>4
    <3>2. QED
      BY <1>4, <2>2, <3>1, SMTT(30) DEF Within
  <2>3. CASE k = n /\ i < n
    <3>1. m > 0 /\ i + d \in 1..m /\ r[i] = q[i + d] /\ r[k] = now
      BY <1>2, <1>3, <1>4, <2>3
    <3>2. Within(q[m] - q[i + d], m - (i + d), l)
      <4>1. m \in 1..m
        BY <1>4, <3>1
      <4>2. QED
        BY <1>7, <3>1, <4>1
    <3>3. now - q[m] \in 0..l /\ q[m] \in Nat
      BY <1>8, <3>1
    <3>4. Within((q[m] - q[i + d]) + (now - q[m]), (m - (i + d)) + 1, l)
      BY <3>2, <3>3, WithinOne
    <3>5. q[i + d] \in Nat
      BY <1>1, <1>4, <3>1
    <3>6. (q[m] - q[i + d]) + (now - q[m]) = r[k] - r[i] /\ (m - (i + d)) + 1 = k - i
      BY <1>4, <2>3, <3>1, <3>3, <3>5
    <3>7. QED
      BY <3>4, <3>6
  <2>4. QED
    BY <1>4, <2>1, <2>2, <2>3
<1>10. r # <<>> /\ r[n] = now /\ h.last = now
  BY <1>1, <1>2, <1>3, <1>4 DEF Fits
<1>11. n + Len(Tail(todo)) <= h.count
  <2>1. m + Len(todo) <= h.count /\ h.count \in Nat
    BY <1>1, <1>3 DEF Fits, HeardType
  <2>2. QED
    BY <1>4, <1>5, <2>1
<1>12. Fits(v, h, now)
  <2>1. Latest(v) = now /\ now - now = 0
    BY <1>3, <1>6, <1>10 DEF Latest
  <2>2. Len(v.window) <= Window /\ Len(v.window) + Len(v.todo) <= h.count
    <3>0. Window \in Nat
      BY WatchdogAssumption
    <3>1. n <= Window
      BY <1>2, <1>3, <3>0
    <3>a. Len(v.window) = n /\ Len(v.todo) = Len(Tail(todo))
      BY <1>3, <1>6
    <3>2. QED
      BY <1>11, <3>1, <3>a
  <2>3. \A k \in DOMAIN v.window : \A i \in 1..k : Within(v.window[k] - v.window[i], k - i, h.longest)
    BY <1>2, <1>3, <1>6, <1>9
  <2>4. v.window # <<>> /\ h.last = now /\ now <= now /\ now - Latest(v) <= h.longest
    BY <1>3, <1>4, <1>6, <1>10, <2>1
  <2>5. QED
    BY <1>10, <2>1, <2>2, <2>3, <2>4 DEF Fits
<1>13. n = (IF m = Window THEN Window ELSE m + 1)
  <2>1. d = (IF m = Window THEN 1 ELSE 0)
    BY <1>2, <1>3
  <2>2. QED
    BY <1>4, <2>1
<1>14. QED
  BY <1>1, <1>2, <1>3, <1>5, <1>6, <1>10, <1>12, <1>13 DEF Latest

\* The interval of a window that has a difference.
LEMMA IntervalIs ==
  ASSUME NEW v \in WatcherType, NEW h \in HeardType, NEW n, Fits(v, h, n), Len(v.window) > 1,
         h.longest >= MinInterval
  PROVE  interval(v.window) \in Nat /\ MinInterval <= interval(v.window) /\ interval(v.window) <= h.longest
<1>1. PICK q, l : q = v.window /\ q \in Seq(Nat) /\ l = h.longest /\ l \in Nat
  BY DEF WatcherType, HeardType
<1>2. PICK m \in Nat : m = Len(q) /\ DOMAIN q = 1..m /\ m > 1
  BY <1>1
<1>3. Within(q[m] - q[1], m - 1, l)
  <2>1. m \in DOMAIN q /\ 1 \in 1..m
    BY <1>2
  <2>2. QED
    BY <1>1, <2>1 DEF Fits
<1>4. PICK a : a = (q[m] - q[1]) \div (m - 1)
  OBVIOUS
<1>5. a \in Nat /\ a <= l
  <2>1. m - 1 > 0
    BY <1>2
  <2>2. QED
    BY <1>3, <1>4, <2>1, WithinAverage
<1>6. interval(q) = IF a < MinInterval THEN MinInterval ELSE a
  <2>1. Last(q) = q[m] /\ Head(q) = q[1] /\ q # <<>>
    BY <1>1, <1>2 DEF Last
  <2>2. QED
    BY <1>2, <1>4, <2>1 DEF interval
<1>7. MinInterval \in Nat
  BY WatchdogAssumption
<1>8. QED
  BY <1>1, <1>5, <1>6, <1>7

-----------------------------------------------------------------------------
(* Each step of the watchdog keeps what it has to.                          *)

\* The invariant, watcher by watcher.
LEMMA WatchersOK ==
  ASSUME DogOK
  PROVE  /\ Len(watchers) \in Nat /\ DOMAIN watchers = 1..Len(watchers)
         /\ \A i \in DOMAIN watchers : watchers[i] \in WatcherType /\ Fits(watchers[i], heard, now)
         /\ Len(begun) = Len(watchers) /\ DOMAIN begun = 1..Len(watchers)
         /\ \A i \in DOMAIN watchers : begun[i] \in 1..now
BY DEF DogOK, DogType

\* A function on 1..n is a sequence.
LEMMA Sequences ==
  ASSUME NEW E, NEW n \in Nat, NEW f, f \in [1..n -> E]
  PROVE  f \in Seq(E) /\ Len(f) = n
OBVIOUS

\* A watcher begins, and lets the dog be quiet for the grace period.
LEMMA StartWatcherStep ==
  ASSUME DogOK, startWatcher
  PROVE  DogOK'
<1>1. /\ watchers' = Append(watchers, [window |-> <<>>, todo |-> <<>>])
      /\ quiet' = now + Grace /\ begun' = Append(begun, now)
      /\ now' = now /\ kicked' = kicked /\ heard' = heard
  BY DEF startWatcher
<1>2. now \in Nat \ {0} /\ now \in 1..now /\ Grace \in Nat \ {0}
  BY WatchdogAssumption DEF DogOK, DogType
<1>3. PICK w : w = [window |-> <<>>, todo |-> <<>>] /\ w \in WatcherType
  <2>1. <<>> \in Seq(Nat) /\ <<>> \in Seq(BOOLEAN)
    OBVIOUS
  <2>2. [window |-> <<>>, todo |-> <<>>] \in WatcherType
    BY <2>1 DEF WatcherType
  <2>3. QED
    BY <2>2
<1>4. PICK m : m = Len(watchers)
  OBVIOUS
<1>5. /\ m \in Nat /\ watchers' \in Seq(WatcherType) /\ Len(watchers') = m + 1
      /\ DOMAIN watchers' = 1..(m + 1) /\ watchers'[m + 1] = w
      /\ \A i \in 1..m : watchers'[i] = watchers[i] /\ i \in DOMAIN watchers
  <2>1. watchers' = Append(watchers, w) /\ watchers \in Seq(WatcherType)
    BY <1>1, <1>3 DEF DogOK, DogType
  <2>2. /\ Append(watchers, w) \in Seq(WatcherType) /\ m \in Nat /\ DOMAIN watchers = 1..m
        /\ Len(Append(watchers, w)) = m + 1 /\ DOMAIN Append(watchers, w) = 1..(m + 1)
        /\ Append(watchers, w)[m + 1] = w
        /\ \A i \in 1..m : Append(watchers, w)[i] = watchers[i]
    BY <1>3, <1>4, <2>1, Appended
  <2>3. QED
    BY <2>1, <2>2
<1>6. begun' \in Seq(1..now) /\ Len(begun') = m + 1 /\ begun'[m + 1] = now
  <2>1. begun \in Seq(1..now) /\ Len(begun) = m
    BY <1>4 DEF DogOK, DogType
  <2>2. /\ Append(begun, now) \in Seq(1..now) /\ Len(Append(begun, now)) = m + 1
        /\ Append(begun, now)[m + 1] = now
    BY <1>2, <2>1, Appended
  <2>3. QED
    BY <1>1, <2>2
<1>7. Fits(w, heard, now)
  <2>1. heard.count \in Nat /\ Window \in Nat
    BY WatchdogAssumption DEF DogOK, DogType, HeardType
  <2>2. w.window = <<>> /\ w.todo = <<>> /\ Len(<<>>) = 0 /\ DOMAIN w.window = {}
    BY <1>3
  <2>3. QED
    BY <2>1, <2>2 DEF Fits
<1>8. \A i \in DOMAIN watchers' : Fits(watchers'[i], heard', now')
  <2>1. ASSUME NEW i \in 1..(m + 1) PROVE Fits(watchers'[i], heard, now)
    <3>1. i \in 1..m \/ i = m + 1
      BY <1>5
    <3>2. QED
      BY <1>5, <1>7, <3>1 DEF DogOK
  <2>2. QED
    BY <1>1, <1>5, <2>1
<1>9. watchers' # <<>>
  BY <1>5
<1>10. DogType'
  BY <1>1, <1>2, <1>5, <1>6, <1>9 DEF DogOK, DogType
<1>11. Soon'
  BY <1>1, <1>2, <1>6 DEF Soon, Last
<1>12. QED
  BY <1>8, <1>10, <1>11 DEF DogOK, Fits, Within, Latest

\* A message comes, for every watcher.
LEMMA MessageStep ==
  ASSUME DogOK, watchers # <<>>, NEW po \in BOOLEAN, Message(po)
  PROVE  /\ DogOK'
         /\ heard'.count = heard.count + 1 /\ heard'.last = now
         /\ heard'.regular = (heard.regular /\ po /\ now - (IF heard.count = 0 THEN Head(begun) ELSE heard.last) <= MinInterval)
         /\ (heard'.regular /\ heard.longest = MinInterval => heard'.longest = MinInterval)
         /\ DOMAIN watchers' = DOMAIN watchers
         /\ \A i \in DOMAIN watchers : /\ watchers'[i].window = watchers[i].window
                                       /\ watchers'[i].todo = Append(watchers[i].todo, po)
         /\ UNCHANGED <<now, kicked, quiet, begun>>
<1>1. PICK gap : gap = now - (IF heard.count = 0 THEN Head(begun) ELSE heard.last)
  OBVIOUS
<1>2. /\ heard' = [count |-> heard.count + 1, last |-> now,
                   longest |-> IF heard.count > 0 /\ gap > heard.longest THEN gap ELSE heard.longest,
                   regular |-> heard.regular /\ po /\ gap <= MinInterval]
      /\ watchers' = [i \in DOMAIN watchers |-> [watchers[i] EXCEPT !.todo = Append(@, po)]]
      /\ UNCHANGED <<now, kicked, quiet, begun>>
  BY <1>1 DEF Message
<1>3. /\ now \in Nat \ {0} /\ heard \in HeardType /\ heard.last <= now /\ heard.longest >= MinInterval
      /\ begun \in Seq(1..now) /\ Len(begun) = Len(watchers) /\ watchers \in Seq(WatcherType)
      /\ MinInterval \in Nat
  BY WatchdogAssumption DEF DogOK, DogType
<1>4. PICK c, l, z : c = heard.count /\ l = heard.longest /\ z = heard.last /\ c \in Nat /\ l \in Nat /\ z \in 0..now
  BY <1>3 DEF HeardType
<1>5. gap \in Nat /\ (c > 0 => gap = now - z)
  <2>1. begun # <<>>
    BY <1>3
  <2>2. Head(begun) \in 1..now
    BY <1>3, <2>1
  <2>3. QED
    BY <1>1, <1>3, <1>4, <2>2, SMTT(30)
<1>6. PICK d : d = (IF c > 0 /\ gap > l THEN gap ELSE l)
  OBVIOUS
<1>7. d \in Nat /\ d >= l /\ (c > 0 => d >= gap)
  BY <1>4, <1>5, <1>6
<1>8. /\ heard'.count = c + 1 /\ heard'.last = now /\ heard'.longest = d
      /\ heard'.regular = (heard.regular /\ po /\ gap <= MinInterval)
  BY <1>2, <1>4, <1>6
<1>9. heard' \in HeardType
  <2>1. (heard.regular /\ po /\ gap <= MinInterval) \in BOOLEAN
    OBVIOUS
  <2>2. heard' = [count |-> c + 1, last |-> now, longest |-> d,
                  regular |-> (heard.regular /\ po /\ gap <= MinInterval)]
    BY <1>2, <1>4, <1>6
  <2>3. QED
    BY <1>3, <1>4, <1>7, <2>1, <2>2 DEF HeardType
<1>10. ASSUME NEW i \in DOMAIN watchers
       PROVE  /\ watchers'[i].window = watchers[i].window
              /\ watchers'[i].todo = Append(watchers[i].todo, po)
              /\ watchers'[i] \in WatcherType /\ Fits(watchers'[i], heard', now)
  <2>1. PICK w \in WatcherType : w = watchers[i] /\ Fits(w, heard, now)
    BY WatchersOK
  <2>2. PICK q, todo : q = w.window /\ todo = w.todo /\ q \in Seq(Nat) /\ todo \in Seq(BOOLEAN)
    BY DEF WatcherType
  <2>3. PICK v : v = [w EXCEPT !.todo = Append(todo, po)] /\ v = watchers'[i]
    BY <1>2, <2>1, <2>2
  <2>4. /\ Append(todo, po) \in Seq(BOOLEAN) /\ Len(todo) \in Nat /\ Len(Append(todo, po)) = Len(todo) + 1
    BY <2>2, Appended
  <2>5. v.window = q /\ v.todo = Append(todo, po) /\ v \in WatcherType
    BY <2>2, <2>3, <2>4 DEF WatcherType
  <2>6. PICK m : m = Len(q) /\ m \in Nat /\ DOMAIN q = 1..m /\ (q # <<>> => m > 0)
    BY <2>2
  <2>7. m <= Window /\ m + Len(todo) <= c
    BY <1>4, <2>1, <2>2, <2>6 DEF Fits
  <2>8. m + Len(Append(todo, po)) <= c + 1
    BY <1>4, <2>4, <2>6, <2>7
  <2>9. ASSUME NEW k \in 1..m, NEW j \in 1..k PROVE Within(q[k] - q[j], k - j, d)
    <3>1. Within(q[k] - q[j], k - j, l)
      BY <1>4, <2>1, <2>2, <2>6 DEF Fits
    <3>2. QED
      BY <1>7, <3>1, WithinMore
  <2>10. ASSUME q # <<>> PROVE q[m] <= now /\ now - q[m] <= d
    <3>0. PICK n \in Nat : n = Len(todo)
      BY <2>4
    <3>a. m > 0 /\ c > 0
      BY <1>4, <2>6, <2>7, <2>10, <3>0
    <3>b. q[m] \in Nat
      BY <2>2, <2>6, <3>a
    <3>1. q[m] \in Nat /\ m > 0 /\ c > 0
      BY <3>a, <3>b
    <3>2. q[m] <= now /\ (todo = <<>> => q[m] = z) /\ (todo # <<>> => now - q[m] <= l)
      BY <1>4, <2>1, <2>2, <2>6, <2>10 DEF Fits, Latest
    <3>3. QED
      BY <1>3, <1>4, <1>5, <1>7, <3>1, <3>2, SMTT(30)
  <2>11. v.todo # <<>> /\ Latest(v) = q[m]
    BY <2>4, <2>5, <2>6 DEF Latest
  <2>12. Fits(v, heard', now)
    BY <1>8, <2>5, <2>6, <2>7, <2>8, <2>9, <2>10, <2>11 DEF Fits
  <2>13. QED
    BY <2>1, <2>2, <2>3, <2>5, <2>12
<1>11. watchers' \in Seq(WatcherType) /\ Len(watchers') = Len(watchers) /\ DOMAIN watchers' = DOMAIN watchers
  <2>1. PICK m \in Nat : m = Len(watchers) /\ DOMAIN watchers = 1..m
    BY <1>3
  <2>2. watchers' \in [1..m -> WatcherType]
    BY <1>2, <1>10, <2>1
  <2>3. QED
    BY <2>1, <2>2, Sequences
<1>12. DogType'
  <2>1. watchers' # <<>>
    BY <1>3, <1>11
  <2>2. /\ kicked' \in 0..now' /\ quiet' \in Nat /\ quiet' > 0 /\ (kicked' > 0 => heard'.count >= 3)
    BY <1>2, <1>4, <1>8 DEF DogOK, DogType
  <2>3. /\ now' \in Nat \ {0} /\ begun' \in Seq(1..now') /\ Len(begun') = Len(watchers')
        /\ heard'.longest >= MinInterval /\ heard'.last <= now'
    BY <1>2, <1>3, <1>4, <1>7, <1>8, <1>11
  <2>4. QED
    BY <1>9, <1>11, <2>1, <2>2, <2>3 DEF DogType
<1>13. Soon'
  <2>1. PICK x : x = Last(begun) + Grace
    OBVIOUS
  <2>2. quiet <= x \/ (c > 0 /\ quiet <= z + 2 * l)
    BY <1>4, <2>1 DEF DogOK, Soon
  <2>a. quiet \in Nat
    BY DEF DogOK, DogType
  <2>3. z + 2 * l <= now + 2 * d /\ quiet \in Nat /\ c + 1 > 0
    BY <1>3, <1>4, <1>7, <2>a, SMTT(30)
  <2>4. quiet <= x \/ quiet <= now + 2 * d
    BY <1>3, <1>4, <1>7, <2>2, <2>3, SMTT(30)
  <2>5. QED
    BY <1>2, <1>8, <2>1, <2>3, <2>4 DEF Soon
<1>14. \A i \in DOMAIN watchers' : Fits(watchers'[i], heard', now')
  BY <1>2, <1>10, <1>11
<1>15. DogOK'
  BY <1>12, <1>13, <1>14 DEF DogOK, Fits, Within, Latest
<1>16. heard'.regular /\ l = MinInterval => d = MinInterval
  <2>1. heard'.regular => gap <= MinInterval
    BY <1>8
  <2>2. QED
    BY <1>3, <1>4, <1>5, <1>6, <2>1
<1>17. QED
  BY <1>1, <1>2, <1>4, <1>8, <1>10, <1>11, <1>15, <1>16

\* What a watcher does with a message: it kicks the dog, or not.
Kicks(w, v) ==
  /\ Head(w.todo) /\ Len(v.window) > 2 /\ (kicked = 0 \/ now - kicked > interval(v.window))
  /\ kicked' = now /\ quiet' = now + 2 * interval(v.window)

Leaves(w, v) ==
  /\ ~(Head(w.todo) /\ Len(v.window) > 2 /\ (kicked = 0 \/ now - kicked > interval(v.window)))
  /\ UNCHANGED <<kicked, quiet>>

\* A watcher handles its next message, and kicks the dog or leaves it.
LEMMA HandleStep ==
  ASSUME DogOK, NEW x \in DOMAIN watchers, Handle(x)
  PROVE  /\ DogOK' /\ UNCHANGED <<now, heard, begun>> /\ DOMAIN watchers' = DOMAIN watchers
         /\ watchers[x].todo # <<>>
         /\ watchers'[x] = [window |-> Reported(watchers[x].window), todo |-> Tail(watchers[x].todo)]
         /\ \A i \in DOMAIN watchers : i # x => watchers'[i] = watchers[i]
         /\ Kicks(watchers[x], watchers'[x]) \/ Leaves(watchers[x], watchers'[x])
<1>1. PICK w \in WatcherType : w = watchers[x] /\ Fits(w, heard, now) /\ w.todo # <<>>
  BY WatchersOK DEF Handle
<1>2. PICK v : v = [window |-> Reported(w.window), todo |-> Tail(w.todo)]
  OBVIOUS
<1>3. /\ watchers' = [watchers EXCEPT ![x] = v] /\ UNCHANGED <<now, heard, begun>>
  BY <1>1, <1>2 DEF Handle
<1>4. now \in Nat \ {0} /\ heard \in HeardType /\ heard.longest >= MinInterval /\ MinInterval \in Nat
  BY WatchdogAssumption DEF DogOK, DogType
<1>5. /\ v \in WatcherType /\ Fits(v, heard, now) /\ v.window # <<>> /\ Latest(v) = now
      /\ Len(v.window) \in 1..Window
  BY <1>1, <1>2, <1>4, FitsHandled
<1>6. PICK m \in Nat : m = Len(watchers) /\ DOMAIN watchers = 1..m /\ watchers \in [1..m -> WatcherType]
  BY WatchersOK DEF DogOK, DogType
<1>7. watchers' \in Seq(WatcherType) /\ Len(watchers') = m /\ DOMAIN watchers' = DOMAIN watchers
  <2>1. watchers' \in [1..m -> WatcherType]
    BY <1>3, <1>5, <1>6
  <2>2. QED
    BY <1>6, <2>1, Sequences
<1>8. watchers'[x] = v /\ \A i \in DOMAIN watchers : i # x => watchers'[i] = watchers[i]
  BY <1>3, <1>6
<1>9. Kicks(w, v) \/ Leaves(w, v)
  BY <1>1, <1>2 DEF Handle, Kicks, Leaves, Lasts
<1>10. ASSUME Kicks(w, v)
       PROVE  /\ kicked' = now /\ quiet' \in Nat /\ quiet' > 0 /\ heard.count >= 3
              /\ heard.last = now /\ quiet' <= now + 2 * heard.longest
  <2>1. PICK i : i = interval(v.window) /\ quiet' = now + 2 * i /\ kicked' = now /\ Len(v.window) > 2
    BY <1>10 DEF Kicks
  <2>2. Window \in Nat /\ Len(v.window) \in Nat
    BY <1>5, WatchdogAssumption
  <2>3. Len(v.window) > 1
    BY <2>1, <2>2
  <2>4. i \in Nat /\ i <= heard.longest
    BY <1>4, <1>5, <2>1, <2>3, IntervalIs
  <2>5. heard.longest \in Nat /\ heard.count \in Nat
    BY <1>4 DEF HeardType
  <2>6. heard.last = now /\ Len(v.window) + Len(v.todo) <= heard.count
    BY <1>1, <1>5 DEF Fits
  <2>7. Len(v.todo) \in Nat
    BY <1>5 DEF WatcherType
  <2>8. heard.count >= 3
    <3>1. PICK a, b, c : a = Len(v.window) /\ b = Len(v.todo) /\ c = heard.count
      OBVIOUS
    <3>2. a \in Nat /\ b \in Nat /\ c \in Nat /\ a > 2 /\ a + b <= c
      BY <2>1, <2>2, <2>5, <2>6, <2>7, <3>1
    <3>3. c >= 3
      BY <3>2
    <3>4. QED
      BY <3>1, <3>3
  <2>9. QED
    BY <1>4, <2>1, <2>4, <2>5, <2>6, <2>8
<1>11. DogType'
  <2>1. watchers' # <<>> /\ watchers # <<>>
    BY <1>6, <1>7
  <2>2. /\ kicked' \in 0..now /\ quiet' \in Nat /\ quiet' > 0 /\ (kicked' > 0 => heard.count >= 3)
    <3>1. CASE Kicks(w, v)
      BY <1>4, <1>10, <3>1
    <3>2. CASE Leaves(w, v)
      BY <2>1, <3>2 DEF Leaves, DogOK, DogType
    <3>3. QED
      BY <1>9, <3>1, <3>2
  <2>3. QED
    BY <1>3, <1>4, <1>6, <1>7, <2>1, <2>2 DEF DogOK, DogType
<1>12. Soon'
  <2>1. watchers # <<>>
    BY <1>6
  <2>2. CASE Kicks(w, v)
    <3>1. heard.count > 0 /\ quiet' <= heard.last + 2 * heard.longest
      BY <1>10, <2>2, <1>4 DEF HeardType
    <3>2. QED
      BY <1>3, <3>1 DEF Soon
  <2>3. CASE Leaves(w, v)
    BY <1>3, <2>1, <2>3 DEF Leaves, DogOK, Soon, Last
  <2>4. QED
    BY <1>9, <2>2, <2>3
<1>13. \A i \in DOMAIN watchers' : Fits(watchers'[i], heard', now')
  BY <1>3, <1>5, <1>7, <1>8 DEF DogOK
<1>14. DogOK'
  BY <1>11, <1>12, <1>13 DEF DogOK, Fits, Within, Latest
<1>15. QED
  BY <1>1, <1>2, <1>3, <1>7, <1>8, <1>9, <1>14

\* Time goes on when everything is handled.
LEMMA TickStep ==
  ASSUME DogOK, watchers # <<>>, Tick
  PROVE  DogOK'
<1>1. /\ now' = now + 1 /\ UNCHANGED <<watchers, kicked, quiet, heard, begun>>
      /\ \A i \in DOMAIN watchers : watchers[i].todo = <<>>
  BY DEF Tick
<1>2. now \in Nat \ {0} /\ heard.last <= now /\ heard \in HeardType
  BY DEF DogOK, DogType
<1>3. DogType'
  <2>1. now' \in Nat \ {0} /\ 0..now \subseteq 0..now' /\ 1..now \subseteq 1..now'
    BY <1>1, <1>2
  <2>2. begun' \in Seq(1..now') /\ heard.last <= now'
    <3>1. begun \in Seq(1..now)
      BY DEF DogOK, DogType
    <3>2. heard.last \in Nat
      BY <1>2 DEF HeardType
    <3>3. QED
      BY <1>1, <1>2, <2>1, <3>1, <3>2
  <2>3. QED
    BY <1>1, <2>1, <2>2 DEF DogOK, DogType
<1>4. Soon'
  BY <1>1 DEF DogOK, Soon, Last
<1>5. ASSUME NEW i \in DOMAIN watchers PROVE Fits(watchers[i], heard, now')
  <2>1. PICK w \in WatcherType : w = watchers[i] /\ Fits(w, heard, now) /\ w.todo = <<>>
    BY <1>1, WatchersOK
  <2>2. w.window # <<>> => Latest(w) \in Nat
    BY DEF WatcherType, Latest
  <2>3. w.window # <<>> => Latest(w) <= now'
    BY <1>1, <1>2, <2>1, <2>2 DEF Fits
  <2>4. Fits(w, heard, now')
    BY <2>1, <2>3 DEF Fits
  <2>5. QED
    BY <2>1, <2>4
<1>6. \A i \in DOMAIN watchers' : Fits(watchers'[i], heard', now')
  BY <1>1, <1>5
<1>7. QED
  BY <1>3, <1>4, <1>6 DEF DogOK, Fits, Within, Latest

\* At first there is no watcher.
LEMMA DogInitOK ==
  ASSUME DogInit
  PROVE  DogOK
<1>1. MinInterval \in Nat
  BY WatchdogAssumption
<1>2. heard \in HeardType
  BY <1>1 DEF DogInit, HeardType
<1>3. QED
  BY <1>1, <1>2 DEF DogInit, DogOK, DogType, Soon

\* Every step keeps the windows, and what the dog was last told.
LEMMA DogStep ==
  ASSUME ToolsOK, DogOK, [Next]_vars
  PROVE  DogOK'
<1>1. CASE UNCHANGED dogVars
  <2>1. UNCHANGED <<now, heard, kicked, quiet, watchers, begun>>
    BY <1>1 DEF dogVars
  <2>2. DogType'
    BY <2>1 DEF DogOK, DogType
  <2>3. Soon'
    BY <2>1 DEF DogOK, Soon, Last
  <2>4. \A i \in DOMAIN watchers' : Fits(watchers'[i], heard', now')
    BY <2>1 DEF DogOK
  <2>5. QED
    BY <2>2, <2>3, <2>4 DEF DogOK, Fits, Within, Latest
<1>2. CASE startWatcher
  BY <1>2, StartWatcherStep
<1>3. CASE watchers # <<>> /\ Stream
  BY <1>3, MessageStep, HandleStep, TickStep DEF Stream
<1>4. QED
  <2>1. ASSUME UNCHANGED <<load, reqVars, dogVars, posted>> PROVE UNCHANGED dogVars
    BY <2>1
  <2>2. \A t \in Tools : Tool(t) => UNCHANGED dogVars
    BY DEF Tool
  <2>3. Delivered => UNCHANGED dogVars \/ startWatcher
    BY DEF Delivered
  <2>4. QED
    BY <1>1, <1>2, <1>3, <2>1, <2>2, <2>3 DEF Next, vars

-----------------------------------------------------------------------------
(* A stream that is on time.  Of the first watcher, that began at b, there are m     *)
(* times in the window and t messages to handle, and l is the time of the last that  *)
(* it handled, or b; c messages came; and at n the dog was last kicked at k, and is  *)
(* quiet until q.                                                                    *)

InTime(b, m, l, t, c, n, k, q) ==
  /\ m < Window => c = m + t
  /\ t > 0 => n <= l + MinInterval
  /\ k = 0 => m <= 2 /\ l <= b + m * MinInterval /\ q >= b + Grace
  /\ k > 0 => /\ q >= k + 2 * MinInterval /\ k >= b /\ l <= k + MinInterval
              /\ m <= 2 => t > 0 /\ k = n

\* What else is known of these numbers.
Numbers(b, m, l, t, c, n, k, q) ==
  /\ {b, m, l, t, c, n, k, q} \subseteq Nat /\ m <= Window /\ m + t <= c
  /\ b <= n /\ l <= n /\ k <= n /\ (k > 0 => c >= 3) /\ (m = 0 => l = b)

\* The first watcher handles a message, and kicks the dog if it has to.
LEMMA FirstHandles ==
  ASSUME NEW b, NEW m, NEW l, NEW t, NEW c, NEW n, NEW k, NEW q,
         Numbers(b, m, l, t, c, n, k, q), InTime(b, m, l, t, c, n, k, q), t > 0, n > 0,
         NEW mm, mm = (IF m = Window THEN Window ELSE m + 1),
         NEW kk, NEW qq,
         \/ mm > 2 /\ (k = 0 \/ n - k > MinInterval) /\ kk = n /\ qq = n + 2 * MinInterval
         \/ ~(mm > 2 /\ (k = 0 \/ n - k > MinInterval)) /\ kk = k /\ qq = q
  PROVE  InTime(b, mm, n, t - 1, c, n, kk, qq)
<1>1. /\ Window \in Nat /\ Window > 2 /\ MinInterval \in Nat /\ MinInterval > 0
      /\ Grace \in Nat /\ Grace > 3 * MinInterval
  BY WatchdogAssumption
<1>2. /\ b \in Nat /\ m \in Nat /\ l \in Nat /\ t \in Nat /\ c \in Nat /\ n \in Nat /\ k \in Nat /\ q \in Nat
  BY DEF Numbers
<1>3. mm < Window => c = mm + (t - 1)
  BY <1>1, <1>2 DEF InTime, Numbers
<1>4. t - 1 > 0 => n <= n + MinInterval
  BY <1>1, <1>2
<1>5. kk = 0 => mm <= 2 /\ n <= b + mm * MinInterval /\ qq >= b + Grace
  <2> SUFFICES ASSUME kk = 0 PROVE mm <= 2 /\ n <= b + mm * MinInterval /\ qq >= b + Grace
    OBVIOUS
  <2>1. k = 0 /\ m <= 2 /\ mm = m + 1 /\ mm <= 2 /\ qq = q
    BY <1>1, <1>2 DEF InTime, Numbers
  <2>2. n <= l + MinInterval /\ l <= b + m * MinInterval /\ q >= b + Grace
    BY <2>1 DEF InTime
  <2>3. (m + 1) * MinInterval = m * MinInterval + MinInterval /\ m * MinInterval \in Nat
    BY <1>1, <1>2
  <2>4. QED
    BY <1>1, <1>2, <2>1, <2>2, <2>3
<1>6. kk > 0 => /\ qq >= kk + 2 * MinInterval /\ kk >= b /\ n <= kk + MinInterval
                /\ mm <= 2 => t - 1 > 0 /\ kk = n
  BY <1>1, <1>2 DEF InTime, Numbers
<1>7. QED
  BY <1>3, <1>4, <1>5, <1>6 DEF InTime

\* Another watcher kicks the dog, after three messages.
LEMMA AnotherKicks ==
  ASSUME NEW b, NEW m, NEW l, NEW t, NEW c, NEW n, NEW k, NEW q,
         Numbers(b, m, l, t, c, n, k, q), InTime(b, m, l, t, c, n, k, q), c >= 3, n > 0
  PROVE  InTime(b, m, l, t, c, n, n, n + 2 * MinInterval)
<1>1. /\ Window \in Nat /\ Window > 2 /\ MinInterval \in Nat /\ MinInterval > 0
  BY WatchdogAssumption
<1>2. QED
  BY <1>1 DEF InTime, Numbers

\* A message comes that is on time.
LEMMA MessageInTime ==
  ASSUME NEW b, NEW m, NEW l, NEW t, NEW c, NEW n, NEW k, NEW q,
         Numbers(b, m, l, t, c, n, k, q), InTime(b, m, l, t, c, n, k, q),
         NEW z \in Nat, m > 0 /\ t = 0 => l = z,
         n - (IF c = 0 THEN b ELSE z) <= MinInterval
  PROVE  InTime(b, m, l, t + 1, c + 1, n, k, q)
<1>1. /\ Window \in Nat /\ Window > 2 /\ MinInterval \in Nat /\ MinInterval > 0
  BY WatchdogAssumption
<1>2. n <= l + MinInterval
  <2>1. CASE t > 0
    BY <2>1 DEF InTime
  <2>2. CASE t = 0 /\ m > 0
    BY <1>1, <2>2 DEF Numbers
  <2>3. CASE t = 0 /\ m = 0
    BY <1>1, <2>3 DEF InTime, Numbers
  <2>4. QED
    BY <2>1, <2>2, <2>3 DEF Numbers
<1>3. QED
  BY <1>1, <1>2 DEF InTime, Numbers

\* As long as the last message is not too long ago, the dog is quiet.
LEMMA QuietInTime ==
  ASSUME NEW b, NEW m, NEW l, NEW t, NEW c, NEW n, NEW k, NEW q,
         Numbers(b, m, l, t, c, n, k, q), InTime(b, m, l, t, c, n, k, q), c > 0,
         NEW z \in Nat, m > 0 /\ t = 0 => l = z, n - z <= MinInterval
  PROVE  n <= q
<1>1. /\ Window \in Nat /\ Window > 2 /\ MinInterval \in Nat /\ MinInterval > 0
      /\ Grace \in Nat /\ Grace > 3 * MinInterval
  BY WatchdogAssumption
<1>2. /\ b \in Nat /\ m \in Nat /\ l \in Nat /\ t \in Nat /\ c \in Nat /\ n \in Nat /\ k \in Nat /\ q \in Nat
  BY DEF Numbers
<1>3. n <= l + MinInterval
  <2>1. CASE t > 0
    BY <2>1 DEF InTime
  <2>2. CASE t = 0
    BY <1>1, <1>2, <2>2 DEF InTime
  <2>3. QED
    BY <1>2, <2>1, <2>2
<1>4. CASE k = 0
  <2>1. m <= 2 /\ l <= b + m * MinInterval /\ q >= b + Grace
    BY <1>4 DEF InTime
  <2>2. m * MinInterval <= 2 * MinInterval /\ m * MinInterval \in Nat
    BY <1>1, <1>2, <2>1
  <2>3. QED
    BY <1>1, <1>2, <1>3, <2>1, <2>2
<1>5. CASE k > 0
  BY <1>1, <1>2, <1>3, <1>5 DEF InTime
<1>6. QED
  BY <1>2, <1>4, <1>5

\* The stream that is watched, as long as it is on time.
Told(w, b) == IF w.window = <<>> THEN b ELSE Latest(w)
Good(w) == \A k \in DOMAIN w.todo : w.todo[k] = TRUE

NumbersOf(w, b, c, n, k, q) == Numbers(b, Len(w.window), Told(w, b), Len(w.todo), c, n, k, q)
FirstInTime(w, b, c, n, k, q) == InTime(b, Len(w.window), Told(w, b), Len(w.todo), c, n, k, q)

OnTime ==
  heard.regular =>
    /\ heard.longest = MinInterval
    /\ \A i \in DOMAIN watchers : Good(watchers[i])
    /\ watchers # <<>> => FirstInTime(watchers[1], begun[1], heard.count, now, kicked, quiet)

\* What is known of the first watcher.
LEMMA FirstIs ==
  ASSUME DogOK, watchers # <<>>
  PROVE  /\ 1 \in DOMAIN watchers /\ Head(begun) = begun[1] /\ begun[1] \in 1..now
         /\ watchers[1] \in WatcherType /\ Fits(watchers[1], heard, now)
         /\ NumbersOf(watchers[1], begun[1], heard.count, now, kicked, quiet)
<1>0. watchers \in Seq(WatcherType) /\ begun \in Seq(1..now) /\ Len(begun) = Len(watchers)
  BY DEF DogOK, DogType
<1>1. PICK n \in Nat : n = Len(watchers) /\ n > 0 /\ DOMAIN watchers = 1..n /\ Len(begun) = n /\ DOMAIN begun = 1..n
  BY <1>0
<1>2. 1 \in DOMAIN watchers /\ 1 \in DOMAIN begun
  BY <1>1
<1>3. PICK b, w : b = begun[1] /\ w = watchers[1] /\ b \in 1..now /\ w \in WatcherType /\ Fits(w, heard, now)
  BY <1>2, WatchersOK
<1>4. Head(begun) = begun[1]
  BY <1>1 DEF DogOK, DogType
<1>5. /\ now \in Nat /\ heard.count \in Nat /\ kicked \in 0..now /\ quiet \in Nat
      /\ kicked > 0 => heard.count >= 3
  BY DEF DogOK, DogType, HeardType
<1>6. Window \in Nat
  BY WatchdogAssumption
<1>a. PICK todo : todo = w.todo /\ todo \in Seq(BOOLEAN)
  BY <1>3 DEF WatcherType
<1>b. PICK t : t = Len(w.todo) /\ t \in Nat
  BY <1>a
<1>7. PICK q, m : q = w.window /\ m = Len(q) /\ q \in Seq(Nat) /\ m \in Nat
  BY <1>3 DEF WatcherType
<1>8. m <= Window /\ m + t <= heard.count
  BY <1>3, <1>7, <1>b DEF Fits
<1>9. /\ Told(w, b) \in Nat /\ Told(w, b) <= now /\ (m = 0 => Told(w, b) = b)
  <2>1. CASE q = <<>>
    BY <1>3, <1>5, <1>7, <2>1 DEF Told
  <2>2. CASE q # <<>>
    <3>1. m > 0 /\ q[m] \in Nat
      BY <1>7, <2>2
    <3>2. Told(w, b) = q[m] /\ q[m] <= now
      BY <1>3, <1>7, <2>2 DEF Told, Latest, Fits
    <3>3. QED
      BY <1>7, <3>1, <3>2
  <2>3. QED
    BY <2>1, <2>2
<1>10. Numbers(b, m, Told(w, b), t, heard.count, now, kicked, quiet)
  <2>1. {b, m, Told(w, b), t, heard.count, now, kicked, quiet} \subseteq Nat
    BY <1>3, <1>5, <1>7, <1>9, <1>b
  <2>2. b <= now /\ kicked <= now
    BY <1>3, <1>5
  <2>3. QED
    BY <1>5, <1>8, <1>9, <2>1, <2>2 DEF Numbers
<1>11. QED
  BY <1>2, <1>3, <1>4, <1>7, <1>b, <1>10 DEF NumbersOf

\* Another watcher does not make the dog less quiet.
LEMMA OnTimeWatcher ==
  ASSUME DogOK, OnTime, startWatcher
  PROVE  OnTime'
<1>1. /\ watchers' = Append(watchers, [window |-> <<>>, todo |-> <<>>])
      /\ quiet' = now + Grace /\ begun' = Append(begun, now)
      /\ now' = now /\ kicked' = kicked /\ heard' = heard
  BY DEF startWatcher
<1> SUFFICES ASSUME heard.regular
             PROVE  /\ \A i \in DOMAIN watchers' : Good(watchers'[i])
                    /\ FirstInTime(watchers'[1], begun'[1], heard.count, now, kicked, now + Grace)
  BY <1>1 DEF OnTime, Good, FirstInTime, InTime, Told, Latest
<1>2. PICK w : w = [window |-> <<>>, todo |-> <<>>]
  OBVIOUS
<1>3. PICK n \in Nat : n = Len(watchers) /\ DOMAIN watchers = 1..n /\ Len(begun) = n
  BY WatchersOK
<1>4. now \in Nat /\ heard.count \in Nat /\ Grace \in Nat /\ MinInterval \in Nat /\ Grace > 3 * MinInterval
      /\ Window \in Nat /\ Window > 2
  BY WatchdogAssumption DEF DogOK, DogType, HeardType
<1>5. /\ DOMAIN watchers' = 1..(n + 1) /\ watchers'[n + 1] = w
      /\ \A i \in 1..n : watchers'[i] = watchers[i]
  <2>1. watchers' = Append(watchers, w) /\ watchers \in Seq(WatcherType)
    BY <1>1, <1>2 DEF DogOK, DogType
  <2>2. QED
    BY <1>3, <2>1
<1>6. begun'[n + 1] = now /\ (\A i \in 1..n : begun'[i] = begun[i])
  <2>1. begun' = Append(begun, now) /\ begun \in Seq(1..now)
    BY <1>1 DEF DogOK, DogType
  <2>2. QED
    BY <1>3, <2>1
<1>7. \A i \in DOMAIN watchers' : Good(watchers'[i])
  <2>1. Good(w)
    BY <1>2 DEF Good
  <2>2. ASSUME NEW i \in 1..(n + 1) PROVE Good(watchers'[i])
    <3>1. i \in 1..n \/ i = n + 1
      BY <1>3
    <3>2. QED
      BY <1>3, <1>5, <2>1, <3>1 DEF OnTime
  <2>3. QED
    BY <1>5, <2>2
<1>8. FirstInTime(watchers'[1], begun'[1], heard.count, now, kicked, now + Grace)
  <2>1. CASE n = 0
    <3>1. watchers'[1] = w /\ begun'[1] = now
      BY <1>5, <1>6, <2>1
    <3>2. Len(w.window) = 0 /\ Told(w, now) = now /\ Len(w.todo) = 0
      BY <1>2 DEF Told
    <3>3. heard.count = 0 /\ kicked = 0
      BY <1>3, <2>1 DEF DogOK, DogType
    <3>4. 0 * MinInterval = 0
      BY <1>4
    <3>5. InTime(now, 0, now, 0, 0, now, 0, now + Grace)
      BY <1>4, <3>4 DEF InTime
    <3>6. QED
      BY <3>1, <3>2, <3>3, <3>5 DEF FirstInTime
  <2>2. CASE n > 0
    <3>1. watchers # <<>> /\ watchers'[1] = watchers[1] /\ begun'[1] = begun[1]
      BY <1>3, <1>5, <1>6, <2>2
    <3>2. PICK b, m, l, t, c, k : /\ b = begun[1] /\ m = Len(watchers[1].window) /\ l = Told(watchers[1], b)
                                  /\ t = Len(watchers[1].todo) /\ c = heard.count /\ k = kicked
      OBVIOUS
    <3>3. Numbers(b, m, l, t, c, now, k, quiet) /\ InTime(b, m, l, t, c, now, k, quiet)
      BY <3>1, <3>2, FirstIs DEF OnTime, FirstInTime, NumbersOf
    <3>4. InTime(b, m, l, t, c, now, k, now + Grace)
      BY <1>4, <3>3 DEF InTime, Numbers
    <3>5. QED
      BY <3>1, <3>2, <3>4 DEF FirstInTime
  <2>3. QED
    BY <1>3, <2>1, <2>2
<1>9. QED
  BY <1>7, <1>8

\* As long as the stream is on time, each message is.
LEMMA OnTimeMessage ==
  ASSUME DogOK, OnTime, watchers # <<>>, NEW po \in BOOLEAN, Message(po)
  PROVE  OnTime'
<1>1. /\ heard'.count = heard.count + 1
      /\ heard'.regular = (heard.regular /\ po /\ now - (IF heard.count = 0 THEN Head(begun) ELSE heard.last) <= MinInterval)
      /\ (heard'.regular /\ heard.longest = MinInterval => heard'.longest = MinInterval)
      /\ DOMAIN watchers' = DOMAIN watchers
      /\ \A i \in DOMAIN watchers : /\ watchers'[i].window = watchers[i].window
                                    /\ watchers'[i].todo = Append(watchers[i].todo, po)
      /\ UNCHANGED <<now, kicked, quiet, begun>>
  BY MessageStep
<1> SUFFICES ASSUME heard'.regular
             PROVE  /\ \A i \in DOMAIN watchers' : Good(watchers'[i])
                    /\ FirstInTime(watchers'[1], begun[1], heard'.count, now, kicked, quiet)
  BY <1>1 DEF OnTime, Good, FirstInTime, InTime, Told, Latest
<1>2. heard.regular /\ po = TRUE
  BY <1>1
<1>3. \A i \in DOMAIN watchers' : Good(watchers'[i])
  <2>1. ASSUME NEW i \in DOMAIN watchers PROVE Good(watchers'[i])
    <3>1. PICK todo : todo = watchers[i].todo /\ todo \in Seq(BOOLEAN) /\ \A k \in DOMAIN todo : todo[k] = TRUE
      BY <1>2, WatchersOK DEF OnTime, Good, WatcherType
    <3>2. \A k \in DOMAIN Append(todo, po) : Append(todo, po)[k] = TRUE
      BY <1>2, <3>1
    <3>3. QED
      BY <1>1, <3>1, <3>2 DEF Good
  <2>2. QED
    BY <1>1, <2>1
<1>4. PICK w, v : w = watchers[1] /\ v = watchers'[1] /\ v.window = w.window /\ v.todo = Append(w.todo, po)
                  /\ w \in WatcherType /\ Fits(w, heard, now)
  BY <1>1, FirstIs
<1>5. PICK b, m, l, t, c, n, k, q, z :
        /\ b = begun[1] /\ m = Len(w.window) /\ l = Told(w, b)
        /\ t = Len(w.todo) /\ c = heard.count /\ n = now /\ k = kicked /\ q = quiet /\ z = heard.last
  OBVIOUS
<1>6. Numbers(b, m, l, t, c, n, k, q) /\ InTime(b, m, l, t, c, n, k, q)
  BY <1>2, <1>4, <1>5, FirstIs DEF OnTime, FirstInTime, NumbersOf
<1>7. z \in Nat /\ n - (IF c = 0 THEN b ELSE z) <= MinInterval
  <2>1. z \in Nat /\ Head(begun) = b
    BY <1>5, FirstIs DEF DogOK, DogType, HeardType
  <2>2. QED
    BY <1>1, <1>5, <2>1
<1>8. m > 0 /\ t = 0 => l = z
  <2>1. w.window \in Seq(Nat) /\ w.todo \in Seq(BOOLEAN)
    BY <1>4 DEF WatcherType
  <2>2. (m > 0 => w.window # <<>>) /\ (t = 0 => w.todo = <<>>)
    BY <1>5, <2>1
  <2>3. QED
    BY <1>4, <1>5, <2>2 DEF Fits, Told
<1>9. InTime(b, m, l, t + 1, c + 1, n, k, q)
  BY <1>6, <1>7, <1>8, MessageInTime
<1>10. Len(v.todo) = t + 1 /\ Told(v, b) = l /\ Len(v.window) = m
  BY <1>4, <1>5 DEF WatcherType, Told, Latest
<1>11. QED
  BY <1>1, <1>3, <1>4, <1>5, <1>9, <1>10 DEF FirstInTime

\* Whoever handles a message, the first watcher's numbers are as they have to be.
LEMMA OnTimeHandle ==
  ASSUME DogOK, OnTime, NEW x \in DOMAIN watchers, Handle(x)
  PROVE  OnTime'
<1>0. PICK ws : ws = watchers'
  OBVIOUS
<1>1. /\ DogOK' /\ now' = now /\ heard' = heard /\ begun' = begun /\ DOMAIN ws = DOMAIN watchers
      /\ watchers[x].todo # <<>>
      /\ ws[x] = [window |-> Reported(watchers[x].window), todo |-> Tail(watchers[x].todo)]
      /\ \A i \in DOMAIN watchers : i # x => ws[i] = watchers[i]
      /\ Kicks(watchers[x], ws[x]) \/ Leaves(watchers[x], ws[x])
  BY <1>0, HandleStep
<1> SUFFICES ASSUME heard.regular
             PROVE  /\ \A i \in DOMAIN watchers' : Good(ws[i])
                    /\ FirstInTime(ws[1], begun[1], heard.count, now, kicked', quiet')
  BY <1>0, <1>1 DEF OnTime, Good, FirstInTime, InTime, Told, Latest
<1>2. watchers # <<>> /\ heard.longest = MinInterval /\ heard \in HeardType /\ MinInterval \in Nat
      /\ now \in Nat /\ now > 0
  BY WatchdogAssumption DEF DogOK, DogType, OnTime
<1>3. PICK w, v : /\ w = watchers[x] /\ v = ws[x] /\ w \in WatcherType /\ Fits(w, heard, now)
                  /\ w.todo # <<>> /\ v = [window |-> Reported(w.window), todo |-> Tail(w.todo)]
                  /\ Kicks(w, v) \/ Leaves(w, v)
  BY <1>1, WatchersOK
<1>4. PICK todo : todo = w.todo /\ todo \in Seq(BOOLEAN) /\ todo # <<>> /\ \A k \in DOMAIN todo : todo[k] = TRUE
  BY <1>3 DEF OnTime, Good, WatcherType
<1>5. /\ Head(todo) = TRUE /\ \A k \in DOMAIN Tail(todo) : Tail(todo)[k] = TRUE
  <2>1. /\ Head(todo) = todo[1] /\ Len(todo) \in Nat \ {0} /\ DOMAIN todo = 1..Len(todo)
        /\ DOMAIN Tail(todo) = 1..(Len(todo) - 1)
        /\ \A i \in 1..(Len(todo) - 1) : Tail(todo)[i] = todo[i + 1] /\ i + 1 \in DOMAIN todo
    BY <1>4, Tails
  <2>2. 1 \in DOMAIN todo
    BY <2>1
  <2>3. QED
    BY <1>4, <2>1, <2>2
<1>6. Good(v)
  <2>1. v.todo = Tail(todo)
    BY <1>3, <1>4
  <2>2. QED
    BY <1>5, <2>1 DEF Good
<1>7. \A i \in DOMAIN watchers' : Good(ws[i])
  BY <1>0, <1>1, <1>3, <1>6 DEF OnTime
<1>8. /\ v \in WatcherType /\ Fits(v, heard, now) /\ v.window # <<>> /\ Latest(v) = now
      /\ Len(v.window) = (IF Len(w.window) = Window THEN Window ELSE Len(w.window) + 1)
      /\ Len(w.todo) \in Nat \ {0} /\ Len(v.todo) = Len(w.todo) - 1 /\ Len(v.window) \in 1..Window
  BY <1>2, <1>3, FitsHandled
<1>9. PICK u, b : u = watchers[1] /\ b = begun[1]
  OBVIOUS
<1>10. PICK m, l, t, c, n, k, q :
        /\ m = Len(u.window) /\ l = Told(u, b)
        /\ t = Len(u.todo) /\ c = heard.count /\ n = now /\ k = kicked /\ q = quiet
  OBVIOUS
<1>11. Numbers(b, m, l, t, c, n, k, q) /\ InTime(b, m, l, t, c, n, k, q)
  BY <1>2, <1>9, <1>10, FirstIs DEF OnTime, FirstInTime, NumbersOf
<1>12. CASE x = 1
  <2>1. PICK mm, i, kk, qq : mm = Len(v.window) /\ i = interval(v.window) /\ kk = kicked' /\ qq = quiet'
    OBVIOUS
  <2>2. w = u
    BY <1>3, <1>9, <1>12
  <2>3. mm > 2 => i = MinInterval
    <3>1. Window \in Nat
      BY WatchdogAssumption
    <3>2. mm > 2 => mm > 1
      BY <1>8, <2>1, <3>1
    <3>3. mm > 2 => i \in Nat /\ MinInterval <= i /\ i <= MinInterval
      BY <1>2, <1>8, <2>1, <3>2, IntervalIs
    <3>4. QED
      BY <1>2, <3>3
  <2>4. \/ mm > 2 /\ (k = 0 \/ n - k > MinInterval) /\ kk = n /\ qq = n + 2 * MinInterval
        \/ ~(mm > 2 /\ (k = 0 \/ n - k > MinInterval)) /\ kk = k /\ qq = q
    <3>1. CASE Kicks(w, v)
      BY <1>10, <2>1, <2>3, <3>1 DEF Kicks
    <3>2. CASE Leaves(w, v)
      BY <1>4, <1>5, <1>10, <2>1, <2>3, <3>2 DEF Leaves
    <3>3. QED
      BY <1>3, <3>1, <3>2
  <2>5. mm = (IF m = Window THEN Window ELSE m + 1) /\ t > 0 /\ n > 0
    BY <1>2, <1>8, <1>10, <2>1, <2>2
  <2>6. InTime(b, mm, n, t - 1, c, n, kk, qq)
    BY <1>11, <2>4, <2>5, FirstHandles
  <2>7. Told(v, b) = n /\ Len(v.todo) = t - 1
    BY <1>8, <1>10, <2>2 DEF Told
  <2>8. QED
    BY <1>3, <1>7, <1>9, <1>10, <1>12, <2>1, <2>6, <2>7 DEF FirstInTime
<1>13. CASE x # 1
  <2>1. ws[1] = u
    BY <1>1, <1>2, <1>9, <1>13, FirstIs
  <2>2. CASE Kicks(w, v)
    <3>1. PICK i : i = interval(v.window) /\ kicked' = n /\ quiet' = n + 2 * i /\ Len(v.window) > 2
      BY <1>10, <2>2 DEF Kicks
    <3>2. i = MinInterval
      <4>1. Window \in Nat
        BY WatchdogAssumption
      <4>2. Len(v.window) > 1
        BY <1>8, <3>1, <4>1
      <4>3. i \in Nat /\ MinInterval <= i /\ i <= MinInterval
        BY <1>2, <1>8, <3>1, <4>2, IntervalIs
      <4>4. QED
        BY <1>2, <4>3
    <3>3. c >= 3 /\ n > 0
      <4>1. kicked' > 0 => heard'.count >= 3
        BY <1>1 DEF DogOK, DogType
      <4>2. QED
        BY <1>1, <1>2, <1>10, <3>1, <4>1
    <3>4. InTime(b, m, l, t, c, n, n, n + 2 * MinInterval)
      BY <1>11, <3>3, AnotherKicks
    <3>5. QED
      BY <1>7, <1>9, <1>10, <2>1, <3>1, <3>2, <3>4 DEF FirstInTime
  <2>3. CASE Leaves(w, v)
    BY <1>7, <1>9, <1>10, <1>11, <2>1, <2>3 DEF FirstInTime, Leaves
  <2>4. QED
    BY <1>3, <2>2, <2>3
<1>14. QED
  BY <1>12, <1>13

\* Time goes on only when no message is left.
LEMMA OnTimeTick ==
  ASSUME DogOK, OnTime, watchers # <<>>, Tick
  PROVE  OnTime'
<1>1. /\ now' = now + 1 /\ UNCHANGED <<watchers, kicked, quiet, heard, begun>>
      /\ \A i \in DOMAIN watchers : watchers[i].todo = <<>>
  BY DEF Tick
<1> SUFFICES ASSUME heard.regular
             PROVE  FirstInTime(watchers[1], begun[1], heard.count, now + 1, kicked, quiet)
  BY <1>1 DEF OnTime, Good, FirstInTime, InTime, Told, Latest
<1>2. PICK b, m, l, t, c, n, k, q :
        /\ b = begun[1] /\ m = Len(watchers[1].window) /\ l = Told(watchers[1], b)
        /\ t = Len(watchers[1].todo) /\ c = heard.count /\ n = now /\ k = kicked /\ q = quiet
  OBVIOUS
<1>3. Numbers(b, m, l, t, c, n, k, q) /\ InTime(b, m, l, t, c, n, k, q)
  BY <1>2, FirstIs DEF OnTime, FirstInTime, NumbersOf
<1>4. t = 0
  BY <1>1, <1>2, FirstIs
<1>5. InTime(b, m, l, t, c, n + 1, k, q)
  BY <1>3, <1>4 DEF InTime, Numbers
<1>6. QED
  BY <1>2, <1>5 DEF FirstInTime

\* Every step keeps a stream on time.
LEMMA OnTimeStep ==
  ASSUME ToolsOK, DogOK, OnTime, [Next]_vars
  PROVE  OnTime'
<1>1. CASE UNCHANGED dogVars
  BY <1>1 DEF dogVars, OnTime, Good, FirstInTime, InTime, Told, Latest
<1>2. CASE startWatcher
  BY <1>2, OnTimeWatcher
<1>3. CASE watchers # <<>> /\ Stream
  BY <1>3, OnTimeMessage, OnTimeHandle, OnTimeTick DEF Stream
<1>4. QED
  <2>1. ASSUME UNCHANGED <<load, reqVars, dogVars, posted>> PROVE UNCHANGED dogVars
    BY <2>1
  <2>2. \A t \in Tools : Tool(t) => UNCHANGED dogVars
    BY DEF Tool
  <2>3. Delivered => UNCHANGED dogVars \/ startWatcher
    BY DEF Delivered
  <2>4. QED
    BY <1>1, <1>2, <1>3, <2>1, <2>2, <2>3 DEF Next, vars

\* At first nothing was late.
LEMMA OnTimeInit ==
  ASSUME DogInit
  PROVE  OnTime
<1>1. watchers = <<>> /\ DOMAIN watchers = {} /\ heard.longest = MinInterval
  BY DEF DogInit
<1>2. QED
  BY <1>1 DEF OnTime

-----------------------------------------------------------------------------
(* The inductive invariant, and what follows from it.                       *)

IInv == ToolsOK /\ Twins /\ Fresh /\ Undisturbed /\ DogOK /\ OnTime

\* At first the invariant holds.
LEMMA InitInv ==
  ASSUME Init
  PROVE  IInv
<1>1. load \in Loads /\ ReqInit /\ DogInit
  BY DEF Init
<1>2. /\ lists = load.lists /\ failures = 0 /\ disturbed = {} /\ DOMAIN tool = Tools
      /\ \A t \in Tools : tool[t] = NotStarted
  BY <1>1 DEF ReqInit
<1>3. NotStarted \in ToolType /\ NotStarted.pc = "new"
  <2>1. NotStarted.job \in Jobs
    BY DEF NotStarted, Jobs
  <2>2. <<>> \in Seq(Wanted) \cup Seq(URIs) /\ <<>> \in Seq(Requests) /\ {} \in SUBSET URIs
    OBVIOUS
  <2>3. QED
    BY <2>1, <2>2 DEF NotStarted, ToolType
<1>4. \A t \in Tools : ToolOK(tool[t])
  BY <1>2, <1>3 DEF ToolOK
<1>5. ToolsOK
  BY <1>1, <1>2, <1>4, LoadsOK DEF ToolsOK
<1>6. Twins
  BY <1>1, <1>2, <1>3, LoadsOK DEF Twins, Lone
<1>7. Fresh /\ Undisturbed
  BY <1>2, <1>3 DEF Fresh, Seen, Undisturbed, Works
<1>8. QED
  BY <1>1, <1>5, <1>6, <1>7, DogInitOK, OnTimeInit DEF IInv

\* Every step keeps it.
LEMMA StepInv ==
  ASSUME IInv, [Next]_vars
  PROVE  IInv'
BY ToolsStep, TwinsStep, FreshStep, UndisturbedStep, DogStep, OnTimeStep DEF IInv

\* Whatever the loads, the tools and the watchdog keep the inductive invariant.
THEOREM ToolsInvariant == Spec => []IInv
<1>1. Init => IInv
  BY InitInv
<1>2. IInv /\ [Next]_vars => IInv'
  BY StepInv
<1>3. QED
  BY <1>1, <1>2, PTL DEF Spec

\* Every variable has its type (ArchiveRequests.tla, Watchdog.tla): a tool that reads or
\* publishes has a place left to do it (api.go:174-236), and no window of a watcher is
\* longer than the ring it is kept in (watcharchive.go:102-110).
THEOREM RequestsTypes == Spec => []RequestsTypeOK
<1>1. IInv => RequestsTypeOK
  <2> SUFFICES ASSUME ToolsOK, DogOK PROVE RequestsTypeOK
    BY DEF IInv
  <2>1. /\ DOMAIN lists = URIs /\ DOMAIN tool = Tools /\ failures \in 0..load.failures
        /\ disturbed \subseteq Tools
    BY DEF ToolsOK
  <2>2. ASSUME NEW t \in Tools
        PROVE  /\ tool[t].pc \in {"new", "get", "got", "done", "failed"}
               /\ tool[t].pc \in {"get", "got"} => tool[t].todo # <<>>
               /\ tool[t].stale \in BOOLEAN /\ tool[t].unresolved \subseteq URIs
    BY DEF ToolsOK, ToolOK, ToolType, AtWork
  <2>3. now \in Nat \ {0} /\ {kicked, quiet} \subseteq Nat
    BY DEF DogOK, DogType
  <2>4. begun \in Seq(Nat)
    <3>1. begun \in Seq(1..now) /\ 1..now \subseteq Nat
      BY <2>3 DEF DogOK, DogType
    <3>2. QED
      BY <3>1, SeqMonotonic
  <2>5. \A w \in DOMAIN watchers : Len(watchers[w].window) <= Window /\ watchers[w].todo \in Seq(BOOLEAN)
    BY WatchersOK DEF Fits, WatcherType
  <2>6. QED
    BY <2>1, <2>2, <2>3, <2>4, <2>5 DEF RequestsTypeOK
<1>2. QED
  BY <1>1, ToolsInvariant, PTL

\* A list without twins has as many keys as requests.
LEMMA KeysOfTwinFree ==
  ASSUME NEW l \in Seq(Requests), TwinFree(l)
  PROVE  Cardinality(Keys(l)) = Len(l)
<1>1. PICK n \in Nat : n = Len(l) /\ DOMAIN l = 1..n
  OBVIOUS
<1>2. PICK f : f = [i \in 1..n |-> l[i].key]
  OBVIOUS
<1>3. Keys(l) = {l[i].key : i \in 1..n}
  BY <1>1 DEF Keys, Entries
<1>4. f \in Surjection(1..n, Keys(l))
  BY <1>2, <1>3 DEF Surjection
<1>5. f \in Injection(1..n, Keys(l))
  <2>1. \A i, j \in 1..n : f[i] = f[j] => i = j
    BY <1>1, <1>2 DEF TwinFree
  <2>2. f \in [1..n -> Keys(l)]
    BY <1>2, <1>3
  <2>3. QED
    BY <2>1, <2>2 DEF Injection, IsInjective
<1>6. IsFiniteSet(1..n) /\ Cardinality(1..n) = n
  BY FS_Interval
<1>7. Cardinality(Keys(l)) = Cardinality(1..n)
  BY <1>4, <1>5, <1>6, FS_Surjection
<1>8. QED
  BY <1>1, <1>6, <1>7

\* requests/api.go:225: for any number of tools at any number of places, however their
\* readings and publications mix, no list has two requests with one key, unless a place
\* could not be resolved.
THEOREM NeverTwins == Spec => []NoTwins
<1>1. IInv => NoTwins
  <2> SUFFICES ASSUME ToolsOK, Twins, Resolved, NEW u \in URIs
               PROVE  Cardinality(Keys(lists[u])) = Len(lists[u])
    BY DEF IInv, NoTwins, Resolved
  <2>1. lists[u] \in Seq(Requests) /\ TwinFree(lists[u])
    BY DEF ToolsOK, Twins
  <2>2. QED
    BY <2>1, KeysOfTwinFree
<1>2. QED
  BY <1>1, ToolsInvariant, PTL

\* A list is only changed by a tool that publishes, by what that tool adds to it or takes
\* from it, unless another published since it read (api.go:103-130, 182-236).
THEOREM ChangesOnlyOwn == Spec => OnlyOwnChange
<1>1. IInv /\ [Next]_vars =>
        [\A u \in URIs : lists'[u] # lists[u] =>
           \E t \in Tools : tool'[t] # tool[t] /\ tool[t].pc = "got" /\ (tool[t].stale \/ OwnChange(t, u))]_vars
  BY OnlyOwnChangeStep DEF IInv
<1>2. QED
  BY <1>1, ToolsInvariant, PTL DEF Spec, OnlyOwnChange

\* What a tool that is done has done.
LEMMA DoneIs ==
  ASSUME ToolsOK, NEW t \in Tools, DoneSoFar(tool[t], lists), tool[t].pc = "done",
         NEW job, job = tool[t].job
  PROVE  /\ job.kind \in {"add", "rm", "nuke"}
         /\ job.kind = "add" => \A i \in DOMAIN job.reqs : There(job.reqs[i], lists)
         /\ job.kind = "rm" => \/ \A i \in DOMAIN job.reqs : ~There(job.reqs[i], lists)
                               \/ \E u \in Places(job) : lists[u] = <<>>
         /\ job.kind = "nuke" => lists[job.uri] = <<>>
<1>1. PICK s : s = tool[t] /\ s.job = job /\ s.pc = "done" /\ AtWork(s) /\ DoneSoFar(s, lists)
  BY DEF ToolsOK, ToolOK
<1>2. Wants(job) /\ job.kind \in {"add", "rm", "nuke"}
  BY <1>1 DEF AtWork, Wants
<1>3. PICK n \in Nat : n = Len(job.reqs) /\ DOMAIN job.reqs = 1..n
  BY <1>2 DEF Wants
<1>4. ASSUME job.kind = "add" PROVE \A i \in DOMAIN job.reqs : There(job.reqs[i], lists)
  <2>1. Len(s.todo) = 0 /\ n - 0 = n
    BY <1>1, <1>4 DEF AtWork
  <2>2. \A i \in 1..(n - 0) : There(job.reqs[i], lists)
    BY <1>1, <1>3, <1>4, <2>1 DEF DoneSoFar
  <2>3. QED
    BY <1>3, <2>1, <2>2
<1>5. ASSUME job.kind = "rm"
      PROVE  \/ \A i \in DOMAIN job.reqs : ~There(job.reqs[i], lists)
             \/ \E u \in Places(job) : lists[u] = <<>>
  <2>1. CASE \E u \in Places(job) : lists[u] = <<>>
    BY <2>1
  <2>2. CASE ~\E u \in Places(job) : lists[u] = <<>>
    <3>1. s.todo = <<>> /\ \A i \in DOMAIN job.reqs : job.reqs[i].at \notin Range(s.todo) => ~There(job.reqs[i], lists)
      BY <1>1, <1>5, <2>2 DEF DoneSoFar
    <3>2. Range(s.todo) = {}
      BY <3>1 DEF Range
    <3>3. QED
      BY <3>1, <3>2
  <2>3. QED
    BY <2>1, <2>2
<1>6. job.kind = "nuke" => lists[job.uri] = <<>>
  BY <1>1 DEF DoneSoFar
<1>7. QED
  BY <1>2, <1>4, <1>5, <1>6

\* requests/api.go:103: a tool that ends without an error has done all it was for, at
\* however many places, if no other tool published at one of them since it started.
THEOREM DoneIfUndisturbed == Spec => []DoneUnlessDisturbed
<1>1. IInv => DoneUnlessDisturbed
  <2> SUFFICES ASSUME ToolsOK, Undisturbed, NEW t \in Tools \ disturbed,
                      tool[t].pc = "done", tool[t].unresolved = {}, NEW job, job = tool[t].job
               PROVE  CASE job.kind = "add" -> \A i \in DOMAIN job.reqs : job.reqs[i].key \in Keys(lists[job.reqs[i].at])
                        [] job.kind = "rm" -> \/ \A i \in DOMAIN job.reqs : ~(job.reqs[i].key \in Keys(lists[job.reqs[i].at]))
                                              \/ \E u \in Places(job) : lists[u] = <<>>
                        [] job.kind = "nuke" -> lists[job.uri] = <<>>
    BY DEF IInv, DoneUnlessDisturbed
  <2>1. DoneSoFar(tool[t], lists)
    BY DEF Undisturbed, Works
  <2>2. /\ job.kind \in {"add", "rm", "nuke"}
        /\ job.kind = "add" => \A i \in DOMAIN job.reqs : job.reqs[i].key \in Keys(lists[job.reqs[i].at])
        /\ job.kind = "rm" => \/ \A i \in DOMAIN job.reqs : ~(job.reqs[i].key \in Keys(lists[job.reqs[i].at]))
                              \/ \E u \in Places(job) : lists[u] = <<>>
        /\ job.kind = "nuke" => lists[job.uri] = <<>>
    BY <2>1, DoneIs DEF There
  <2>3. CASE job.kind = "add"
    BY <2>2, <2>3
  <2>4. CASE job.kind = "rm"
    BY <2>2, <2>4
  <2>5. CASE job.kind = "nuke"
    BY <2>2, <2>5
  <2>6. QED
    BY <2>2, <2>3, <2>4, <2>5
<1>2. QED
  BY <1>1, ToolsInvariant, PTL

\* artop/watcharchive.go:126: whatever the size of the ring, the interval and the grace
\* period, of a stream that reports at least once in every MinInterval since it is watched
\* there is no alarm, with any number of watchers that begin at any time.
THEOREM NoAlarmOnTime == Spec => []NoFalseAlarm
<1>1. IInv => NoFalseAlarm
  <2> SUFFICES ASSUME DogOK, OnTime, heard.count > 0, heard.regular, now - heard.last <= MinInterval
               PROVE  now <= quiet
    <3>1. DogOK => now \in Nat /\ quiet \in Nat
      BY DEF DogOK, DogType
    <3>2. QED
      BY <3>1 DEF IInv, NoFalseAlarm, Regular, Barks
  <2>1. watchers # <<>>
    BY DEF DogOK, DogType
  <2>2. PICK w, b : /\ w = watchers[1] /\ b = begun[1] /\ w \in WatcherType /\ Fits(w, heard, now)
                    /\ NumbersOf(w, b, heard.count, now, kicked, quiet)
                    /\ FirstInTime(w, b, heard.count, now, kicked, quiet)
    BY <2>1, FirstIs DEF OnTime
  <2>3. PICK m, l, t, c, n, k, q, z :
          /\ m = Len(w.window) /\ l = Told(w, b) /\ t = Len(w.todo) /\ c = heard.count
          /\ n = now /\ k = kicked /\ q = quiet /\ z = heard.last
    OBVIOUS
  <2>4. Numbers(b, m, l, t, c, n, k, q) /\ InTime(b, m, l, t, c, n, k, q) /\ c > 0
    BY <2>2, <2>3 DEF NumbersOf, FirstInTime
  <2>5. z \in Nat /\ n - z <= MinInterval
    BY <2>3 DEF DogOK, DogType, HeardType
  <2>6. m > 0 /\ t = 0 => l = z
    <3>1. w.window \in Seq(Nat) /\ w.todo \in Seq(BOOLEAN)
      BY <2>2 DEF WatcherType
    <3>2. (m > 0 => w.window # <<>>) /\ (t = 0 => w.todo = <<>>)
      BY <2>3, <3>1
    <3>3. QED
      BY <2>2, <2>3, <3>2 DEF Fits, Told
  <2>7. n <= q
    BY <2>4, <2>5, <2>6, QuietInTime
  <2>8. QED
    BY <2>3, <2>7
<1>2. QED
  BY <1>1, ToolsInvariant, PTL

\* A stream that was heard and is silent has an alarm when the longest time between two of
\* its messages has passed twice, and no watcher began within the grace period: no kick
\* lasts longer than that (watcharchive.go:112-132).
THEOREM SilenceNoticed == Spec => []SilenceIsNoticed
<1>1. IInv => SilenceIsNoticed
  <2> SUFFICES ASSUME DogOK, heard.count > 0, now > heard.last + 2 * heard.longest, now > Last(begun) + Grace
               PROVE  quiet > 0 /\ now > quiet
    BY DEF IInv, SilenceIsNoticed, Barks
  <2>1. watchers # <<>> /\ quiet > 0 /\ now \in Nat /\ quiet \in Nat
    BY DEF DogOK, DogType
  <2>2. heard.last \in Nat /\ heard.longest \in Nat /\ Grace \in Nat
    BY WatchdogAssumption DEF DogOK, DogType, HeardType
  <2>3. Last(begun) \in Nat
    <3>1. begun \in Seq(1..now) /\ Len(begun) = Len(watchers) /\ watchers \in Seq(WatcherType)
      BY DEF DogOK, DogType
    <3>2. PICK n \in Nat : n = Len(begun) /\ n > 0 /\ DOMAIN begun = 1..n
      BY <2>1, <3>1
    <3>a. n \in DOMAIN begun
      BY <3>2
    <3>3. begun[n] \in Nat
      BY <2>1, <3>1, <3>a, WatchersOK
    <3>4. QED
      BY <2>1, <3>2, <3>3 DEF Last
  <2>4. QED
    BY <2>1, <2>2, <2>3 DEF DogOK, Soon
<1>2. QED
  BY <1>1, ToolsInvariant, PTL
=============================================================================
