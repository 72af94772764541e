------------------------------ MODULE Watchdog ------------------------------
(***************************************************************************)
(* The watchdog of archived streams (artop/watcharchive.go): for every     *)
(* request in every list it is sent, a watcher subscribes to the archived  *)
(* URI and kicks a dog named after it, which barks when it was not kicked  *)
(* for too long.  Watchers never stop; those of one URI kick the same dog. *)
(*                                                                         *)
(* One URI is watched.  Time is counted in ticks, and a goroutine handles  *)
(* what it has before the next.  The dog is external: a kick sets the time *)
(* until which it is quiet, and RLKick kicks at most once in an interval.  *)
(***************************************************************************)
EXTENDS Integers, SequencesExt

CONSTANTS Window,      \* how many report times are remembered (10); three make two differences
          MinInterval, \* the shortest interval (60 s)
          Grace        \* how long the first kick lasts (30 min)

ASSUME WatchdogAssumption ==
  Window \in Nat \ 0..2 /\ {MinInterval, Grace} \subseteq Nat \ {0} /\ Grace > 3 * MinInterval

VARIABLES
  now,
  watchers, \* for each watcher, the times in its window and the messages it has to handle
  kicked,   \* when RLKick last kicked, or 0
  quiet,    \* until when the dog is quiet, or 0 as long as nobody kicked it
  heard,    \* history: the messages that came, and how far apart they were
  begun     \* history: when watchers began

dogVars == <<now, watchers, kicked, quiet, heard, begun>>

DogInit ==
  /\ now = 1 /\ watchers = <<>> /\ kicked = 0 /\ quiet = 0 /\ begun = <<>>
  /\ heard = [count |-> 0, last |-> 0, longest |-> MinInterval, regular |-> TRUE]

\* It subscribes, or gives up.
startWatcher ==
  /\ watchers' = Append(watchers, [window |-> <<>>, todo |-> <<>>])
  /\ quiet' = now + Grace /\ begun' = Append(begun, now)
  /\ UNCHANGED <<now, kicked, heard>>

\* A message on the URI, with or without the payload object of the request.
Message(po) ==
  /\ LET gap == now - (IF heard.count = 0 THEN Head(begun) ELSE heard.last)
     IN  heard' = [count |-> heard.count + 1, last |-> now,
                   longest |-> IF heard.count > 0 /\ gap > heard.longest THEN gap ELSE heard.longest,
                   regular |-> heard.regular /\ po /\ gap <= MinInterval]
  /\ watchers' = [i \in DOMAIN watchers |-> [watchers[i] EXCEPT !.todo = Append(@, po)]]
  /\ UNCHANGED <<now, kicked, quiet, begun>>

\* Faulty variant: the interval is the sum of the differences.
interval_sum(window) ==
  IF Last(window) - Head(window) < MinInterval THEN MinInterval ELSE Last(window) - Head(window)

\* The average difference; of one time alone it is not a number, and less than any.
interval(window) ==
  LET avg == IF Len(window) = 1 THEN 0 ELSE (Last(window) - Head(window)) \div (Len(window) - 1)
  IN  IF avg < MinInterval THEN MinInterval ELSE avg

\* Faulty variant: the ring has one place more.
Reported_over(window) ==
  IF Len(window) > Window THEN Append(Tail(window), now) ELSE Append(window, now)

\* The ring of report times, from the oldest.
Reported(window) ==
  IF Len(window) = Window THEN Append(Tail(window), now) ELSE Append(window, now)

\* Faulty variant: a kick lasts for one interval.
Lasts_once(i) == i

Lasts(i) == 2 * i

\* The dog is kicked if there are two differences, and not too often.
Handle(w) ==
  LET window == Reported(watchers[w].window)
      i == interval(window)
  IN  /\ watchers[w].todo # <<>>
      /\ watchers' = [watchers EXCEPT ![w] = [window |-> window, todo |-> Tail(@.todo)]]
      /\ IF Head(watchers[w].todo) /\ Len(window) > 2 /\ (kicked = 0 \/ now - kicked > i)
         THEN kicked' = now /\ quiet' = now + Lasts(i)
         ELSE UNCHANGED <<kicked, quiet>>
      /\ UNCHANGED <<now, heard, begun>>

Tick ==
  /\ \A w \in DOMAIN watchers : watchers[w].todo = <<>>
  /\ now' = now + 1 /\ UNCHANGED <<watchers, kicked, quiet, heard, begun>>

Barks == quiet > 0 /\ now > quiet
=============================================================================
