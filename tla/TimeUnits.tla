------------------------------ MODULE TimeUnits ------------------------------
(***************************************************************************)
(* Timestamps (common/util.go): which unit a bare number is taken to be in, *)
(* conversion between units in 64-bit arithmetic, and the two kinds of time *)
(* a query may contain.  A time.Time is a number of nanoseconds since 1970, *)
(* without bounds; an int64 is a number that wraps at MaxInt.               *)
(***************************************************************************)
EXTENDS Integers, Sequences

CONSTANTS Base,      \* how many of a unit make one of the next coarser (1000)
          S_HIGH,    \* from here on a number is not in seconds (1/1/2150)
          MaxInt,    \* the largest int64
          SecondsOf  \* length of "m", "h" and "d"

ASSUME UnitAssumption ==
  /\ {Base, S_HIGH, MaxInt} \subseteq Nat
  /\ Base > 1 /\ S_HIGH > 0
  /\ S_HIGH * (Base * Base * Base) <= MaxInt
  /\ SecondsOf \in [{"m", "h", "d"} -> Nat]

Int64 == (-MaxInt - 1)..MaxInt

\* Two's complement: what an int64 holds of n.
Wrap(n) == ((n + MaxInt + 1) % (2 * MaxInt + 2)) - MaxInt - 1

\* Go's division truncates towards zero.
Quot(n, d) == IF n >= 0 THEN n \div d ELSE -((-n) \div d)

UOT_NS == 1
UOT_US == 2
UOT_MS == 3
UOT_S == 4
UnitOfTime == {UOT_NS, UOT_US, UOT_MS, UOT_S}

\* 0 for what is no unit
ParseUOT(units) ==
  CASE units = "ns" -> UOT_NS [] units = "us" -> UOT_US
    [] units = "ms" -> UOT_MS [] units = "s" -> UOT_S [] OTHER -> 0

unitmultiplier ==
  [u \in UnitOfTime |-> CASE u = UOT_NS -> Base * Base * Base
                          [] u = UOT_US -> Base * Base
                          [] u = UOT_MS -> Base
                          [] u = UOT_S -> 1]

MS_HIGH == S_HIGH * Base
US_HIGH == S_HIGH * (Base * Base)

GuessTimeUnit(val) == CASE val < S_HIGH -> UOT_S
                        [] val >= S_HIGH /\ val < MS_HIGH -> UOT_MS
                        [] val >= MS_HIGH /\ val < US_HIGH -> UOT_US
                        [] OTHER -> UOT_NS

\* What a conversion returns: a value, or an error and some value.
Value(n, err) == [val |-> n, err |-> err]

\* Whether a product or a quotient went wrong is judged by its size only.
ConvertTime(t, from, to) ==
  LET Finer(r)  == IF r < t THEN Value(t, TRUE) ELSE Value(r, FALSE)
      Coarse(r) == IF r > t THEN Value(t, TRUE) ELSE Value(r, FALSE)
  IN  CASE from = to -> Value(t, FALSE)
        [] to < from -> Finer(Wrap(t * (unitmultiplier[to] \div unitmultiplier[from])))
        [] OTHER     -> Coarse(Quot(t, unitmultiplier[from] \div unitmultiplier[to]))

\* Time.UnixNano of a time that int64 nanoseconds do not reach.
UnixNano(time) == Wrap(time)

\* Time.Unix rounds down; the other units are taken off UnixNano.
TimeAsUnit(time, unit) ==
  CASE unit = UOT_S -> time \div unitmultiplier[UOT_NS]
    [] unit = UOT_MS -> Quot(UnixNano(time), Base * Base)
    [] unit = UOT_US -> Quot(UnixNano(time), Base)
    [] unit = UOT_NS -> UnixNano(time)
    [] OTHER -> 0

\* time.Unix(sec, nsec)
Unix(sec, nsec) == sec * unitmultiplier[UOT_NS] + nsec

\* Faulty variant: the rest is scaled from seconds.
WithRest_seconds(num, unit, sec, tmp) ==
  LET At(rest) == Value(Unix(sec.val, rest.val), sec.err \/ tmp.err \/ rest.err)
  IN  At(ConvertTime(Wrap(num - tmp.val), UOT_S, UOT_NS))

\* The whole seconds of a number, and what it has left over.
WithRest(num, unit, sec, tmp) ==
  LET At(rest) == Value(Unix(sec.val, rest.val), sec.err \/ tmp.err \/ rest.err)
  IN  At(ConvertTime(Wrap(num - tmp.val), unit, UOT_NS))

\* "1485470183000 ms"
ParseAbsTime(num, unit) ==
  LET Rest(sec) == WithRest(num, unit, sec, ConvertTime(sec.val, UOT_S, unit))
  IN  IF num \in Int64 /\ unit \in UnitOfTime
      THEN Rest(ConvertTime(num, unit, UOT_S)) ELSE Value(0, TRUE)

DurationUnits == {"ns", "us", "ms", "s", "m", "h", "d"}

Nanoseconds(unit) ==
  CASE unit = "ns" -> 1
    [] unit = "us" -> Base
    [] unit = "ms" -> Base * Base
    [] unit = "s" -> unitmultiplier[UOT_NS]
    [] OTHER -> SecondsOf[unit] * unitmultiplier[UOT_NS]

\* "5 minutes": a time.Duration, which is an int64 of nanoseconds.
ParseReltime(num, unit) ==
  IF num \in Int64 /\ unit \in DurationUnits
  THEN Value(Wrap(num * Nanoseconds(unit)), FALSE) ELSE Value(0, TRUE)

AddDurations(d1, d2) == Wrap(d1 + d2)
=============================================================================
