----------------------------- MODULE TimeProofs -----------------------------
(* Theorems about TimeUnits, for any base, any bound of seconds and any      *)
(* width of integers that has room for the bound in nanoseconds.            *)
EXTENDS TimeUnits, TLAPS

LEMMA TimesMonotone ==
  ASSUME NEW a \in Int, NEW b \in Int, NEW c \in Nat, a <= b
  PROVE  a * c <= b * c
<1>1. (b - a) * c >= 0
  <2>1. b - a \in Nat
    OBVIOUS
  <2>2. PICK d \in Nat : d = b - a
    BY <2>1
  <2>3. d * c >= 0
    OBVIOUS
  <2>4. QED
    BY <2>2, <2>3
<1>2. (b - a) * c = b * c - a * c
  OBVIOUS
<1>3. a * c \in Int /\ b * c \in Int
  OBVIOUS
<1>4. QED
  BY <1>1, <1>2, <1>3

LEMMA QuotientExact ==
  ASSUME NEW a \in Nat, NEW b \in Nat \ {0}
  PROVE  (a * b) \div b = a
OBVIOUS

LEMMA WrapFits ==
  ASSUME NEW n \in Int64
  PROVE  Wrap(n) = n
<1>1. MaxInt \in Nat
  BY UnitAssumption
<1>2. n + MaxInt + 1 \in 0..(2 * MaxInt + 1)
  BY <1>1 DEF Int64
<1>3. (n + MaxInt + 1) % (2 * MaxInt + 2) = n + MaxInt + 1
  BY <1>1, <1>2
<1>4. QED
  BY <1>1, <1>3 DEF Wrap, Int64

LEMMA Multipliers ==
  /\ unitmultiplier[UOT_NS] = Base * Base * Base /\ unitmultiplier[UOT_US] = Base * Base
  /\ unitmultiplier[UOT_MS] = Base /\ unitmultiplier[UOT_S] = 1
BY DEF unitmultiplier, UnitOfTime, UOT_NS, UOT_US, UOT_MS, UOT_S

\* How many nanoseconds make one of a unit.
PerUnit(unit) == CASE unit = UOT_NS -> 1 [] unit = UOT_US -> Base
                   [] unit = UOT_MS -> Base * Base [] unit = UOT_S -> Base * Base * Base

LEMMA BaseFacts ==
  /\ Base \in Nat /\ Base > 1 /\ S_HIGH \in Nat /\ S_HIGH > 0 /\ MaxInt \in Nat
  /\ Base * Base \in Nat \ {0} /\ Base * Base * Base \in Nat \ {0}
  /\ S_HIGH * (Base * Base * Base) <= MaxInt
<1>1. Base \in Nat /\ Base > 1 /\ S_HIGH \in Nat /\ S_HIGH > 0 /\ MaxInt \in Nat
  BY UnitAssumption
<1>2. PICK b \in Nat \ {0} : b = Base
  BY <1>1
<1>3. b * b \in Nat \ {0}
  OBVIOUS
<1>4. PICK c \in Nat \ {0} : c = b * b
  BY <1>3
<1>5. c * b \in Nat \ {0}
  OBVIOUS
<1>6. QED
  BY <1>1, <1>2, <1>3, <1>4, <1>5, UnitAssumption

\* The factors ConvertTime divides out of its table are what they should be.
LEMMA Factors ==
  ASSUME NEW u \in UnitOfTime
  PROVE  /\ unitmultiplier[UOT_NS] \div unitmultiplier[u] = PerUnit(u)
         /\ unitmultiplier[u] \div unitmultiplier[UOT_S] = unitmultiplier[u]
         /\ PerUnit(u) \in Nat \ {0} /\ unitmultiplier[u] \in Nat \ {0}
         /\ unitmultiplier[u] * PerUnit(u) = Base * Base * Base
<1>1. PICK b \in Nat \ {0} : b = Base
  BY BaseFacts
<1>2. PICK c \in Nat \ {0} : c = b * b
  BY <1>1, BaseFacts
<1>3. PICK d \in Nat \ {0} : d = c * b
  BY <1>1, <1>2, BaseFacts
<1>4. /\ unitmultiplier[UOT_NS] = d /\ unitmultiplier[UOT_US] = c
      /\ unitmultiplier[UOT_MS] = b /\ unitmultiplier[UOT_S] = 1
  BY <1>1, <1>2, <1>3, Multipliers
<1>5. d \div d = 1 /\ d \div 1 = d /\ c \div 1 = c /\ b \div 1 = b /\ 1 \div 1 = 1
  OBVIOUS
<1>6. d \div c = b
  <2>1. (b * c) \div c = b
    BY QuotientExact
  <2>2. b * c = d
    BY <1>3
  <2>3. QED
    BY <2>1, <2>2
<1>7. d \div b = c
  BY <1>3, QuotientExact
<1>8. /\ PerUnit(UOT_NS) = 1 /\ PerUnit(UOT_US) = b /\ PerUnit(UOT_MS) = c /\ PerUnit(UOT_S) = d
  BY <1>1, <1>2, <1>3 DEF PerUnit, UOT_NS, UOT_US, UOT_MS, UOT_S
<1>9. Base * Base * Base = d
  BY <1>1, <1>2, <1>3
<1>10. d * 1 = d /\ 1 * d = d /\ b * c = d /\ c * b = d
  BY <1>3
<1> DEFINE Good(v) ==
             /\ unitmultiplier[UOT_NS] \div unitmultiplier[v] = PerUnit(v)
             /\ unitmultiplier[v] \div unitmultiplier[UOT_S] = unitmultiplier[v]
             /\ PerUnit(v) \in Nat \ {0} /\ unitmultiplier[v] \in Nat \ {0}
             /\ unitmultiplier[v] * PerUnit(v) = Base * Base * Base
<1>11. Good(UOT_NS)
  BY <1>4, <1>5, <1>8, <1>9, <1>10
<1>12. Good(UOT_US)
  BY <1>4, <1>5, <1>6, <1>8, <1>9, <1>10
<1>13. Good(UOT_MS)
  BY <1>4, <1>5, <1>7, <1>8, <1>9, <1>10
<1>14. Good(UOT_S)
  BY <1>4, <1>5, <1>8, <1>9, <1>10
<1>15. Good(u)
  <2> HIDE DEF Good
  <2> QED
    BY <1>11, <1>12, <1>13, <1>14 DEF UnitOfTime
<1>16. QED
  BY <1>15

\* A product that fits is no error, and neither is a quotient.
LEMMA ToFiner ==
  ASSUME NEW from \in UnitOfTime, NEW to \in UnitOfTime, to < from, NEW t \in Nat, NEW k \in Nat \ {0},
         k = unitmultiplier[to] \div unitmultiplier[from], t * k <= MaxInt
  PROVE  ConvertTime(t, from, to) = Value(t * k, FALSE)
<1>1. PICK r \in Nat : r = t * k
  OBVIOUS
<1>2. t <= r
  <2>1. 1 * t <= k * t
    BY TimesMonotone
  <2>2. QED
    BY <1>1, <2>1
<1>3. Wrap(r) = r
  BY <1>1, WrapFits, BaseFacts DEF Int64
<1>4. from # to
  BY DEF UnitOfTime, UOT_NS, UOT_US, UOT_MS, UOT_S
<1>5. ConvertTime(t, from, to) = IF Wrap(t * k) < t THEN Value(t, TRUE) ELSE Value(Wrap(t * k), FALSE)
  BY <1>4 DEF ConvertTime
<1>6. Wrap(t * k) = r /\ ~(r < t)
  BY <1>1, <1>2, <1>3
<1>7. ConvertTime(t, from, to) = Value(r, FALSE)
  BY <1>5, <1>6, Zenon
<1>8. QED
  BY <1>1, <1>7

LEMMA ToCoarser ==
  ASSUME NEW from \in UnitOfTime, NEW to \in UnitOfTime, from < to, NEW t \in Nat, NEW k \in Nat \ {0},
         k = unitmultiplier[from] \div unitmultiplier[to]
  PROVE  ConvertTime(t, from, to) = Value(t \div k, FALSE)
<1>1. t \div k \in Nat /\ t \div k <= t
  OBVIOUS
<1>2. Quot(t, k) = t \div k
  BY DEF Quot
<1>3. from # to /\ ~(to < from)
  BY DEF UnitOfTime, UOT_NS, UOT_US, UOT_MS, UOT_S
<1>4. ConvertTime(t, from, to) = IF Quot(t, k) > t THEN Value(t, TRUE) ELSE Value(Quot(t, k), FALSE)
  BY <1>3 DEF ConvertTime
<1>5. ~(Quot(t, k) > t)
  BY <1>1, <1>2
<1>6. QED
  BY <1>2, <1>4, <1>5, Zenon

\* From any unit to nanoseconds.
LEMMA ToNanoseconds ==
  ASSUME NEW u \in UnitOfTime, NEW t \in Nat, t * PerUnit(u) <= MaxInt
  PROVE  ConvertTime(t, u, UOT_NS) = Value(t * PerUnit(u), FALSE)
<1>1. UOT_NS \in UnitOfTime
  BY DEF UnitOfTime
<1>2. CASE u = UOT_NS
  <2>1. PerUnit(u) = 1
    BY <1>2 DEF PerUnit, UOT_NS, UOT_US, UOT_MS, UOT_S
  <2>2. ConvertTime(t, u, UOT_NS) = Value(t, FALSE)
    BY <1>2 DEF ConvertTime, UOT_NS
  <2>3. t * PerUnit(u) = t
    BY <2>1
  <2>4. QED
    BY <2>2, <2>3, Zenon
<1>3. CASE u # UOT_NS
  <2>1. UOT_NS < u
    BY <1>3 DEF UnitOfTime, UOT_NS, UOT_US, UOT_MS, UOT_S
  <2>2. PICK k \in Nat \ {0} : k = PerUnit(u) /\ k = unitmultiplier[UOT_NS] \div unitmultiplier[u]
    BY Factors
  <2>3. ConvertTime(t, u, UOT_NS) = Value(t * k, FALSE)
    BY <1>1, <2>1, <2>2, ToFiner
  <2>4. QED
    BY <2>2, <2>3, Zenon
<1>4. QED
  BY <1>2, <1>3

\* common/util.go: a number between the epoch and the largest int64, in the unit it is
\* taken to be in, comes out as nanoseconds exactly: the product never wraps, and the
\* test for a wrapped product never refuses it.
THEOREM GuessedIsExact ==
  ASSUME NEW t \in 0..MaxInt
  PROVE  ConvertTime(t, GuessTimeUnit(t), UOT_NS) = Value(t * PerUnit(GuessTimeUnit(t)), FALSE)
<1> DEFINE g == GuessTimeUnit(t)
<1>1. PICK b \in Nat \ {0} : b = Base
  BY BaseFacts
<1>2. PICK c \in Nat \ {0} : c = b * b
  BY <1>1, BaseFacts
<1>3. PICK d \in Nat \ {0} : d = c * b
  BY <1>1, <1>2, BaseFacts
<1>4. PICK h \in Nat : h = S_HIGH
  BY BaseFacts
<1>5. PICK x \in Nat : x = h * d /\ x <= MaxInt
  BY <1>1, <1>2, <1>3, <1>4, BaseFacts
<1>6. /\ PerUnit(UOT_NS) = 1 /\ PerUnit(UOT_US) = b /\ PerUnit(UOT_MS) = c /\ PerUnit(UOT_S) = d
  BY <1>1, <1>2, <1>3 DEF PerUnit, UOT_NS, UOT_US, UOT_MS, UOT_S
<1>7. MS_HIGH = h * b /\ US_HIGH = h * c
  BY <1>1, <1>2, <1>4 DEF MS_HIGH, US_HIGH
<1>8. t \in Nat /\ t <= MaxInt /\ MaxInt \in Nat
  BY BaseFacts
<1>9. g \in UnitOfTime /\ t * PerUnit(g) <= MaxInt
  <2>1. CASE t < h
    <3>1. g = UOT_S
      BY <1>4, <1>7, <1>8, <2>1, BaseFacts DEF GuessTimeUnit
    <3>2. t * d <= h * d
      BY <1>8, <2>1, TimesMonotone
    <3>3. t * d <= MaxInt
      BY <1>5, <1>8, <3>2
    <3>4. QED
      BY <1>6, <3>1, <3>3 DEF UnitOfTime
  <2>2. CASE ~(t < h) /\ t < h * b
    <3>1. g = UOT_MS
      BY <1>4, <1>7, <1>8, <2>2 DEF GuessTimeUnit
    <3>2. t * c <= (h * b) * c
      BY <1>8, <2>2, TimesMonotone
    <3>3. (h * b) * c = h * d
      BY <1>3
    <3>4. t * c <= MaxInt
      BY <1>5, <1>8, <3>2, <3>3
    <3>5. QED
      BY <1>6, <3>1, <3>4 DEF UnitOfTime
  <2>3. CASE ~(t < h) /\ ~(t < h * b) /\ t < h * c
    <3>1. g = UOT_US
      BY <1>4, <1>7, <1>8, <2>3 DEF GuessTimeUnit
    <3>2. t * b <= (h * c) * b
      BY <1>8, <2>3, TimesMonotone
    <3>3. (h * c) * b = h * d
      BY <1>3
    <3>4. t * b <= MaxInt
      BY <1>5, <1>8, <3>2, <3>3
    <3>5. QED
      BY <1>6, <3>1, <3>4 DEF UnitOfTime
  <2>4. CASE ~(t < h) /\ ~(t < h * b) /\ ~(t < h * c)
    <3>1. g = UOT_NS
      BY <1>4, <1>7, <1>8, <2>4 DEF GuessTimeUnit
    <3>2. QED
      BY <1>6, <1>8, <3>1 DEF UnitOfTime
  <2>5. QED
    BY <2>1, <2>2, <2>3, <2>4
<1>10. PICK u \in UnitOfTime : u = g /\ t * PerUnit(u) <= MaxInt
  BY <1>9, Zenon
<1>11. ConvertTime(t, u, UOT_NS) = Value(t * PerUnit(u), FALSE)
  BY <1>8, <1>10, ToNanoseconds
<1>12. QED
  BY <1>10, <1>11, Zenon

\* "1485470183000 ms": whole seconds and what is left over are converted apart and put
\* together again, and give the instant that was written, for any number an int64 holds
\* that is not negative.
THEOREM WrittenIsExact ==
  ASSUME NEW num \in 0..MaxInt, NEW unit \in UnitOfTime
  PROVE  ParseAbsTime(num, unit) = Value(num * PerUnit(unit), FALSE)
<1>1. PICK m \in Nat \ {0} : m = unitmultiplier[unit] /\ m = unitmultiplier[unit] \div unitmultiplier[UOT_S]
  BY Factors
<1>2. PICK p \in Nat \ {0} : p = PerUnit(unit)
  BY Factors
<1>3. PICK d \in Nat \ {0} : d = Base * Base * Base /\ d <= MaxInt
  <2>1. PICK e \in Nat \ {0} : e = Base * Base * Base
    BY BaseFacts
  <2>2. PICK h \in Nat \ {0} : h = S_HIGH
    BY BaseFacts
  <2>3. 1 * e <= h * e
    BY TimesMonotone
  <2>4. h * e <= MaxInt /\ MaxInt \in Nat
    BY <2>1, <2>2, BaseFacts
  <2>5. e <= MaxInt
    BY <2>3, <2>4
  <2>6. QED
    BY <2>1, <2>5
<1>4. m * p = d
  BY <1>1, <1>2, <1>3, Factors
<1>5. num \in Nat /\ num <= MaxInt /\ MaxInt \in Nat /\ num \in Int64
  BY BaseFacts DEF Int64
<1>6. PICK q \in Nat : q = num \div m
  BY <1>5
<1>7. PICK r \in Nat : r = num - q * m /\ r < m
  <2>1. num % m \in Nat /\ num % m < m
    BY <1>5
  <2>2. num = m * (num \div m) + (num % m)
    BY <1>5
  <2>3. num % m = num - q * m
    BY <1>5, <1>6, <2>1, <2>2
  <2>4. QED
    BY <2>1, <2>3
<1>8. PICK y \in Nat : y = q * m /\ y <= MaxInt
  BY <1>5, <1>6, <1>7
<1>9. UOT_S \in UnitOfTime /\ (unit # UOT_S => unit < UOT_S)
  BY DEF UnitOfTime, UOT_NS, UOT_US, UOT_MS, UOT_S
<1>10. ConvertTime(num, unit, UOT_S) = Value(q, FALSE)
  <2>1. CASE unit = UOT_S
    <3>1. m = 1
      BY <1>1, <2>1, Multipliers
    <3>2. q = num
      BY <1>5, <1>6, <3>1
    <3>3. ConvertTime(num, unit, UOT_S) = Value(num, FALSE)
      BY <2>1 DEF ConvertTime, UOT_S
    <3>4. QED
      BY <3>2, <3>3
  <2>2. CASE unit # UOT_S
    <3>1. unit < UOT_S
      BY <1>9, <2>2
    <3>2. ConvertTime(num, unit, UOT_S) = Value(num \div m, FALSE)
      BY <1>1, <1>5, <1>9, <3>1, ToCoarser, ZenonT(40)
    <3>3. QED
      BY <1>6, <3>2
  <2>3. QED
    BY <2>1, <2>2
<1>11. ConvertTime(q, UOT_S, unit) = Value(y, FALSE)
  <2>1. CASE unit = UOT_S
    <3>1. m = 1
      BY <1>1, <2>1, Multipliers
    <3>2. q = y
      BY <1>8, <3>1
    <3>3. ConvertTime(q, UOT_S, unit) = Value(q, FALSE)
      BY <2>1 DEF ConvertTime, UOT_S
    <3>4. QED
      BY <3>2, <3>3
  <2>2. CASE unit # UOT_S
    <3>1. unit < UOT_S /\ q * m <= MaxInt
      BY <1>8, <1>9, <2>2
    <3>2. ConvertTime(q, UOT_S, unit) = Value(q * m, FALSE)
      BY <1>1, <1>9, <3>1, ToFiner, ZenonT(40)
    <3>3. QED
      BY <1>8, <3>2, Zenon
  <2>3. QED
    BY <2>1, <2>2
<1>12. PICK z \in Nat : z = r * p /\ z <= MaxInt
  <2>1. r * p <= m * p
    BY <1>7, TimesMonotone
  <2>2. PICK z \in Nat : z = r * p
    OBVIOUS
  <2>3. z <= MaxInt
    BY <1>3, <1>4, <1>5, <2>1, <2>2
  <2>4. QED
    BY <2>2, <2>3
<1>13. ConvertTime(Wrap(num - y), unit, UOT_NS) = Value(z, FALSE)
  <2>1. num - y = r
    BY <1>5, <1>7, <1>8
  <2>2. r \in Int64
    BY <1>5, <1>7, <1>8 DEF Int64
  <2>3. Wrap(num - y) = r
    BY <2>1, <2>2, WrapFits
  <2>4. ConvertTime(r, unit, UOT_NS) = Value(r * PerUnit(unit), FALSE)
    BY <1>2, <1>12, ToNanoseconds
  <2>5. r * PerUnit(unit) = z
    BY <1>2, <1>12
  <2>6. QED
    BY <2>3, <2>4, <2>5
<1>14. Unix(q, z) = num * p
  <2>1. unitmultiplier[UOT_NS] = d
    BY <1>3, Multipliers
  <2>2. q * d = (q * m) * p
    BY <1>4
  <2>3. (q * m) * p + r * p = (q * m + r) * p
    OBVIOUS
  <2>4. q * m + r = num
    BY <1>5, <1>7, <1>8
  <2>5. Unix(q, z) = q * d + z
    BY <2>1 DEF Unix
  <2>6. QED
    BY <1>12, <2>2, <2>3, <2>4, <2>5
<1>15. /\ Value(q, FALSE).val = q /\ ~Value(q, FALSE).err
       /\ Value(y, FALSE).val = y /\ ~Value(y, FALSE).err
       /\ Value(z, FALSE).val = z /\ ~Value(z, FALSE).err
  BY DEF Value
<1>16. ParseAbsTime(num, unit) = Value(Unix(q, z), FALSE)
  <2>1. ParseAbsTime(num, unit) =
          WithRest(num, unit, Value(q, FALSE), Value(y, FALSE))
    BY <1>5, <1>10, <1>11, <1>15 DEF ParseAbsTime
  <2>2. WithRest(num, unit, Value(q, FALSE), Value(y, FALSE)) =
          Value(Unix(q, z), FALSE \/ FALSE \/ FALSE)
    BY <1>13, <1>15 DEF WithRest
  <2>3. QED
    BY <2>1, <2>2
<1>17. QED
  BY <1>2, <1>14, <1>16

\* A number with a unit, whatever it is, is the nanoseconds it says or an error: a negative
\* one that is not whole seconds is refused by the test for a quotient that is too big.
THEOREM WrittenOrRefused ==
  ASSUME NEW num, NEW unit, ~ParseAbsTime(num, unit).err
  PROVE  num \in Int64 /\ unit \in UnitOfTime /\ ParseAbsTime(num, unit).val = num * PerUnit(unit)
<1>1. num \in Int64 /\ unit \in UnitOfTime
  BY DEF ParseAbsTime, Value
<1>2. num \in Int /\ num <= MaxInt /\ MaxInt \in Nat
  BY <1>1, BaseFacts DEF Int64
<1>3. CASE num >= 0
  <2>1. num \in 0..MaxInt
    BY <1>2, <1>3
  <2>2. PICK v : v = num * PerUnit(unit) /\ ParseAbsTime(num, unit) = Value(v, FALSE)
    BY <1>1, <2>1, WrittenIsExact
  <2>3. QED
    BY <1>1, <2>2 DEF Value
<1> DEFINE sec == ConvertTime(num, unit, UOT_S)
           tmp == ConvertTime(sec.val, UOT_S, unit)
           rest == ConvertTime(Wrap(num - tmp.val), unit, UOT_NS)
<1>4. ParseAbsTime(num, unit) = Value(Unix(sec.val, rest.val), sec.err \/ tmp.err \/ rest.err)
  BY <1>1 DEF ParseAbsTime, WithRest
<1>5. CASE num < 0 /\ unit # UOT_S
  <2>1. PICK m \in Nat \ {0} : m = unitmultiplier[unit] /\ m = unitmultiplier[unit] \div unitmultiplier[UOT_S]
    BY <1>1, Factors
  <2>2. m > 1
    <3>1. PICK b \in Nat : b = Base /\ b > 1
      BY BaseFacts
    <3>2. PICK c \in Nat : c = b * b /\ c > 1
      <4>1. 1 * b <= b * b
        BY <3>1, TimesMonotone
      <4>2. QED
        BY <3>1, <4>1
    <3>3. PICK d \in Nat : d = c * b /\ d > 1
      <4>1. 1 * b <= c * b
        BY <3>1, <3>2, TimesMonotone
      <4>2. QED
        BY <3>1, <4>1
    <3>4. /\ unitmultiplier[UOT_NS] = d /\ unitmultiplier[UOT_US] = c
          /\ unitmultiplier[UOT_MS] = b /\ unitmultiplier[UOT_S] = 1
      BY <3>1, <3>2, <3>3, Multipliers
    <3>5. QED
      BY <1>1, <1>5, <2>1, <3>1, <3>2, <3>3, <3>4 DEF UnitOfTime
  <2>3. PICK n \in Nat : n = -num /\ n > 0
    BY <1>2, <1>5
  <2>4. PICK q \in Nat : q = n \div m
    BY <2>3
  <2>5. q < n
    <3>1. q * m <= n
      <4>1. n % m \in Nat /\ n = m * (n \div m) + (n % m)
        OBVIOUS
      <4>2. PICK r \in Nat, y \in Nat : r = n % m /\ y = q * m
        BY <4>1
      <4>3. n = y + r
        BY <2>4, <4>1, <4>2
      <4>4. QED
        BY <4>2, <4>3
    <3>2. 2 * q <= m * q
      BY <2>2, TimesMonotone
    <3>3. PICK y \in Nat : y = q * m
      OBVIOUS
    <3>4. 2 * q <= y /\ y <= n
      BY <3>1, <3>2, <3>3
    <3>5. QED
      BY <2>3, <3>4
  <2>6. Quot(num, m) = -q
    BY <1>2, <1>5, <2>3, <2>4 DEF Quot
  <2>7. UOT_S \in UnitOfTime /\ unit < UOT_S
    BY <1>1, <1>5 DEF UnitOfTime, UOT_NS, UOT_US, UOT_MS, UOT_S
  <2>8. unit # UOT_S /\ ~(UOT_S < unit)
    BY <1>1, <2>7 DEF UnitOfTime, UOT_NS, UOT_US, UOT_MS, UOT_S
  <2>9. sec = IF Quot(num, m) > num THEN Value(num, TRUE) ELSE Value(Quot(num, m), FALSE)
    BY <2>1, <2>8 DEF ConvertTime
  <2>10. Quot(num, m) > num
    BY <1>2, <2>3, <2>5, <2>6
  <2>11. sec = Value(num, TRUE)
    BY <2>9, <2>10
  <2>12. sec.err
    BY <2>11 DEF Value
  <2>13. ParseAbsTime(num, unit).err
    <3> HIDE DEF sec, tmp, rest
    <3>1. ParseAbsTime(num, unit).err = (sec.err \/ tmp.err \/ rest.err)
      BY <1>4 DEF Value
    <3>2. QED
      BY <2>12, <3>1
  <2>14. QED
    BY <2>13
<1>6. CASE num < 0 /\ unit = UOT_S
  <2>1. ConvertTime(num, UOT_S, UOT_S) = Value(num, FALSE)
    BY DEF ConvertTime, UOT_S
  <2>2. sec.val = num /\ tmp.val = num
    BY <1>6, <2>1 DEF Value
  <2>3. Wrap(num - tmp.val) = 0
    <3>1. num - num = 0 /\ 0 \in Int64
      BY <1>2 DEF Int64
    <3>2. QED
      BY <2>2, <3>1, WrapFits
  <2>4. rest = Value(0 * PerUnit(unit), FALSE)
    <3>1. PerUnit(unit) \in Nat
      BY <1>1, Factors
    <3>2. 0 * PerUnit(unit) <= MaxInt
      BY <1>2, <3>1
    <3>3. ConvertTime(0, unit, UOT_NS) = Value(0 * PerUnit(unit), FALSE)
      BY <1>1, <3>2, ToNanoseconds
    <3>4. QED
      BY <2>3, <3>3
  <2>5. rest.val = 0
    BY <1>1, <2>4, Factors DEF Value
  <2>6. PICK d \in Nat : d = Base * Base * Base /\ unitmultiplier[UOT_NS] = d /\ PerUnit(unit) = d
    BY <1>6, BaseFacts, Multipliers DEF PerUnit, UOT_NS, UOT_US, UOT_MS, UOT_S
  <2>7. Unix(sec.val, rest.val) = num * d + 0
    BY <2>2, <2>5, <2>6 DEF Unix
  <2>8. num * d + 0 = num * d
    BY <1>2, <2>6
  <2>9. ParseAbsTime(num, unit).val = num * d
    <3> HIDE DEF sec, tmp, rest
    <3>1. QED
      BY <1>4, <2>7, <2>8 DEF Value
  <2>10. QED
    BY <1>1, <2>6, <2>9
<1>7. QED
  BY <1>2, <1>3, <1>5, <1>6

-----------------------------------------------------------------------------
(* What an int64 makes of numbers.                                          *)

\* Two numbers that an int64 does not tell apart.
Same(a, b) == \E k \in Int : a = b + k * (2 * MaxInt + 2)

LEMMA SameItself ==
  ASSUME NEW a \in Int
  PROVE  Same(a, a)
<1>1. a = a + 0 * (2 * MaxInt + 2)
  BY BaseFacts
<1>2. QED
  BY <1>1 DEF Same

LEMMA SameSums ==
  ASSUME NEW a \in Int, NEW b \in Int, NEW c \in Int, NEW d \in Int, Same(a, b), Same(c, d)
  PROVE  Same(a + c, b + d)
<1>1. PICK m \in Nat : m = 2 * MaxInt + 2
  BY BaseFacts
<1>2. PICK k \in Int, l \in Int : a = b + k * m /\ c = d + l * m
  BY <1>1 DEF Same
<1>3. (k + l) * m = k * m + l * m
  OBVIOUS
<1>4. PICK x, y \in Int : x = k * m /\ y = l * m
  OBVIOUS
<1>5. a + c = (b + d) + (k + l) * m
  BY <1>2, <1>3, <1>4
<1>6. QED
  BY <1>1, <1>5 DEF Same

LEMMA SameOfSame ==
  ASSUME NEW a \in Int, NEW b \in Int, NEW c \in Int, Same(a, b), Same(b, c)
  PROVE  Same(a, c)
<1>1. PICK m \in Nat : m = 2 * MaxInt + 2
  BY BaseFacts
<1>2. PICK k \in Int, l \in Int : a = b + k * m /\ b = c + l * m
  BY <1>1 DEF Same
<1>3. (k + l) * m = k * m + l * m
  OBVIOUS
<1>4. PICK x, y \in Int : x = k * m /\ y = l * m
  OBVIOUS
<1>5. a = c + (k + l) * m
  BY <1>2, <1>3, <1>4
<1>6. QED
  BY <1>1, <1>5 DEF Same

LEMMA WrapIsSame ==
  ASSUME NEW n \in Int
  PROVE  Wrap(n) \in Int64 /\ Same(Wrap(n), n)
<1>1. PICK m \in Nat \ {0} : m = 2 * MaxInt + 2 /\ MaxInt \in Nat
  BY BaseFacts
<1>2. PICK x \in Int : x = n + MaxInt + 1
  BY <1>1
<1>3. x % m \in 0..(m - 1) /\ x \div m \in Int /\ x = m * (x \div m) + (x % m)
  OBVIOUS
<1>4. PICK r \in 0..(m - 1), q \in Int : r = x % m /\ q = x \div m
  BY <1>3
<1>5. PICK y \in Int : y = q * m
  OBVIOUS
<1>6. (-q) * m = -y
  BY <1>5
<1>7. x = y + r
  BY <1>3, <1>4, <1>5
<1>8. Wrap(n) = r - MaxInt - 1
  BY <1>1, <1>2, <1>4 DEF Wrap
<1>9. Wrap(n) \in Int64
  BY <1>1, <1>4, <1>8 DEF Int64
<1>10. Wrap(n) = n + (-q) * m
  BY <1>1, <1>2, <1>4, <1>6, <1>7, <1>8
<1>11. -q \in Int
  OBVIOUS
<1>12. QED
  BY <1>1, <1>9, <1>10, <1>11 DEF Same

\* Within an int64 they are one number.
LEMMA SameFits ==
  ASSUME NEW a \in Int64, NEW b \in Int64, Same(a, b)
  PROVE  a = b
<1>1. PICK m \in Nat \ {0} : m = 2 * MaxInt + 2 /\ MaxInt \in Nat
  BY BaseFacts
<1>2. PICK k \in Int : a = b + k * m
  BY <1>1 DEF Same
<1>3. PICK y \in Int : y = k * m /\ a = b + y
  BY <1>2, <1>1 DEF Int64
<1>4. y < m /\ y > -m
  BY <1>1, <1>3 DEF Int64
<1>5. k < 1
  <2>1. k >= 1 => 1 * m <= k * m
    BY TimesMonotone
  <2>2. QED
    BY <1>3, <1>4, <2>1
<1>6. k > -1
  <2>1. k <= -1 => k * m <= (-1) * m
    BY TimesMonotone
  <2>2. QED
    BY <1>3, <1>4, <2>1
<1>7. k = 0
  BY <1>5, <1>6
<1>8. QED
  BY <1>2, <1>7 DEF Int64

\* A number of nanoseconds, late enough to be taken for one, stays what it is.
LEMMA NanosecondsStay ==
  ASSUME NEW t \in US_HIGH..MaxInt
  PROVE  ConvertTime(t, GuessTimeUnit(t), UOT_NS) = Value(t, FALSE)
<1>1. PICK b, h \in Nat \ {0} : b = Base /\ h = S_HIGH
  BY BaseFacts
<1>2. PICK x, y \in Nat : x = h * b /\ y = h * (b * b) /\ h <= x /\ x <= y
  <2>1. 1 * h <= b * h
    BY TimesMonotone
  <2>2. PICK x \in Nat : x = h * b
    OBVIOUS
  <2>3. 1 * x <= b * x
    BY TimesMonotone
  <2>4. PICK y \in Nat : y = b * x
    OBVIOUS
  <2>5. y = h * (b * b)
    BY <2>2, <2>4
  <2>6. QED
    BY <2>1, <2>2, <2>3, <2>4, <2>5
<1>3. MS_HIGH = x /\ US_HIGH = y
  BY <1>1, <1>2 DEF MS_HIGH, US_HIGH
<1>4. t \in Int /\ t >= y
  BY <1>3, BaseFacts
<1>5. ~(t < S_HIGH) /\ ~(t < MS_HIGH) /\ ~(t < US_HIGH)
  BY <1>1, <1>2, <1>3, <1>4
<1>6. GuessTimeUnit(t) = UOT_NS
  BY <1>5 DEF GuessTimeUnit
<1>7. QED
  BY <1>6 DEF ConvertTime, UOT_NS

-----------------------------------------------------------------------------
(* Conversion of what is sent keeps the order.                              *)

LEMMA DivMonotone ==
  ASSUME NEW a \in Int, NEW b \in Int, a <= b, NEW d \in Nat \ {0}
  PROVE  a \div d \in Int /\ b \div d \in Int /\ a \div d <= b \div d
<1>1. a % d \in 0..(d - 1) /\ a \div d \in Int /\ a = d * (a \div d) + (a % d)
  OBVIOUS
<1>2. b % d \in 0..(d - 1) /\ b \div d \in Int /\ b = d * (b \div d) + (b % d)
  OBVIOUS
<1>3. PICK q \in Int, r \in 0..(d - 1) : q = a \div d /\ r = a % d
  BY <1>1
<1>4. PICK p \in Int, s \in 0..(d - 1) : p = b \div d /\ s = b % d
  BY <1>2
<1>5. PICK x, y \in Int : x = q * d /\ y = p * d
  OBVIOUS
<1>6. a = x + r /\ b = y + s
  BY <1>1, <1>2, <1>3, <1>4, <1>5
<1>7. ASSUME p < q PROVE FALSE
  <2>1. p + 1 \in Int /\ p + 1 <= q
    BY <1>7
  <2>2. (p + 1) * d <= q * d
    BY <2>1, TimesMonotone
  <2>3. (p + 1) * d = y + d
    BY <1>5
  <2>4. y + d <= x
    BY <1>5, <2>2, <2>3
  <2>5. QED
    BY <1>6, <2>4
<1>8. QED
  BY <1>3, <1>4, <1>7

LEMMA QuotMonotone ==
  ASSUME NEW a \in Int, NEW b \in Int, a <= b, NEW d \in Nat \ {0}
  PROVE  Quot(a, d) \in Int /\ Quot(b, d) \in Int /\ Quot(a, d) <= Quot(b, d)
<1>1. CASE a >= 0
  <2>1. Quot(a, d) = a \div d /\ Quot(b, d) = b \div d
    BY <1>1 DEF Quot
  <2>2. QED
    BY <2>1, DivMonotone
<1>2. CASE b < 0
  <2>1. -a \in Int /\ -b \in Int /\ -b <= -a /\ ~(a >= 0) /\ ~(b >= 0)
    BY <1>2
  <2>2. PICK x, y \in Int : x = (-a) \div d /\ y = (-b) \div d /\ y <= x
    BY <2>1, DivMonotone
  <2>3. Quot(a, d) = -x /\ Quot(b, d) = -y
    BY <2>1, <2>2 DEF Quot
  <2>4. QED
    BY <2>2, <2>3
<1>3. CASE a < 0 /\ b >= 0
  <2>1. -a \in Int /\ 0 <= -a /\ ~(a >= 0)
    BY <1>3
  <2>2. 0 \div d = 0
    OBVIOUS
  <2>3. PICK x \in Int : x = (-a) \div d /\ 0 <= x
    BY <2>1, <2>2, DivMonotone
  <2>4. PICK y \in Int : y = b \div d /\ 0 <= y
    BY <1>3, <2>2, DivMonotone
  <2>5. Quot(a, d) = -x /\ Quot(b, d) = y
    BY <1>3, <2>1, <2>3, <2>4 DEF Quot
  <2>6. QED
    BY <2>3, <2>4, <2>5
<1>4. QED
  BY <1>1, <1>2, <1>3

\* Of two times that fit an int64, the earlier is sent as the smaller number.
LEMMA TimeAsUnitMonotone ==
  ASSUME NEW a \in Int64, NEW b \in Int64, a <= b, NEW unit
  PROVE  TimeAsUnit(a, unit) \in Int /\ TimeAsUnit(b, unit) \in Int /\ TimeAsUnit(a, unit) <= TimeAsUnit(b, unit)
<1>1. a \in Int /\ b \in Int
  BY BaseFacts DEF Int64
<1>2. UnixNano(a) = a /\ UnixNano(b) = b
  BY WrapFits DEF UnixNano
<1>3. unitmultiplier[UOT_NS] \in Nat \ {0} /\ Base * Base \in Nat \ {0} /\ Base \in Nat \ {0}
  <2>1. UOT_NS \in UnitOfTime /\ UOT_US \in UnitOfTime
    BY DEF UnitOfTime
  <2>2. unitmultiplier[UOT_NS] \in Nat \ {0} /\ unitmultiplier[UOT_US] \in Nat \ {0}
    BY <2>1, Factors
  <2>3. unitmultiplier[UOT_US] = Base * Base
    BY Multipliers
  <2>4. QED
    BY <2>2, <2>3, BaseFacts
<1>4. CASE unit = UOT_S
  <2>1. TimeAsUnit(a, unit) = a \div unitmultiplier[UOT_NS] /\ TimeAsUnit(b, unit) = b \div unitmultiplier[UOT_NS]
    BY <1>4 DEF TimeAsUnit, UOT_S, UOT_MS, UOT_US, UOT_NS
  <2>2. QED
    BY <1>1, <1>3, <2>1, DivMonotone
<1>5. CASE unit = UOT_MS
  <2>1. TimeAsUnit(a, unit) = Quot(a, Base * Base) /\ TimeAsUnit(b, unit) = Quot(b, Base * Base)
    BY <1>2, <1>5 DEF TimeAsUnit, UOT_S, UOT_MS, UOT_US, UOT_NS
  <2>2. QED
    BY <1>1, <1>3, <2>1, QuotMonotone
<1>6. CASE unit = UOT_US
  <2>1. TimeAsUnit(a, unit) = Quot(a, Base) /\ TimeAsUnit(b, unit) = Quot(b, Base)
    BY <1>2, <1>6 DEF TimeAsUnit, UOT_S, UOT_MS, UOT_US, UOT_NS
  <2>2. QED
    BY <1>1, <1>3, <2>1, QuotMonotone
<1>7. CASE unit = UOT_NS
  <2>1. TimeAsUnit(a, unit) = a /\ TimeAsUnit(b, unit) = b
    BY <1>2, <1>7 DEF TimeAsUnit, UOT_S, UOT_MS, UOT_US, UOT_NS
  <2>2. QED
    BY <1>1, <2>1
<1>8. CASE unit \notin {UOT_S, UOT_MS, UOT_US, UOT_NS}
  <2>1. TimeAsUnit(a, unit) = 0 /\ TimeAsUnit(b, unit) = 0
    BY <1>8 DEF TimeAsUnit
  <2>2. QED
    BY <2>1
<1>9. QED
  BY <1>4, <1>5, <1>6, <1>7, <1>8

LEMMA SentNanoseconds ==
  ASSUME NEW t \in Int64
  PROVE  TimeAsUnit(t, UOT_NS) = t
BY WrapFits DEF TimeAsUnit, UnixNano, UOT_S, UOT_MS, UOT_US, UOT_NS
=============================================================================
