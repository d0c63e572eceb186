----------------------------- MODULE TimerProofs -----------------------------
(***************************************************************************)
(* Measuring with a timer, for every width of the integer, frequency and   *)
(* unit, however long it runs: a duration is exact whenever the type can   *)
(* hold it, and an answer of will_overflow_within can be relied on.        *)
(*                                                                         *)
(* ticks_to_duration splits the ticks into whole seconds and the rest, so  *)
(* that no product is larger than the duration or a second's ticks times   *)
(* units; SplitQuotient says that nothing is lost by it.                   *)
(***************************************************************************)
EXTENDS Timer, TLAPS

-----------------------------------------------------------------------------
(* Numbers.                                                                *)

\* Euclidean division, as the provers know it.
LEMMA Division ==
  ASSUME NEW n \in Int, NEW d \in Nat \ {0}
  PROVE  /\ n % d \in Nat /\ n % d < d /\ n \div d \in Int
         /\ n = d * (n \div d) + (n % d)
         /\ n >= 0 => n \div d \in Nat
  BY SMT

\* The quotient is the only number with a remainder below the divisor.
LEMMA QuotientOnly ==
  ASSUME NEW n \in Nat, NEW d \in Nat \ {0}, NEW q \in Nat, NEW r \in Nat,
         r < d, n = d * q + r
  PROVE  n \div d = q /\ n % d = r
  BY SMT

LEMMA ProductType == ASSUME NEW a \in Int, NEW b \in Int PROVE a * b \in Int
  BY SMT

LEMMA ProductNat == ASSUME NEW a \in Nat, NEW b \in Nat PROVE a * b \in Nat
  BY SMT

\* Products grow with their factors.
LEMMA ProductLess ==
  ASSUME NEW a \in Nat, NEW b \in Nat, NEW c \in Nat, a <= b
  PROVE  a * c <= b * c /\ c * a <= c * b
  BY SMT

LEMMA Distributes ==
  ASSUME NEW a \in Nat, NEW b \in Nat, NEW c \in Nat
  PROVE  /\ (a + b) * c = a * c + b * c
         /\ c * (a + b) = c * a + c * b
         /\ (a * b) * c = a * (b * c) /\ a * b = b * a
  BY SMT

\* Whole seconds and the rest, converted one by one, make up the duration.
LEMMA SplitQuotient ==
  ASSUME NEW n \in Nat, NEW f \in Nat \ {0}, NEW u \in Nat
  PROVE  /\ (n * u) \div f = (n \div f) * u + ((n % f) * u) \div f
         /\ (n \div f) * u \in Nat /\ (n % f) * u \in Nat
         /\ ((n % f) * u) \div f \in Nat
         /\ (n % f) * u <= f * u /\ (n * u) \div f \in Nat
<1> DEFINE q == n \div f
           r == n % f
           y == r * u
           s == y \div f
           t == y % f
<1>1. q \in Nat /\ r \in Nat /\ r < f /\ n = f * q + r
  BY Division
<1> HIDE DEF q, r
<1>2. q * u \in Nat /\ y \in Nat /\ y = r * u /\ f * q \in Nat
  BY <1>1, ProductNat
<1> HIDE DEF y
<1>3. s \in Nat /\ t \in Nat /\ t < f /\ y = f * s + t
  BY <1>2, Division
<1> HIDE DEF s, t
<1>4. n * u = f * (q * u) + y
  BY <1>1, <1>2, Distributes
<1>5. f * (q * u + s) = f * (q * u) + f * s
  BY <1>2, <1>3, Distributes
<1>6. n * u = f * (q * u + s) + t
  <2>1. f * (q * u) \in Nat /\ f * s \in Nat
    BY <1>2, <1>3, ProductNat
  <2> QED BY <1>3, <1>4, <1>5, <2>1
<1>7. n * u \in Nat /\ q * u + s \in Nat
  BY <1>2, <1>3, ProductNat
<1>8. (n * u) \div f = q * u + s
  BY <1>3, <1>6, <1>7, QuotientOnly
<1>9. r * u <= f * u
  BY <1>1, ProductLess
<1> QED BY <1>2, <1>3, <1>7, <1>8, <1>9 DEF q, r, s, y

\* A quotient below a bound, and one that is not.
LEMMA QuotientBound ==
  ASSUME NEW n \in Nat, NEW d \in Nat \ {0}, NEW s \in Nat
  PROVE  /\ n \div d <= s => n < (s + 1) * d
         /\ ~(n \div d <= s) => s * d <= n
<1> DEFINE q == n \div d
           r == n % d
<1>1. q \in Nat /\ r \in Nat /\ r < d /\ n = d * q + r /\ d * q \in Nat
  BY Division, ProductNat
<1> HIDE DEF q, r
<1>2. ASSUME q <= s PROVE n < (s + 1) * d
  <2>1. d * q <= s * d /\ s * d \in Nat
    BY <1>1, <1>2, ProductLess, ProductNat, Distributes
  <2>2. (s + 1) * d = s * d + 1 * d
    BY Distributes
  <2> QED BY <1>1, <2>1, <2>2
<1>3. ASSUME ~(q <= s) PROVE s * d <= n
  <2>1. s * d <= d * q /\ s * d \in Nat
    BY <1>1, <1>3, ProductLess, ProductNat, Distributes
  <2> QED BY <1>1, <2>1
<1> QED BY <1>2, <1>3 DEF q

-----------------------------------------------------------------------------
(* The integer type.                                                       *)

\* A wrapped number is of the type, and one of the type is not wrapped.
LEMMA Wrapped ==
  ASSUME NEW n \in Int
  PROVE  Wrap(n) \in Int64 /\ (n \in Int64 => Wrap(n) = n)
<1> DEFINE k == n + Top + 1
<1>1. Top \in Nat /\ Modulus \in Nat \ {0} /\ Modulus = 2 * (Top + 1) /\ k \in Int
  BY TimerAssumption DEF Modulus
<1>2. k % Modulus \in Nat /\ k % Modulus < Modulus
  <2> HIDE DEF k
  <2> QED BY <1>1, Division
<1>3. ASSUME n \in Int64 PROVE k % Modulus = k
  <2>1. k \in Nat /\ k < Modulus
    BY <1>1, <1>3 DEF Int64
  <2> HIDE DEF k
  <2> QED BY <1>1, <2>1, SMT
<1> QED BY <1>1, <1>2, <1>3 DEF Wrap, Int64

\* A truncating quotient of a number that is not negative is rounded down.
LEMMA QuotientDown ==
  ASSUME NEW a \in Nat, NEW b \in Nat \ {0}
  PROVE  Quotient(a, b) = a \div b /\ Remainder(a, b) = a % b
<1>1. Quotient(a, b) = a \div b
  BY DEF Quotient
<1>2. a \div b \in Nat /\ a % b \in Nat /\ a = b * (a \div b) + (a % b)
  BY Division
<1>3. b * (a \div b) \in Nat
  BY <1>2, ProductNat
<1> QED BY <1>1, <1>2, <1>3 DEF Remainder

LEMMA QuotientType ==
  ASSUME NEW a \in Int, NEW b \in Nat \ {0}
  PROVE  Quotient(a, b) \in Int /\ Remainder(a, b) \in Int
<1>1. a \div b \in Int /\ (-a) \div b \in Int
  BY Division
<1>2. Quotient(a, b) \in Int
  BY <1>1 DEF Quotient
<1>3. b * Quotient(a, b) \in Int
  BY <1>2, ProductType
<1> QED BY <1>2, <1>3 DEF Remainder

\* What is computed is of the type.
LEMMA DurationType ==
  ASSUME frequency \in Nat, units \in Nat, NEW a \in Int, NEW b \in Int
  PROVE  TicksToDuration(a, b) \in Int64
<1>1. CASE frequency <= 0
  BY <1>1, TimerAssumption DEF TicksToDuration, Int64
<1>2. CASE ~(frequency <= 0)
  <2> DEFINE d == Wrap(b - a)
             q == Quotient(d, frequency)
             r == Remainder(d, frequency)
             x == Wrap(q * units)
             y == Wrap(r * units)
             z == Quotient(y, frequency)
  <2>0. \A n \in Int64 : n \in Int
    BY TimerAssumption DEF Int64
  <2>1. d \in Int /\ frequency \in Nat \ {0}
    BY <1>2, <2>0, Wrapped
  <2>2. TicksToDuration(a, b) = Wrap(x + z)
    BY <1>2 DEF TicksToDuration
  <2> HIDE DEF d
  <2>3. q \in Int /\ r \in Int
    BY <2>1, QuotientType
  <2> HIDE DEF q, r
  <2>4. x \in Int /\ y \in Int
    <3>1. q * units \in Int /\ r * units \in Int
      BY <2>3, ProductType
    <3> QED BY <2>0, <3>1, Wrapped
  <2> HIDE DEF x, y
  <2>5. z \in Int
    BY <2>1, <2>4, QuotientType
  <2> HIDE DEF z
  <2> QED BY <2>2, <2>4, <2>5, Wrapped
<1> QED BY <1>1, <1>2

\* Between counts that have not wrapped, a duration the type can hold is
\* computed without any wrapping.
LEMMA DurationRight ==
  ASSUME frequency \in Nat \ {0}, units \in Nat \ {0}, NEW a \in Nat, NEW b \in Nat,
         a <= b, Holdable(a, b)
  PROVE  TicksToDuration(Wrap(a), Wrap(b)) = Exact(a, b)
<1> DEFINE n == b - a
           f == frequency
           u == units
           x == (n \div f) * u
           y == (n % f) * u
           z == y \div f
<1>1. /\ Top \in Nat /\ n \in Nat /\ n <= Top /\ f * u \in Nat /\ f * u <= Top
      /\ a <= Top /\ b <= Top /\ (n * u) \div f <= Top
  BY TimerAssumption, ProductNat DEF Holdable, Exact
<1>2. \A k \in Nat : k <= Top => Wrap(k) = k
  BY <1>1, Wrapped DEF Int64
<1>3. Wrap(a) = a /\ Wrap(b) = b /\ Wrap(n) = n
  BY <1>1, <1>2
<1>4. Exact(a, b) = (n * u) \div f
  BY DEF Exact
<1>5. Quotient(n, f) = n \div f /\ Remainder(n, f) = n % f
  <2> HIDE DEF n
  <2> QED BY <1>1, QuotientDown
<1>6. /\ (n * u) \div f = x + z /\ x \in Nat /\ y \in Nat /\ z \in Nat /\ y <= f * u
  <2> HIDE DEF n
  <2> QED BY <1>1, SplitQuotient
<1>7. TicksToDuration(Wrap(a), Wrap(b)) = Wrap(Wrap(x) + Quotient(Wrap(y), f))
  <2>1. TicksToDuration(a, b) =
          Wrap(Wrap(Quotient(Wrap(n), f) * u)
               + Quotient(Wrap(Remainder(Wrap(n), f) * u), f))
    BY DEF TicksToDuration
  <2> QED BY <1>3, <1>5, <2>1
<1> HIDE DEF x, y, z, n
<1>8. x <= Top /\ y <= Top /\ x + z \in Nat /\ x + z <= Top
  BY <1>1, <1>6
<1>9. Wrap(x) = x /\ Wrap(y) = y /\ Wrap(x + z) = x + z
  BY <1>2, <1>6, <1>8
<1>10. Quotient(y, f) = z
  BY <1>6, QuotientDown DEF z
<1> QED BY <1>4, <1>6, <1>7, <1>9, <1>10

-----------------------------------------------------------------------------
(* The invariant.                                                          *)

\* What is computed from the timer and the unit stays while they stay.
LEMMA TimerKept ==
  ASSUME frequency' = frequency, units' = units
  PROVE  /\ \A a, b : TicksToDuration(a, b)' = TicksToDuration(a, b)
         /\ \A a, s : WillOverflowWithin(a, s)' <=> WillOverflowWithin(a, s)
  BY DEF TicksToDuration, WillOverflowWithin, SecondsUntilOverflow

\* The types of the constants' members.
LEMMA MemberTypes ==
  ASSUME TypeOK
  PROVE  /\ frequency \in Nat /\ units \in Nat \ {0}
         /\ Now \in Int64 /\ 0 \in Int64 /\ \A n \in Int64 : n \in Int
<1>1. /\ frequency \in Nat /\ units \in Nat \ {0} /\ 0 \in Int64
      /\ \A n \in Int64 : n \in Int
  BY TimerAssumption DEF TypeOK, Int64
<1>2. Now \in Int64
  BY Wrapped DEF TypeOK, Now
<1> QED BY <1>1, <1>2

LEMMA InitInv == Init => TimerInv
<1> SUFFICES ASSUME Init PROVE TimerInv
  OBVIOUS
<1>1. TypeOK
  BY TimerAssumption DEF Init, TypeOK, Int64
<1>2. ReadingsFollow /\ DurationsFollow /\ AnswerFollows
  BY DEF Init, ReadingsFollow, DurationsFollow, AnswerFollows
<1> QED BY <1>1, <1>2 DEF TimerInv

\* Time goes by, nothing is measured.
LEMMA TickStep == ASSUME TimerInv, Tick PROVE TimerInv'
<1>1. TypeOK'
  BY DEF TimerInv, Tick, TypeOK
<1>2. ReadingsFollow'
  BY DEF TimerInv, Tick, ReadingsFollow, TypeOK
<1>3. DurationsFollow' /\ AnswerFollows'
  BY TimerKept DEF TimerInv, Tick, DurationsFollow, AnswerFollows
<1> QED BY <1>1, <1>2, <1>3 DEF TimerInv

\* A question and its answer.
LEMMA AskStep == ASSUME TimerInv, Ask PROVE TimerInv'
<1>1. PICK s \in Windows :
        asked' = [at |-> count, seconds |-> s, answer |-> WillOverflowWithin(Now, s)]
  BY DEF Ask
<1>2. UNCHANGED <<frequency, units, count, marks, readings, laps, total>>
  BY DEF Ask
<1> DEFINE w == WillOverflowWithin(Now, s)
<1>3. w \in BOOLEAN
  BY DEF WillOverflowWithin
<1>4. asked' = [at |-> count, seconds |-> s, answer |-> w]
  BY <1>1
<1>5. AnswerFollows'
  <2>1. w <=> WillOverflowWithin(Wrap(count), s)
    BY DEF Now
  <2> HIDE DEF w
  <2>2. asked'.at = count /\ asked'.seconds = s /\ asked'.answer = w
    BY <1>4
  <2>3. WillOverflowWithin(Wrap(count), s)' <=> WillOverflowWithin(Wrap(count), s)
    BY <1>2, TimerKept
  <2> QED BY <1>2, <2>1, <2>2, <2>3, TimerKept DEF AnswerFollows
<1> HIDE DEF w
<1>6. TypeOK'
  BY <1>2, <1>3, <1>4 DEF TimerInv, TypeOK
<1>7. ReadingsFollow' /\ DurationsFollow'
  BY <1>2, TimerKept DEF TimerInv, ReadingsFollow, DurationsFollow
<1> QED BY <1>5, <1>6, <1>7 DEF TimerInv

\* A measurement starts.
LEMMA StartStep == ASSUME TimerInv, Start PROVE TimerInv'
<1>0. TypeOK /\ AnswerFollows
  BY DEF TimerInv
<1>1. /\ marks' = <<count>> /\ readings' = <<Now>> /\ laps' = <<>> /\ total' = 0
      /\ UNCHANGED <<frequency, units, count, asked>>
  BY DEF Start
<1>2. /\ Len(marks') = 1 /\ marks'[1] = count /\ readings'[1] = Now
      /\ Len(readings') = 1 /\ Len(laps') = 0
  BY <1>1
<1>3. TypeOK'
  <2>1. marks' \in Seq(Nat) /\ readings' \in Seq(Int64) /\ laps' \in Seq(Int64)
    BY <1>0, <1>1, MemberTypes DEF TypeOK
  <2>2. 1 <= MaxMarks
    BY TimerAssumption
  <2> QED BY <1>0, <1>1, <1>2, <2>1, <2>2, MemberTypes DEF TypeOK
<1>4. ReadingsFollow'
  BY <1>0, <1>1, <1>2 DEF TypeOK, ReadingsFollow, Now
<1>5. DurationsFollow'
  BY <1>2 DEF DurationsFollow
<1>6. AnswerFollows'
  BY <1>0, <1>1, TimerKept DEF AnswerFollows
<1> QED BY <1>3, <1>4, <1>5, <1>6 DEF TimerInv

\* A lap ends.
LEMMA LapStep == ASSUME TimerInv, Lap PROVE TimerInv'
<1>0. TypeOK /\ ReadingsFollow /\ DurationsFollow /\ AnswerFollows
  BY DEF TimerInv
<1> DEFINE n == Len(marks)
           lap == TicksToDuration(readings[n], Now)
           all == TicksToDuration(readings[1], Now)
<1>1. /\ marks' = Append(marks, count) /\ readings' = Append(readings, Now)
      /\ laps' = Append(laps, lap) /\ total' = all
      /\ n \in 1..(MaxMarks - 1) /\ UNCHANGED <<frequency, units, count, asked>>
  BY <1>0 DEF Lap, TypeOK
<1>2. /\ n \in Nat /\ n >= 1 /\ Len(readings) = n /\ Len(laps) = n - 1
      /\ marks \in Seq(Nat) /\ readings \in Seq(Int64) /\ laps \in Seq(Int64)
  BY <1>0, <1>1 DEF TypeOK, DurationsFollow
<1>3. lap \in Int64 /\ all \in Int64
  <2>1. readings[n] \in Int /\ readings[1] \in Int /\ Now \in Int
    BY <1>0, <1>2, MemberTypes
  <2> QED BY <1>0, <2>1, DurationType, MemberTypes
<1>4. /\ Len(marks') = n + 1 /\ Len(readings') = n + 1 /\ Len(laps') = n
      /\ marks'[n + 1] = count /\ readings'[n + 1] = Now /\ laps'[n] = lap
      /\ \A k \in 1..n : marks'[k] = marks[k] /\ readings'[k] = readings[k]
      /\ \A k \in 1..(n - 1) : laps'[k] = laps[k]
  <2> HIDE DEF lap, all
  <2> QED BY <1>1, <1>2
<1>5. TypeOK'
  <2> HIDE DEF lap, all
  <2>1. marks' \in Seq(Nat) /\ readings' \in Seq(Int64) /\ laps' \in Seq(Int64)
    BY <1>0, <1>1, <1>2, <1>3, MemberTypes DEF TypeOK
  <2>2. n + 1 <= MaxMarks
    BY <1>1, TimerAssumption
  <2> HIDE DEF n
  <2> QED BY <1>0, <1>1, <1>3, <1>4, <2>1, <2>2 DEF TypeOK
<1>6. ReadingsFollow'
  <2> HIDE DEF n
  <2>1. \A k \in 1..(n + 1) : readings'[k] = Wrap(marks'[k]) /\ marks'[k] <= count
    <3> SUFFICES ASSUME NEW k \in 1..(n + 1)
                 PROVE  readings'[k] = Wrap(marks'[k]) /\ marks'[k] <= count
      OBVIOUS
    <3>1. CASE k = n + 1
      BY <1>0, <1>4, <3>1 DEF Now, TypeOK
    <3>2. CASE k \in 1..n
      BY <1>0, <1>4, <3>2 DEF ReadingsFollow, n
    <3> QED BY <1>2, <3>1, <3>2
  <2>2. \A j, k \in 1..(n + 1) : j <= k => marks'[j] <= marks'[k]
    <3> SUFFICES ASSUME NEW j \in 1..(n + 1), NEW k \in 1..(n + 1), j <= k
                 PROVE  marks'[j] <= marks'[k]
      OBVIOUS
    <3>1. CASE k = n + 1
      BY <1>4, <2>1, <3>1
    <3>2. CASE k \in 1..n
      <4>1. j \in 1..n
        BY <1>2, <3>2
      <4> QED BY <1>0, <1>4, <3>2, <4>1 DEF ReadingsFollow, n
    <3> QED BY <1>2, <3>1, <3>2
  <2> QED BY <1>1, <1>4, <2>1, <2>2 DEF ReadingsFollow
<1>7. DurationsFollow'
  <2>1. \A k \in 1..n : laps'[k] = TicksToDuration(readings'[k], readings'[k + 1])
    <3> SUFFICES ASSUME NEW k \in 1..n
                 PROVE  laps'[k] = TicksToDuration(readings'[k], readings'[k + 1])
      OBVIOUS
    <3>1. CASE k = n
      BY <1>4, <3>1
    <3>2. CASE k \in 1..(n - 1)
      <4>1. readings'[k] = readings[k] /\ readings'[k + 1] = readings[k + 1]
        BY <1>2, <1>4, <3>2
      <4> QED BY <1>0, <1>2, <1>4, <3>2, <4>1 DEF DurationsFollow
    <3> QED BY <1>2, <3>1, <3>2
  <2>2. total' = TicksToDuration(readings'[1], readings'[n + 1])
    BY <1>1, <1>2, <1>4
  <2> HIDE DEF n
  <2>3. \A a, b : TicksToDuration(a, b)' = TicksToDuration(a, b)
    BY <1>1, TimerKept
  <2>4. /\ Len(laps') = Len(marks') - 1
        /\ \A k \in 1..(Len(marks') - 1) :
             laps'[k] = TicksToDuration(readings'[k], readings'[k + 1])
        /\ total' = TicksToDuration(readings'[1], readings'[Len(marks')])
    BY <1>2, <1>4, <2>1, <2>2
  <2> QED BY <2>3, <2>4 DEF DurationsFollow
<1>8. AnswerFollows'
  BY <1>0, <1>1, TimerKept DEF AnswerFollows
<1> QED BY <1>5, <1>6, <1>7, <1>8 DEF TimerInv

\* Every step keeps the invariant.
LEMMA NextInv == TimerInv /\ [Next]_vars => TimerInv'
<1> SUFFICES ASSUME TimerInv, [Next]_vars PROVE TimerInv'
  OBVIOUS
<1>1. CASE UNCHANGED vars
  BY <1>1, TimerKept
     DEF vars, TimerInv, TypeOK, ReadingsFollow, DurationsFollow, AnswerFollows
<1> QED BY <1>1, TickStep, AskStep, StartStep, LapStep DEF Next

\* The answer that follows is one to rely on.
LEMMA Foreseen == TimerInv => OverflowForeseen
<1> SUFFICES ASSUME TimerInv, asked # Null, frequency > 0, asked.at <= Top
             PROVE  /\ ~asked.answer /\ count <= asked.at + asked.seconds * frequency
                         => Now = count
                    /\ asked.answer => asked.at + (asked.seconds + 1) * frequency > Top
  BY DEF OverflowForeseen
<1> DEFINE at == asked.at
           s == asked.seconds
           n == Top - at
<1>1. /\ at \in Nat /\ s \in Nat /\ count \in Nat /\ Top \in Nat
      /\ frequency \in Nat \ {0} /\ n \in Nat /\ n <= Top
  <2>1. asked \in [at : Nat, seconds : Windows, answer : BOOLEAN]
    BY DEF TimerInv, TypeOK
  <2>2. at \in Nat /\ s \in Windows
    BY <2>1
  <2>4. s \in Nat /\ Top \in Nat
    BY <2>2, TimerAssumption
  <2>3. frequency \in Nat \ {0} /\ count \in Nat
    BY MemberTypes DEF TimerInv, TypeOK
  <2> HIDE DEF at, s
  <2>5. at <= Top
    BY DEF at
  <2> QED BY <2>2, <2>3, <2>4, <2>5
<1>2. \A k \in Nat : k <= Top => Wrap(k) = k
  BY <1>1, Wrapped DEF Int64
<1>3. asked.answer <=> n \div frequency <= s
  <2>1. asked.answer <=> WillOverflowWithin(Wrap(at), s)
    BY DEF TimerInv, AnswerFollows
  <2>2. SecondsUntilOverflow(at) = Quotient(Wrap(n), frequency)
    BY <1>1 DEF SecondsUntilOverflow
  <2>3. Wrap(at) = at /\ Wrap(n) = n
    BY <1>1, <1>2
  <2> HIDE DEF n, at, s
  <2>4. Quotient(n, frequency) = n \div frequency
    BY <1>1, QuotientDown
  <2> QED BY <2>1, <2>2, <2>3, <2>4 DEF WillOverflowWithin
<1>4. /\ n \div frequency <= s => n < (s + 1) * frequency
      /\ ~(n \div frequency <= s) => s * frequency <= n
  <2> HIDE DEF n, s
  <2> QED BY <1>1, QuotientBound
<1>5. s * frequency \in Nat /\ (s + 1) * frequency \in Nat
  BY <1>1, ProductNat
<1>6. asked.answer => at + (s + 1) * frequency > Top
  BY <1>1, <1>3, <1>4, <1>5
<1>7. ASSUME ~asked.answer, count <= at + s * frequency PROVE Now = count
  <2>1. count <= Top
    BY <1>1, <1>3, <1>4, <1>5, <1>7
  <2> QED BY <1>1, <1>2, <2>1 DEF Now
<1> QED BY <1>6, <1>7

\* The durations that follow are the exact ones.
LEMMA DurationsExact == TimerInv => DurationExact
<1> SUFFICES ASSUME TimerInv, frequency > 0, Len(marks) > 1
             PROVE  LET last == Len(marks)
                    IN  /\ Holdable(marks[1], marks[last])
                             => total = Exact(marks[1], marks[last])
                        /\ Holdable(marks[last - 1], marks[last]) =>
                             laps[last - 1] = Exact(marks[last - 1], marks[last])
  BY DEF DurationExact
<1> DEFINE last == Len(marks)
<1>0. TypeOK /\ ReadingsFollow /\ DurationsFollow
  BY DEF TimerInv
<1>1. /\ frequency \in Nat \ {0} /\ units \in Nat \ {0} /\ last \in Nat
  BY <1>0, MemberTypes DEF TypeOK
<1>2. /\ 1 \in 1..last /\ last - 1 \in 1..(last - 1) /\ last - 1 \in 1..last
      /\ last \in 1..last /\ (last - 1) + 1 = last
  BY <1>1
<1>3. \A k \in 1..last : marks[k] \in Nat /\ readings[k] = Wrap(marks[k])
  BY <1>0 DEF TypeOK, ReadingsFollow
<1>4. marks[1] <= marks[last] /\ marks[last - 1] <= marks[last]
  BY <1>0, <1>1, <1>2 DEF ReadingsFollow
<1>5. /\ total = TicksToDuration(Wrap(marks[1]), Wrap(marks[last]))
      /\ laps[last - 1] = TicksToDuration(Wrap(marks[last - 1]), Wrap(marks[last]))
  <2>1. /\ total = TicksToDuration(readings[1], readings[last])
        /\ laps[last - 1] = TicksToDuration(readings[last - 1], readings[(last - 1) + 1])
    <3>1. /\ total = TicksToDuration(readings[1], readings[last])
          /\ \A k \in 1..(last - 1) :
               laps[k] = TicksToDuration(readings[k], readings[k + 1])
      BY <1>0 DEF DurationsFollow
    <3> HIDE DEF last
    <3> QED BY <1>2, <3>1
  <2> HIDE DEF last
  <2> QED BY <1>2, <1>3, <2>1
<1> HIDE DEF last
<1> QED BY <1>1, <1>2, <1>3, <1>4, <1>5, DurationRight DEF last

-----------------------------------------------------------------------------
(* The results.                                                            *)

\* The invariant of a measurement.
THEOREM Invariance == Spec => []TimerInv
  BY InitInv, NextInv, PTL DEF Spec

\* TypeOK: readings, laps and totals are of the integer type, whatever the
\* clock says, as many as were asked for.
THEOREM TypeCorrect == Spec => []TypeOK
<1>1. TimerInv => TypeOK
  BY DEF TimerInv
<1> QED BY <1>1, Invariance, PTL

\* OverflowForeseen: after a no of will_overflow_within no reading wraps in
\* the time asked for, and a yes is not needlessly cautious.
THEOREM AnswersHold == Spec => []OverflowForeseen
  BY Foreseen, Invariance, PTL

\* DurationExact: ticks_to_duration is exact whenever the type can hold the
\* duration and a second's ticks times units.
THEOREM LapsExact == Spec => []DurationExact
  BY DurationsExact, Invariance, PTL
=============================================================================
