------------------------------- MODULE BoxProofs -------------------------------
(***************************************************************************)
(* What a program is told of its box, for every machine: the memory shown  *)
(* is the memory told to within half a digit (MemoryShown), the frequency  *)
(* under a timer is that of its clock (UnderlyingIsTheClocks), and the     *)
(* names shown are those of the usable features (IsaStringTrue).           *)
(***************************************************************************)
EXTENDS Box, SequenceTheorems, WellFoundedInduction, TLAPS

-----------------------------------------------------------------------------
(* The inductive invariant: what was told is what the machine says.        *)

MemoryInv == IsUint64(available) /\ shown = FormatBytes(available)

ClocksInv ==
  platform = "linux" =>
    /\ fast \in {NoTimer, LinuxFast}
    /\ coarse # NoTimer =>
         coarse.underlying_frequency = ClockFrequency(machine.coarse_ns)

NamesInv == isa \subseteq {IsaNames}

BoxInv == /\ machine \in Machines /\ platform \in Platforms
          /\ MemoryInv /\ ClocksInv /\ NamesInv

-----------------------------------------------------------------------------
(* Units and rounding.                                                     *)

\* Division by a positive number has a remainder below it.
LEMMA Division ==
  ASSUME NEW n \in Nat, NEW d \in Nat \ {0}
  PROVE  /\ n % d \in Nat /\ n % d < d /\ n \div d \in Nat
         /\ n = d * (n \div d) + (n % d)
  BY SMT

LEMMA ProductNat == ASSUME NEW a \in Nat, NEW b \in Nat PROVE a * b \in Nat
  BY SMT

\* Each unit is the one before times the base.
LEMMA ScaleSteps ==
  ASSUME NEW base \in Nat \ {0}
  PROVE  /\ Scale(base)[0] = 1
         /\ \A u \in 1..TopUnit : Scale(base)[u] = base * Scale(base)[u - 1]
         /\ \A u \in 0..TopUnit : Scale(base)[u] \in Nat \ {0}
<1> DEFINE s1 == base * 1
           s2 == base * s1
           s3 == base * s2
           s4 == base * s3
           s5 == base * s4
           s6 == base * s5
           s(u) == CASE u = 0 -> 1 [] u = 1 -> s1 [] u = 2 -> s2 [] u = 3 -> s3
                     [] u = 4 -> s4 [] u = 5 -> s5 [] u = 6 -> s6
           f == [u \in 0..TopUnit |-> s(u)]
           g == Scale(base)
<1>1. g = CHOOSE h : h = [u \in 0..TopUnit |-> IF u = 0 THEN 1 ELSE base * h[u - 1]]
  BY DEF Scale
<1>2. /\ f[0] = 1 /\ f[1] = base * f[0] /\ f[2] = base * f[1] /\ f[3] = base * f[2]
      /\ f[4] = base * f[3] /\ f[5] = base * f[4] /\ f[6] = base * f[5]
  <2> HIDE DEF s1, s2, s3, s4, s5, s6
  <2>1. /\ f[0] = 1 /\ f[1] = s1 /\ f[2] = s2 /\ f[3] = s3
        /\ f[4] = s4 /\ f[5] = s5 /\ f[6] = s6
    BY DEF TopUnit
  <2> HIDE DEF f
  <2> QED BY <2>1 DEF s1, s2, s3, s4, s5, s6
<1> HIDE DEF s
<1>3. f = [u \in 0..TopUnit |-> f[u]]
  OBVIOUS
<1> HIDE DEF f, g
<1>4. \A u \in 0..TopUnit : f[u] = IF u = 0 THEN 1 ELSE base * f[u - 1]
  <2>1. \A u \in 0..TopUnit : u \in {0, 1, 2, 3, 4, 5, 6}
    BY DEF TopUnit
  <2> QED BY <1>2, <2>1
<1>5. f = [u \in 0..TopUnit |-> IF u = 0 THEN 1 ELSE base * f[u - 1]]
  BY <1>3, <1>4
<1>6. g = [u \in 0..TopUnit |-> IF u = 0 THEN 1 ELSE base * g[u - 1]]
  BY ONLY <1>1, <1>5
<1>7. \A u \in 0..TopUnit : g[u] = IF u = 0 THEN 1 ELSE base * g[u - 1]
  BY <1>6
<1>8. g[0] = 1 /\ \A u \in 1..TopUnit : g[u] = base * g[u - 1]
  BY <1>7 DEF TopUnit
<1>9. \A a \in Nat \ {0} : base * a \in Nat \ {0}
  BY SMT
<1>10. \A u \in 0..TopUnit : g[u] \in Nat \ {0}
  <2>1. g[0] \in Nat \ {0}
    BY <1>8
  <2>2. \A u \in 1..TopUnit : g[u - 1] \in Nat \ {0} => g[u] \in Nat \ {0}
    BY <1>8, <1>9
  <2>3. g[1] \in Nat \ {0}
    BY <2>1, <2>2 DEF TopUnit
  <2>4. g[2] \in Nat \ {0}
    BY <2>3, <2>2 DEF TopUnit
  <2>5. g[3] \in Nat \ {0}
    BY <2>4, <2>2 DEF TopUnit
  <2>6. g[4] \in Nat \ {0}
    BY <2>5, <2>2 DEF TopUnit
  <2>7. g[5] \in Nat \ {0}
    BY <2>6, <2>2 DEF TopUnit
  <2>8. g[6] \in Nat \ {0}
    BY <2>7, <2>2 DEF TopUnit
  <2>9. \A u \in 0..TopUnit : u \in {0, 1, 2, 3, 4, 5, 6}
    BY DEF TopUnit
  <2> QED BY <2>1, <2>3, <2>4, <2>5, <2>6, <2>7, <2>8, <2>9
<1> QED BY <1>8, <1>10 DEF g

\* The loop leaves a unit that the number fills, and whose next it does not.
LEMMA UnitFits ==
  ASSUME NEW base \in Nat \ {0}, NEW val \in Nat
  PROVE  /\ UnitOf(val, base) \in 0..TopUnit
         /\ UnitOf(val, base) > 0 => Scale(base)[UnitOf(val, base)] <= val
         /\ UnitOf(val, base) < TopUnit => val < Scale(base)[UnitOf(val, base) + 1]
<1> DEFINE S == Scale(base)
           w5 == IF val >= S[6] THEN 6 ELSE 5
           w4 == IF val >= S[5] THEN w5 ELSE 4
           w3 == IF val >= S[4] THEN w4 ELSE 3
           w2 == IF val >= S[3] THEN w3 ELSE 2
           w1 == IF val >= S[2] THEN w2 ELSE 1
           w0 == IF val >= S[1] THEN w1 ELSE 0
           w(u) == CASE u = 0 -> w0 [] u = 1 -> w1 [] u = 2 -> w2 [] u = 3 -> w3
                     [] u = 4 -> w4 [] u = 5 -> w5 [] u = 6 -> 6
           f == [u \in 0..TopUnit |-> w(u)]
           g == CHOOSE h : h = [u \in 0..TopUnit |->
                  IF u < TopUnit /\ val >= S[u + 1] THEN h[u + 1] ELSE u]
<1>1. UnitOf(val, base) = g[0]
  BY DEF UnitOf
<1>2. \A u \in 0..TopUnit : S[u] \in Nat
  BY ScaleSteps
<1> HIDE DEF S
<1>3. /\ f[0] = IF val >= S[1] THEN f[1] ELSE 0
      /\ f[1] = IF val >= S[2] THEN f[2] ELSE 1
      /\ f[2] = IF val >= S[3] THEN f[3] ELSE 2
      /\ f[3] = IF val >= S[4] THEN f[4] ELSE 3
      /\ f[4] = IF val >= S[5] THEN f[5] ELSE 4
      /\ f[5] = IF val >= S[6] THEN f[6] ELSE 5
      /\ f[6] = 6
  <2> HIDE DEF w0, w1, w2, w3, w4, w5
  <2>1. /\ f[0] = w0 /\ f[1] = w1 /\ f[2] = w2 /\ f[3] = w3
        /\ f[4] = w4 /\ f[5] = w5 /\ f[6] = 6
    BY DEF TopUnit
  <2> HIDE DEF f
  <2> QED BY <2>1 DEF w0, w1, w2, w3, w4, w5
<1> HIDE DEF w
<1>4. f = [u \in 0..TopUnit |-> f[u]]
  OBVIOUS
<1> HIDE DEF f
<1>5. \A u \in 0..TopUnit : f[u] = IF u < TopUnit /\ val >= S[u + 1] THEN f[u + 1] ELSE u
  <2>1. \A u \in 0..TopUnit : u \in {0, 1, 2, 3, 4, 5, 6}
    BY DEF TopUnit
  <2> QED BY <1>3, <2>1 DEF TopUnit
<1>6. f = [u \in 0..TopUnit |-> IF u < TopUnit /\ val >= S[u + 1] THEN f[u + 1] ELSE u]
  BY <1>4, <1>5
<1>7. g = [u \in 0..TopUnit |-> IF u < TopUnit /\ val >= S[u + 1] THEN g[u + 1] ELSE u]
  BY <1>6
<1> HIDE DEF g
<1> DEFINE Fits(u) == /\ g[u] \in u..TopUnit
                      /\ g[u] > u => S[g[u]] <= val
                      /\ g[u] < TopUnit => val < S[g[u] + 1]
<1>8. \A u \in 0..TopUnit : g[u] = IF u < TopUnit /\ val >= S[u + 1] THEN g[u + 1] ELSE u
  BY <1>7
<1>9. Fits(6)
  BY <1>8 DEF TopUnit
<1>10. ASSUME NEW u \in 0..5, Fits(u + 1) PROVE Fits(u)
  <2>1. u \in 0..TopUnit /\ u + 1 \in 0..TopUnit /\ u < TopUnit /\ TopUnit \in Nat
    BY DEF TopUnit
  <2>2. S[u + 1] \in Nat
    BY <1>2, <2>1
  <2>3. CASE val >= S[u + 1]
    <3>1. g[u] = g[u + 1]
      BY <1>8, <2>1, <2>3
    <3>2. g[u + 1] = u + 1 => S[g[u + 1]] <= val
      BY <2>2, <2>3
    <3> QED BY <1>10, <2>1, <3>1, <3>2
  <2>4. CASE ~(val >= S[u + 1])
    <3>1. g[u] = u
      BY <1>8, <2>1, <2>4
    <3> QED BY <2>1, <2>2, <2>4, <3>1
  <2> QED BY <2>3, <2>4
<1> HIDE DEF Fits
<1>11. Fits(5)
  BY <1>9, <1>10
<1>12. Fits(4)
  BY <1>11, <1>10
<1>13. Fits(3)
  BY <1>12, <1>10
<1>14. Fits(2)
  BY <1>13, <1>10
<1>15. Fits(1)
  BY <1>14, <1>10
<1>16. Fits(0)
  BY <1>15, <1>10
<1> QED BY <1>1, <1>16 DEF Fits, S

\* What is shown in hundredths is off by half a hundredth at most, and a number
\* between one and k units is shown between them.
LEMMA RoundedNear ==
  ASSUME NEW val \in Nat, NEW by \in Nat \ {0}
  PROVE  /\ ToHundredths(val, by) \in Nat
         /\ -by <= 2 * (ToHundredths(val, by) * by - 100 * val)
         /\ 2 * (ToHundredths(val, by) * by - 100 * val) <= by
         /\ by <= val => ToHundredths(val, by) >= 100
         /\ \A k \in Nat : val < k * by => ToHundredths(val, by) <= 100 * k
<1> DEFINE n == 100 * val
           low == n \div by
           rest == n % by
           h == ToHundredths(val, by)
<1>1. n \in Nat
  OBVIOUS
<1>2. low \in Nat /\ rest \in Nat /\ rest < by /\ n = by * low + rest
  BY <1>1, Division
<1>3. h = IF 2 * rest > by \/ (2 * rest = by /\ low % 2 = 1) THEN low + 1 ELSE low
  BY DEF ToHundredths
<1> HIDE DEF low, rest, h
<1> DEFINE p == by * low
<1>4. p \in Nat /\ low * by = p /\ (low + 1) * by = p + by
  BY <1>2, SMT
<1>5. \/ h = low /\ 2 * rest <= by
      \/ h = low + 1 /\ 2 * rest >= by
  BY <1>2, <1>3
<1>6. \/ h * by = p /\ 2 * rest <= by
      \/ h * by = p + by /\ 2 * rest >= by
  BY <1>4, <1>5
<1>7. h \in Nat
  BY <1>2, <1>5
<1>8. -by <= 2 * (h * by - n) /\ 2 * (h * by - n) <= by
  <2> HIDE DEF n
  <2>1. n = p + rest
    BY <1>2
  <2> HIDE DEF p
  <2> QED BY <1>1, <1>2, <1>4, <1>6, <2>1
<1>9. ASSUME by <= val PROVE h >= 100
  <2>1. 100 * by <= n
    BY <1>9
  <2>2. ASSUME low < 100 PROVE FALSE
    <3>1. by * low <= by * 99
      BY <1>2, <2>2, SMT
    <3>2. by * 99 + by = 100 * by
      OBVIOUS
    <3> HIDE DEF n
    <3> QED BY <1>1, <1>2, <1>4, <2>1, <3>1, <3>2
  <2> QED BY <1>2, <1>5, <2>2
<1>10. ASSUME NEW k \in Nat, val < k * by PROVE h <= 100 * k
  <2>1. k * by \in Nat /\ n < 100 * (k * by)
    BY <1>10, ProductNat
  <2>2. ASSUME low >= 100 * k PROVE FALSE
    <3>1. by * low >= by * (100 * k)
      BY <1>2, <2>2, SMT
    <3>2. by * (100 * k) = 100 * (k * by)
      BY SMT
    <3> HIDE DEF n
    <3> QED BY <1>1, <1>2, <1>4, <2>1, <3>1, <3>2
  <2> QED BY <1>2, <1>5, <2>2
<1> QED BY <1>7, <1>8, <1>9, <1>10 DEF h

\* What a uint64_t holds is below 16 times the last unit of bytes, 2^60.
LEMMA Uint64Bound ==
  ASSUME NEW n, IsUint64(n)
  PROVE  n \in Nat /\ n < 16 * Scale(1024)[6]
<1> DEFINE S == Scale(1024)
           q == n \div 1073741824
<1>1. /\ S[0] = 1 /\ \A u \in 1..TopUnit : S[u] = 1024 * S[u - 1]
  BY ScaleSteps
<1> HIDE DEF S
<1>2. S[1] = 1024
  BY <1>1 DEF TopUnit
<1>3. S[2] = 1048576
  BY <1>1, <1>2 DEF TopUnit
<1>4. S[3] = 1073741824
  BY <1>1, <1>3 DEF TopUnit
<1>5. S[4] = 1024 * 1073741824
  BY <1>1, <1>4 DEF TopUnit
<1>6. S[5] = 1048576 * 1073741824
  BY <1>1, <1>5 DEF TopUnit
<1>7. S[6] = 1073741824 * 1073741824
  BY <1>1, <1>6 DEF TopUnit
<1>8. n \in Nat /\ q \in Nat /\ q \div 1024 < 16777216 /\ n < 1073741824 * (q + 1)
  <2>1. n \in Nat /\ q \div 1024 < 16777216
    BY DEF IsUint64
  <2>2. n % 1073741824 < 1073741824 /\ q \in Nat /\ n = 1073741824 * q + (n % 1073741824)
        /\ n % 1073741824 \in Nat
    BY <2>1, Division
  <2> HIDE DEF q
  <2> QED BY <2>1, <2>2
<1> HIDE DEF q
<1>9. q + 1 <= 16 * 1073741824
  <2>1. q % 1024 < 1024 /\ q % 1024 \in Nat /\ q \div 1024 \in Nat
        /\ q = 1024 * (q \div 1024) + (q % 1024)
    BY <1>8, Division
  <2> QED BY <1>8, <2>1
<1> QED BY <1>7, <1>8, <1>9 DEF S

\* The amount shown is right for every number of bytes.
LEMMA ShownRight == ASSUME MemoryInv PROVE MemoryShown
<1> DEFINE S == Scale(1024)
           unit == UnitOf(available, 1024)
           by == S[unit]
           h == ToHundredths(available, by)
<1>1. available \in Nat /\ available < 16 * S[6]
  BY Uint64Bound DEF MemoryInv
<1>2. /\ S[0] = 1 /\ \A u \in 0..TopUnit : S[u] \in Nat \ {0}
      /\ \A u \in 1..TopUnit : S[u] = 1024 * S[u - 1]
  BY ScaleSteps
<1>3. /\ unit \in 0..TopUnit
      /\ unit > 0 => S[unit] <= available
      /\ unit < TopUnit => available < S[unit + 1]
  BY <1>1, UnitFits
<1>4. /\ shown.unit = unit
      /\ shown.hundredths = IF unit = 0 THEN 100 * available ELSE h
  BY DEF MemoryInv, FormatBytes, InUnits
<1> HIDE DEF S, unit
<1>5. by \in Nat \ {0}
  BY <1>2, <1>3
<1>6. unit < TopUnit => unit + 1 \in 1..TopUnit /\ (unit + 1) - 1 = unit
  BY <1>3 DEF TopUnit
<1>7. available < 1024 * by
  <2>1. CASE unit < TopUnit
    <3>1. S[unit + 1] = 1024 * S[unit]
      BY <1>2, <1>6, <2>1
    <3> QED BY <1>3, <2>1, <3>1
  <2>2. CASE ~(unit < TopUnit)
    <3>1. unit = 6
      BY <1>3, <2>2 DEF TopUnit
    <3> QED BY <1>1, <1>5, <3>1
  <2> QED BY <2>1, <2>2
<1>8. CASE unit = 0
  <2>1. by = 1
    BY <1>2, <1>8
  <2>2. shown.hundredths * by - 100 * available = 0
    BY <1>1, <1>4, <1>8, <2>1
  <2> HIDE DEF by
  <2> QED BY <1>4, <1>7, <1>8, <2>1, <2>2 DEF MemoryShown, by, S
<1>9. CASE unit > 0
  <2> HIDE DEF by
  <2>1. /\ h \in Nat /\ h >= 100
        /\ -by <= 2 * (h * by - 100 * available)
        /\ 2 * (h * by - 100 * available) <= by
    BY <1>1, <1>3, <1>5, <1>9, RoundedNear DEF by
  <2>2. h <= 100 * 1024
    <3>1. \A k \in Nat : available < k * by => h <= 100 * k
      BY <1>1, <1>5, RoundedNear
    <3> HIDE DEF h
    <3> QED BY <1>7, <3>1
  <2>3. shown.hundredths = h /\ shown.unit # 0
    BY <1>4, <1>9
  <2> HIDE DEF h
  <2> QED BY <1>4, <2>1, <2>2, <2>3 DEF MemoryShown, by, S
<1> QED BY <1>3, <1>8, <1>9

-----------------------------------------------------------------------------
(* The clocks.                                                             *)

\* On Linux the source is a time stamp counter just when the kernel says so.
LEMMA CounterByName ==
  ASSUME NEW name, name # "tsc"
  PROVE  ~TscUnderneath(SourceFromName(name))
<1> DEFINE source == SourceFromName(name)
<1>1. CASE ~machine.x86
  BY <1>1, Zenon DEF SourceFromName, TscUnderneath
<1>2. CASE machine.x86
  <2>1. source # "TSC" /\ source # "INVARIANT_TSC"
    BY <1>2, SMT DEF SourceFromName
  <2> QED BY <2>1, SMT DEF TscUnderneath
<1> QED BY <1>1, <1>2

\* What is no greater than a number goes into it once at least.
LEMMA QuotientPositive ==
  ASSUME NEW n \in Nat, NEW d \in Nat \ {0}, d <= n
  PROVE  n \div d \in Nat \ {0}
<1> DEFINE q == n \div d
<1>1. q \in Nat /\ n % d < d /\ n % d \in Nat /\ n = d * q + (n % d)
  BY Division
<1> HIDE DEF q
<1>2. q # 0
  BY <1>1
<1> QED BY <1>1, <1>2 DEF q

\* A clock that ticks once a second at least has a frequency.
LEMMA ClockTicks ==
  ASSUME NEW ns \in Nat, ns <= 1000000000
  PROVE  ClockFrequency(ns) \in Nat \ {0}
<1>1. CASE ns > 0
  <2>1. 1000000000 \div ns \in Nat \ {0}
    BY <1>1, QuotientPositive, SMT
  <2> QED BY <1>1, <2>1, SMT DEF ClockFrequency
<1>2. CASE ~(ns > 0)
  BY <1>2, SMT DEF ClockFrequency
<1> QED BY <1>1, <1>2

\* The frequency CPUID gives of a counter is not negative.
LEMMA TscHzType == ASSUME machine \in Machines PROVE TscHz \in Nat
<1>1. Leaf15.ecx \in Nat /\ Leaf15.ebx \in Nat /\ Leaf15.eax \in Nat /\ Leaf16.eax \in Nat
  <2>1. machine.leaf16.eax \in Nat
    BY ProcessorAssumption
  <2>2. machine.leaf16.eax % 65536 \in Nat
    BY <2>1, SMT
  <2> QED BY <2>2, ProcessorAssumption DEF Leaf15, Leaf16, Leaf
<1>2. CASE ~RatioKnown
  BY <1>1, <1>2 DEF TscHz
<1>3. CASE RatioKnown
  <2> DEFINE p == Leaf15.ecx * Leaf15.ebx
  <2>1. p \in Nat /\ Leaf15.eax \in Nat \ {0}
    BY <1>1, <1>3, ProductNat DEF RatioKnown
  <2>2. TscHz = IF p \div Leaf15.eax >= 100000000 THEN p \div Leaf15.eax ELSE 0
    BY <1>3 DEF TscHz
  <2> HIDE DEF p
  <2>3. p \div Leaf15.eax \in Nat
    BY <2>1, Division
  <2> QED BY <2>2, <2>3
<1> QED BY <1>2, <1>3

LEMMA UnderlyingRight ==
  ASSUME machine \in Machines, ClocksInv PROVE UnderlyingIsTheClocks
<1> SUFFICES ASSUME platform = "linux"
             PROVE  /\ fast # NoTimer /\ machine.clocksource # "tsc" =>
                         fast.underlying_frequency = ClockFrequency(machine.raw_ns)
                    /\ fast # NoTimer => fast.underlying_frequency > 0
                    /\ coarse # NoTimer => coarse.underlying_frequency > 0
  BY DEF UnderlyingIsTheClocks
<1>1. \A ns \in {machine.raw_ns, machine.coarse_ns} : ns \in Nat /\ ns <= 1000000000
  BY ClockAssumption, SMT
<1>2. ClockFrequency(machine.raw_ns) > 0 /\ ClockFrequency(machine.coarse_ns) > 0
  BY <1>1, ClockTicks, SMT
<1>3. TscHz \in Nat
  BY TscHzType
<1>4. fast # NoTimer =>
        fast.underlying_frequency =
          IF TscUnderneath(SourceFromName(machine.clocksource)) THEN TscHz
          ELSE ClockFrequency(machine.raw_ns)
  BY DEF ClocksInv, LinuxFast
<1>5. TscUnderneath(SourceFromName(machine.clocksource)) => TscHz > 0
  BY <1>3 DEF TscUnderneath
<1>6. coarse # NoTimer =>
        coarse.underlying_frequency = ClockFrequency(machine.coarse_ns)
  BY DEF ClocksInv
<1>7. machine.clocksource # "tsc" => ~TscUnderneath(SourceFromName(machine.clocksource))
  BY CounterByName
<1> QED BY <1>2, <1>4, <1>5, <1>6, <1>7

-----------------------------------------------------------------------------
(* The names shown.  Each table has rows of one leaf, and no name of one   *)
(* table is in another.                                                    *)

\* The first four of the five parts of a row.
LEMMA FirstFour ==
  ASSUME NEW a, NEW b, NEW c, NEW d, NEW e
  PROVE  SubSeq(<<a, b, c, d, e>>, 1, 4) = <<a, b, c, d>>
<1> DEFINE S == {a, b, c, d, e}
           s == <<a, b, c, d, e>>
           x == SubSeq(s, 1, 4)
<1>1. /\ s[1] = a /\ s[2] = b /\ s[3] = c /\ s[4] = d
      /\ \A i \in 1..4 : s[i] \in S
  OBVIOUS
<1> HIDE DEF S, s
<1>2. /\ x \in Seq(S) /\ Len(x) = 4 - 1 + 1
      /\ \A i \in 1..4 - 1 + 1 : x[i] = s[1 + i - 1]
  BY <1>1, SubSeqProperties
<1> HIDE DEF x
<1>3. Len(x) = 4 /\ x[1] = a /\ x[2] = b /\ x[3] = c /\ x[4] = d
  BY <1>1, <1>2
<1>4. x = <<x[1], x[2], x[3], x[4]>>
  BY <1>2, <1>3
<1> QED BY <1>3, <1>4 DEF x, s

\* A table of rows of leaf n.
RowsOf(table, n) ==
  \A row \in table : /\ row = <<row[1], row[2], row[3], row[4], row[5]>>
                     /\ row[1] = n

LEMMA TablesOfLeaves ==
  /\ RowsOf(BasicTable, 1) /\ RowsOf(Leaf7Table, 7) /\ RowsOf(AvxTable, 7)
  /\ RowsOf(Avx512Table, 7) /\ RowsOf(Avx10Table, 7) /\ RowsOf(ExtTable, Ext + 1)
<1>1. RowsOf(BasicTable, 1)
  BY SMT DEF RowsOf, BasicTable
<1>2. RowsOf(Leaf7Table, 7)
  BY SMT DEF RowsOf, Leaf7Table
<1>3. RowsOf(AvxTable, 7) /\ RowsOf(Avx10Table, 7)
  BY SMT DEF RowsOf, AvxTable, Avx10Table
<1>4. RowsOf(Avx512Table, 7)
  BY SMT DEF RowsOf, Avx512Table
<1>5. RowsOf(ExtTable, Ext + 1)
  <2> DEFINE leaf == Ext + 1
  <2>1. ExtTable = {<<leaf, 0, "edx", 29, "lm">>, <<leaf, 0, "ecx", 5, "lzcnt">>,
                    <<leaf, 0, "ecx", 6, "sse4a">>, <<leaf, 0, "ecx", 11, "xop">>}
    BY DEF ExtTable
  <2> HIDE DEF leaf
  <2> QED BY <2>1, SMT DEF RowsOf, leaf
<1> QED BY <1>1, <1>2, <1>3, <1>4, <1>5

\* SGX is in no table, and AVX10 is no part of AVX-512.
LEMMA NamesApart ==
  /\ "sgx" \notin NamesOf(BasicTable) \cup NamesOf(Leaf7Table) \cup NamesOf(AvxTable)
                    \cup NamesOf(Avx512Table) \cup NamesOf(ExtTable)
  /\ "avx10" \notin NamesOf(Avx512Table)
  /\ NamesOf(Avx10Table) = {"avx10"}
<1>1. \A x \in BasicTable : x[5] # "sgx"
  BY SMT DEF BasicTable
<1>2. \A x \in Leaf7Table : x[5] # "sgx"
  BY SMT DEF Leaf7Table
<1>3. \A x \in AvxTable : x[5] # "sgx"
  BY SMT DEF AvxTable
<1>4. \A x \in ExtTable : x[5] # "sgx"
  <2> DEFINE leaf == Ext + 1
  <2>1. ExtTable = {<<leaf, 0, "edx", 29, "lm">>, <<leaf, 0, "ecx", 5, "lzcnt">>,
                    <<leaf, 0, "ecx", 6, "sse4a">>, <<leaf, 0, "ecx", 11, "xop">>}
    BY DEF ExtTable
  <2> HIDE DEF leaf
  <2> QED BY <2>1, SMT
<1>5. \A x \in Avx512Table : x[5] # "sgx" /\ x[5] # "avx10"
  BY SMT DEF Avx512Table
<1>6. NamesOf(Avx10Table) = {"avx10"}
  BY SMT DEF NamesOf, Avx10Table
<1>7. \A table : \A f : f \in NamesOf(table) <=> \E row \in table : row[5] = f
  BY DEF NamesOf
<1> QED BY <1>1, <1>2, <1>3, <1>4, <1>5, <1>6, <1>7

\* Of a leaf the processor has, what is found in a table is there.
LEMMA FoundIsThere ==
  ASSUME NEW table, NEW n, RowsOf(table, n), HasLeaf(n)
  PROVE  \A f : f \in Found(table) <=> There(table, f)
<1>1. \A row \in table : SubSeq(row, 1, 4) = <<row[1], row[2], row[3], row[4]>>
  BY FirstFour DEF RowsOf
<1>2. \A row \in table : Bit(row[1], row[2], row[3], row[4])
                           <=> HasLeaf(row[1]) /\ SubSeq(row, 1, 4) \in machine.bits
  BY <1>1 DEF RowsOf, Bit
<1> QED BY <1>2 DEF Found, NamesOf, There

\* What is there is a name of the table, whose leaf the processor has.
LEMMA ThereHasLeaf ==
  ASSUME NEW table, NEW n, RowsOf(table, n), NEW f, There(table, f)
  PROVE  HasLeaf(n) /\ f \in NamesOf(table)
  BY DEF There, RowsOf, NamesOf

LEMMA FoundNames == ASSUME NEW table PROVE Found(table) \subseteq NamesOf(table)
  BY DEF Found, NamesOf

\* What SupportedIsas is made of.
LEMMA SupportedParts ==
  /\ \A f : f \in SupportedIsas <=>
       \/ f \in Found(BasicTable)
       \/ f = "avx" /\ AvxEnabled
       \/ f \in Found(Leaf7Table) /\ Leaf7Told
       \/ f \in Found(AvxTable) /\ Leaf7Told /\ AvxEnabled
       \/ f \in Found(Avx512Table) \cup Found(Avx10Table) /\ Leaf7Told /\ Avx512OsEnabled
       \/ f \in Found(ExtTable) /\ ExtTold
  BY DEF SupportedIsas

\* Which leaves a processor has, by what the code asks of it.
LEMMA LeavesTold ==
  ASSUME machine \in Machines
  PROVE  /\ HasLeaf(1) /\ (HasLeaf(7) <=> Leaf7Told) /\ (HasLeaf(36) <=> machine.max_basic >= 36)
         /\ machine.max_ext < 0 => (HasLeaf(Ext + 1) <=> ExtTold)
         /\ ~(machine.max_ext < 0) <=> machine.max_ext >= 0
<1>1. machine.max_basic \in Nat \ {0} /\ machine.max_ext \in Int
  BY ProcessorAssumption
<1>2. HasLeaf(1) /\ (HasLeaf(7) <=> Leaf7Told) /\ (HasLeaf(36) <=> machine.max_basic >= 36)
  BY <1>1, SMT DEF HasLeaf, Leaf7Told
<1>3. Ext + 1 < 0 /\ Ext + 1 \in Int
  BY SMT DEF Ext
<1>4. HasLeaf(Ext + 1) <=> machine.max_ext < 0 /\ Ext + 1 <= machine.max_ext
  BY <1>3 DEF HasLeaf
<1> DEFINE leaf == Ext + 1
<1>5. HasLeaf(Ext + 1) <=> machine.max_ext < 0 /\ leaf <= machine.max_ext
  BY <1>4
<1>6. ExtTold <=> machine.max_ext >= leaf
  BY DEF ExtTold
<1>7. leaf \in Int
  BY <1>3
<1> HIDE DEF leaf
<1> QED BY <1>1, <1>2, <1>5, <1>6, <1>7

\* The code finds AVX and AVX-512 where they are there and their registers saved.
LEMMA SavedTold ==
  ASSUME machine \in Machines
  PROVE  /\ AvxEnabled <=> AvxSaved({1, 2})
         /\ Avx512OsEnabled <=> AvxSaved({1, 2, 5, 6, 7})
<1>1. HasLeaf(1)
  BY LeavesTold
<1>2. /\ Bit(1, 0, "ecx", 27) <=> <<1, 0, "ecx", 27>> \in machine.bits
      /\ Bit(1, 0, "ecx", 28) <=> <<1, 0, "ecx", 28>> \in machine.bits
  BY <1>1 DEF Bit
<1> DEFINE there == {<<1, 0, "ecx", 27>>, <<1, 0, "ecx", 28>>} \subseteq machine.bits
<1>3. Xcr0 = IF there THEN machine.xcr0 ELSE {}
  BY <1>2 DEF Xcr0
<1>4. \A states : AvxSaved(states) <=> there /\ states \subseteq machine.xcr0
  BY DEF AvxSaved
<1> HIDE DEF there
<1>5. \A states : states # {} => (states \subseteq Xcr0 <=> AvxSaved(states))
  BY <1>3, <1>4
<1> QED BY <1>5 DEF AvxEnabled, Avx512OsEnabled

\* What is supported, table by table, in terms of what is there.
LEMMA SupportedThere ==
  ASSUME machine \in Machines
  PROVE  \A f : f \in SupportedIsas <=>
           \/ There(BasicTable, f)
           \/ f = "avx" /\ AvxEnabled
           \/ There(Leaf7Table, f)
           \/ There(AvxTable, f) /\ AvxEnabled
           \/ (There(Avx512Table, f) \/ There(Avx10Table, f)) /\ Avx512OsEnabled
           \/ f \in Found(ExtTable) /\ ExtTold
<1>1. HasLeaf(1) /\ (HasLeaf(7) <=> Leaf7Told)
  BY LeavesTold
<1>2. \A f : f \in Found(BasicTable) <=> There(BasicTable, f)
  BY <1>1, FoundIsThere, TablesOfLeaves
<1>3. ASSUME NEW table \in {Leaf7Table, AvxTable, Avx512Table, Avx10Table}
      PROVE  \A f : f \in Found(table) /\ Leaf7Told <=> There(table, f)
  <2>1. RowsOf(table, 7)
    BY <1>3, TablesOfLeaves
  <2>2. Leaf7Told => \A f : f \in Found(table) <=> There(table, f)
    BY <1>1, <2>1, FoundIsThere
  <2>3. \A f : There(table, f) => Leaf7Told
    BY <1>1, <2>1, ThereHasLeaf
  <2> QED BY <2>2, <2>3
<1>4. /\ \A f : f \in Found(Leaf7Table) /\ Leaf7Told <=> There(Leaf7Table, f)
      /\ \A f : f \in Found(AvxTable) /\ Leaf7Told <=> There(AvxTable, f)
      /\ \A f : f \in Found(Avx512Table) /\ Leaf7Told <=> There(Avx512Table, f)
      /\ \A f : f \in Found(Avx10Table) /\ Leaf7Told <=> There(Avx10Table, f)
  BY <1>3
<1>5. TAKE f
<1>6. f \in SupportedIsas <=>
       \/ f \in Found(BasicTable)
       \/ f = "avx" /\ AvxEnabled
       \/ f \in Found(Leaf7Table) /\ Leaf7Told
       \/ f \in Found(AvxTable) /\ Leaf7Told /\ AvxEnabled
       \/ (f \in Found(Avx512Table) \/ f \in Found(Avx10Table)) /\ Leaf7Told /\ Avx512OsEnabled
       \/ f \in Found(ExtTable) /\ ExtTold
  BY SupportedParts
<1> QED BY <1>2, <1>4, <1>6

\* A feature is found supported just if it is usable, but for the extended
\* ones of a processor that has no extended leaves.
LEMMA SupportedUsable ==
  ASSUME machine \in Machines, NEW f,
         machine.max_ext < 0 \/ f \notin NamesOf(ExtTable)
  PROVE  f \in SupportedIsas <=> Usable(f)
<1>1. f \in Found(ExtTable) /\ ExtTold <=> There(ExtTable, f)
  <2>1. There(ExtTable, f) => HasLeaf(Ext + 1) /\ f \in NamesOf(ExtTable)
    BY ThereHasLeaf, TablesOfLeaves
  <2>2. machine.max_ext < 0 => (HasLeaf(Ext + 1) <=> ExtTold)
    BY LeavesTold
  <2>3. HasLeaf(Ext + 1) => (f \in Found(ExtTable) <=> There(ExtTable, f))
    BY FoundIsThere, TablesOfLeaves
  <2>4. f \in Found(ExtTable) => f \in NamesOf(ExtTable)
    BY FoundNames
  <2> QED BY <2>1, <2>2, <2>3, <2>4
<1>2. /\ AvxEnabled <=> AvxSaved({1, 2})
      /\ Avx512OsEnabled <=> AvxSaved({1, 2, 5, 6, 7})
  BY SavedTold
<1>3. f \in SupportedIsas <=>
           \/ There(BasicTable, f)
           \/ f = "avx" /\ AvxEnabled
           \/ There(Leaf7Table, f)
           \/ There(AvxTable, f) /\ AvxEnabled
           \/ (There(Avx512Table, f) \/ There(Avx10Table, f)) /\ Avx512OsEnabled
           \/ f \in Found(ExtTable) /\ ExtTold
  BY SupportedThere
<1> QED BY <1>1, <1>2, <1>3 DEF Usable

\* SGX is found in no answer.
LEMMA SgxNotSupported == "sgx" \notin SupportedIsas
<1>1. "sgx" \notin NamesOf(BasicTable) \cup NamesOf(Leaf7Table) \cup NamesOf(AvxTable)
                    \cup NamesOf(Avx512Table) \cup NamesOf(ExtTable)
  BY NamesApart
<1>2. "sgx" \notin NamesOf(Avx10Table)
  BY NamesApart
<1> QED BY <1>1, <1>2, FoundNames, SupportedParts

\* The names that are shown are true.
LEMMA NamesRight == ASSUME machine \in Machines, NamesInv PROVE IsaStringTrue
<1> SUFFICES ASSUME NEW s \in isa
             PROVE
    LET named == s.names \cup (IF s.avx10 THEN {"avx10"} ELSE {})
    IN  /\ named \subseteq Shown \cup {"avx10"}
        /\ \A f \in Shown \cup {"avx10"} :
             machine.max_ext < 0 \/ f \notin NamesOf(ExtTable) =>
               (f \in named <=> Usable(f) /\ ~(s.avx10 /\ f \in NamesOf(Avx512Table)))
        /\ "sgx" \notin named
        /\ s.version # 0 => s.avx10 /\ HasLeaf(36)
  BY DEF IsaStringTrue
<1> DEFINE named == s.names \cup (IF s.avx10 THEN {"avx10"} ELSE {})
<1>1. /\ s.avx10 = ("avx10" \in SupportedIsas) /\ s.version = Avx10Version
      /\ s.names = (Shown \cap SupportedIsas) \
                     (IF "avx10" \in SupportedIsas THEN NamesOf(Avx512Table) ELSE {})
  BY DEF NamesInv, IsaNames
<1>2. "avx10" \notin NamesOf(Avx512Table)
  BY NamesApart
<1>3. \A f \in Shown \cup {"avx10"} :
        f \in named <=> f \in SupportedIsas /\ ~(s.avx10 /\ f \in NamesOf(Avx512Table))
  BY <1>1, <1>2
<1>4. named \subseteq Shown \cup {"avx10"} /\ named \subseteq SupportedIsas
  BY <1>1
<1>5. "sgx" \notin named
  BY <1>4, SgxNotSupported
<1>6. s.version # 0 => s.avx10 /\ HasLeaf(36)
  <2>1. s.version # 0 => Avx10Told
    BY <1>1 DEF Avx10Version
  <2> QED BY <1>1, <2>1, LeavesTold DEF Avx10Told
<1>7. ASSUME NEW f \in Shown \cup {"avx10"},
             machine.max_ext < 0 \/ f \notin NamesOf(ExtTable)
      PROVE  f \in named <=> Usable(f) /\ ~(s.avx10 /\ f \in NamesOf(Avx512Table))
  BY <1>3, <1>7, SupportedUsable
<1> HIDE DEF named
<1> QED BY <1>4, <1>5, <1>6, <1>7 DEF named

-----------------------------------------------------------------------------
(* The invariant of Spec.                                                  *)

\* A set of natural numbers that is not empty has a least one.
LEMMA LeastNat ==
  ASSUME NEW T, T \subseteq Nat, T # {}
  PROVE  \E n \in T : \A m \in T : n <= m
<1>1. PICK n \in T : \A m \in T : ~(<<m, n>> \in OpToRel(<, Nat))
  BY NatLessThanWellFounded, WFMin
<1>2. \A m \in T : ~(m < n)
  BY <1>1 DEF OpToRel
<1> QED BY <1>2

\* The memory get_available_mem tells fits its type.
LEMMA MemoryType == ASSUME machine \in Machines, platform \in Platforms PROVE IsUint64(AvailableMem)
<1>1. IsUint64(0)
  BY SMT DEF IsUint64
<1>2. IsUint64(FirstKb("MemAvailable") * 1024)
  <2>1. DOMAIN machine.meminfo \subseteq Nat
    <3>1. machine.meminfo \in Seq([label : STRING, kb : Nat \cup {Null}])
      BY MemoryAssumption, ZenonT(30)
    <3> QED BY <3>1
  <2> DEFINE there == {l \in DOMAIN machine.meminfo : machine.meminfo[l].label = "MemAvailable"}
             kb == machine.meminfo[Min(there)].kb
  <2>2. FirstKb("MemAvailable") = IF there = {} THEN 0 ELSE IF kb = Null THEN 0 ELSE kb
    BY DEF FirstKb
  <2>3. CASE there = {} \/ kb = Null
    <3>1. FirstKb("MemAvailable") * 1024 = 0
      BY <2>2, <2>3
    <3> QED BY <1>1, <3>1
  <2>4. CASE there # {} /\ kb # Null
    <3>2. there \subseteq Nat
      BY <2>1
    <3>3. Min(there) \in there
      <4> HIDE DEF there
      <4>1. \E n \in there : \A x \in there : n <= x
        BY <2>4, <3>2, LeastNat
      <4> QED BY <4>1 DEF Min
    <3>4. IsUint64(kb * 1024)
      <4>1. \A l \in DOMAIN machine.meminfo :
              machine.meminfo[l].kb # Null => IsUint64(machine.meminfo[l].kb * 1024)
        BY MemoryAssumption
      <4>2. Min(there) \in DOMAIN machine.meminfo
        BY <3>3
      <4> HIDE DEF there
      <4> QED BY <2>4, <4>1, <4>2
    <3> QED BY <2>2, <2>4, <3>4
  <2> QED BY <2>3, <2>4
<1>3. machine.avail_phys # Null => IsUint64(machine.avail_phys)
  BY MemoryAssumption
<1> QED BY <1>1, <1>2, <1>3 DEF AvailableMem, Platforms

\* What the features, the timers and the memory read stays what it is.
LEMMA AnswersKept ==
  ASSUME UNCHANGED machine
  PROVE  IsaNames' = IsaNames /\ LinuxFast' = LinuxFast
<1>1. \A n, s, reg, b : Bit(n, s, reg, b)' = Bit(n, s, reg, b)
  BY DEF Bit, HasLeaf
<1>2. \A table : Found(table)' = Found(table)
  BY <1>1 DEF Found, NamesOf
<1>3. Xcr0' = Xcr0
  BY <1>1 DEF Xcr0
<1>4. SupportedIsas' = SupportedIsas
  BY <1>2, <1>3 DEF SupportedIsas, AvxEnabled, Avx512OsEnabled, Leaf7Told, ExtTold
<1>5. Avx10Told' = Avx10Told
  BY <1>4 DEF Avx10Told
<1>6. Avx10Version' = Avx10Version /\ Avx10Length' = Avx10Length
  BY <1>1, <1>5, SMT DEF Avx10Version, Avx10Length
<1>7. IsaNames' = IsaNames
  BY <1>4, <1>6, SMT DEF IsaNames
<1>8. Leaf15' = Leaf15 /\ Leaf16' = Leaf16
  BY SMT DEF Leaf15, Leaf16, Leaf
<1>9. RatioKnown' = RatioKnown
  BY <1>8, SMT DEF RatioKnown
<1>10. TscHz' = TscHz
  BY <1>8, <1>9, SMT DEF TscHz
<1>11. TscSource' = TscSource
  BY <1>1, SMT DEF TscSource, TscClockInfo
<1>12. \A name : SourceFromName(name)' = SourceFromName(name)
  BY <1>11, Zenon DEF SourceFromName
<1>13. \A source : TscUnderneath(source)' = TscUnderneath(source)
  BY <1>10, SMT DEF TscUnderneath
<1>14. LinuxFast' = LinuxFast
  BY <1>10, <1>12, <1>13, SMT DEF LinuxFast, ClockFrequency
<1> QED BY <1>7, <1>14

LEMMA InitInv == Init => BoxInv
<1> SUFFICES ASSUME Init PROVE BoxInv
  OBVIOUS
<1>1. /\ machine \in Machines /\ isa = {} /\ platform \in Platforms
      /\ fast = NoTimer /\ coarse = NoTimer /\ available = 0 /\ shown = InUnits(0, 1024)
  BY DEF Init, CpuidInit, TimerInit
<1>2. MemoryInv
  <2>1. IsUint64(0)
    BY SMT DEF IsUint64
  <2> QED BY <1>1, <2>1 DEF MemoryInv, FormatBytes
<1> QED BY <1>1, <1>2 DEF BoxInv, ClocksInv, NamesInv

LEMMA InvKept == ASSUME BoxInv, [Next]_vars PROVE BoxInv'
<1>1. machine' = machine /\ platform' = platform
  BY DEF Next, vars, cpu, timers, TimerStep, CreateFastTimer, CreateCoarseTimer,
         AskFeatures, ShowMemory
<1>2. IsaNames' = IsaNames /\ LinuxFast' = LinuxFast
  BY <1>1, AnswersKept
<1>3. MemoryInv'
  <2>1. CASE ShowMemory
    <3>1. IsUint64(AvailableMem)
      BY MemoryType DEF BoxInv
    <3> QED BY <2>1, <3>1 DEF ShowMemory, MemoryInv
  <2>2. CASE UNCHANGED <<available, shown>>
    BY <2>2 DEF BoxInv, MemoryInv
  <2> QED BY <2>1, <2>2 DEF Next, vars, TimerStep, CreateFastTimer, CreateCoarseTimer,
                            AskFeatures
<1>4. ClocksInv'
  <2> SUFFICES ASSUME platform = "linux"
               PROVE  /\ fast' \in {NoTimer, LinuxFast}
                      /\ coarse' # NoTimer => coarse'.underlying_frequency
                                                = ClockFrequency(machine.coarse_ns)
    BY <1>1, <1>2 DEF ClocksInv
  <2>1. /\ fast \in {NoTimer, LinuxFast}
        /\ coarse # NoTimer =>
             coarse.underlying_frequency = ClockFrequency(machine.coarse_ns)
    BY DEF BoxInv, ClocksInv
  <2>2. CASE CreateFastTimer
    BY <2>1, <2>2 DEF CreateFastTimer
  <2>3. CASE CreateCoarseTimer
    BY <2>1, <2>3 DEF CreateCoarseTimer
  <2>4. CASE UNCHANGED <<fast, coarse>>
    BY <2>1, <2>4
  <2> QED BY <2>2, <2>3, <2>4 DEF Next, vars, timers, TimerStep, AskFeatures, ShowMemory
<1>5. NamesInv'
  <2>1. CASE AskFeatures
    BY <1>2, <2>1 DEF AskFeatures, NamesInv
  <2>2. CASE UNCHANGED isa
    BY <1>2, <2>2 DEF BoxInv, NamesInv
  <2> QED BY <2>1, <2>2 DEF Next, vars, cpu, TimerStep, ShowMemory
<1> QED BY <1>1, <1>3, <1>4, <1>5 DEF BoxInv

\* What has been told of a machine is what it says: the inductive invariant.
THEOREM Invariance == Spec => []BoxInv
  BY InitInv, InvKept, PTL DEF Spec

\* However much memory get_available_mem tells, format_bytes shows it to within
\* half of its last digit, in the unit it fills.
THEOREM MemoryIsShown == Spec => []MemoryShown
<1>1. BoxInv => MemoryShown
  BY ShownRight DEF BoxInv
<1> QED BY <1>1, Invariance, PTL

\* On any machine, a timer made on Linux has the frequency of the clock that the
\* kernel runs on, which is never 0.
THEOREM FrequencyOfClock == Spec => []UnderlyingIsTheClocks
<1>1. BoxInv => UnderlyingIsTheClocks
  BY UnderlyingRight DEF BoxInv
<1> QED BY <1>1, Invariance, PTL

\* Whatever a processor answers and the system saves, get_cpu_isa_string names
\* the features that are usable and no other; AVX10 stands for those of AVX-512,
\* and SGX is not named.
THEOREM NamesAreTrue == Spec => []IsaStringTrue
<1>1. BoxInv => IsaStringTrue
  BY NamesRight DEF BoxInv
<1> QED BY <1>1, Invariance, PTL

=============================================================================
