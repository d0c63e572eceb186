----------------------------- MODULE SweepProofs -----------------------------
(***************************************************************************)
(* The loop of expand_range returns the exact progression and never wraps  *)
(* around, for an unsigned type of any width and any range with a stride;  *)
(* and the sweep helpers give for any option just what it means, whatever  *)
(* the type, the default range and the array (NumericAsAsked,              *)
(* FilteredAsAsked).  The parser is related to the grammar in two lemmas   *)
(* for ranges (ReadingParsed, ParsedReading) and two for lists             *)
(* (ListOfPieces, PiecesOfList), Ascending to a loop in AscendingIs.       *)
(***************************************************************************)
EXTENDS Sweep, FiniteSetTheorems, SequenceTheorems, WellFoundedInduction, TLAPS

-----------------------------------------------------------------------------
(* The loop of expand_range.                                               *)

\* The bounds of the variables, from the type invariant.
LEMMA Types ==
  ASSUME TypeOK
  PROVE  /\ Modulus \in Nat \ {0}
         /\ range.min \in Nat /\ range.min < Modulus
         /\ range.max \in Nat /\ range.max < Modulus
         /\ range.stride \in Nat /\ range.stride > 0
         /\ val \in Nat /\ val < Modulus
         /\ Len(out) \in Nat /\ DOMAIN out = 1..Len(out)
  BY RangesAssumption DEF TypeOK

\* An addition that stays below the modulus is exact.
LEMMA PlusExact ==
  ASSUME NEW a \in Nat, NEW b \in Nat, Modulus \in Nat \ {0}, a + b < Modulus
  PROVE  Plus(a, b) = a + b
  BY DEF Plus

\* A step of the loop adds the stride exactly.
LEMMA IterateExact ==
  ASSUME TypeOK, Iterate
  PROVE  val' = val + range.stride /\ val' < Modulus
  <1>1. val + range.stride <= range.max
    BY Types DEF Iterate, WouldPass
  <1>2. val + range.stride < Modulus
    BY <1>1, Types
  <1> QED BY <1>2, Types, PlusExact DEF Iterate

\* A value put out is the next one of the progression and not beyond max.
LEMMA AppendStep ==
  ASSUME TypeOK, Inv, pc = "loop", val <= range.max,
         out' = Append(out, val), range' = range
  PROVE  /\ out' \in Seq(0..(Modulus - 1)) /\ Len(out') = Len(out) + 1
         /\ \A n \in DOMAIN out' :
              out'[n] = range.min + (n - 1) * range.stride
              /\ out'[n] <= range.max
  <1>1. /\ out' \in Seq(0..(Modulus - 1)) /\ Len(out') = Len(out) + 1
        /\ DOMAIN out' = 1..(Len(out) + 1) /\ DOMAIN out = 1..Len(out)
        /\ out'[Len(out) + 1] = val
        /\ \A n \in 1..Len(out) : out'[n] = out[n]
    BY DEF TypeOK
  <1>2. val = range.min + Len(out) * range.stride
    BY DEF Inv
  <1>3. ASSUME NEW n \in 1..(Len(out) + 1)
        PROVE  out'[n] = range.min + (n - 1) * range.stride
               /\ out'[n] <= range.max
    <2>1. CASE n \in 1..Len(out)
      BY <1>1, <2>1 DEF Inv, Progression
    <2>2. CASE n = Len(out) + 1
      <3>1. n - 1 = Len(out)
        BY <2>2, Types
      <3> QED BY <1>1, <1>2, <2>2, <3>1
    <2> QED BY <2>1, <2>2, Types
  <1> QED BY <1>1, <1>3

\* The product after one more stride.
LEMMA NextMultiple ==
  ASSUME NEW n \in Nat, NEW s \in Nat
  PROVE  (n + 1) * s = n * s + s /\ n * s \in Nat
  OBVIOUS

\* A stride longer than what is left passes the end.
LEMMA PastTheEnd ==
  ASSUME NEW a \in Nat, NEW m \in Nat, NEW s \in Nat, NEW z \in Nat, NEW v \in Nat,
         v = a + m, v <= z, s > z - v
  PROVE  a + (m + s) > z
  OBVIOUS

\* An iteration of the loop keeps its invariant.
LEMMA LoopKept == ASSUME Inv, [Next]_vars PROVE Inv'
  <1>0. TypeOK
    BY DEF Inv
  <1>1. CASE Exit
    BY <1>0, <1>1, Types DEF Exit, Inv, TypeOK, Progression
  <1>2. CASE Stop
    <2>1. /\ out' \in Seq(0..(Modulus - 1)) /\ Len(out') = Len(out) + 1
          /\ \A n \in DOMAIN out' :
               out'[n] = range.min + (n - 1) * range.stride
               /\ out'[n] <= range.max
      BY <1>0, <1>2, AppendStep DEF Stop
    <2>2. val = range.min + Len(out) * range.stride
      BY <1>2 DEF Inv, Stop
    <2>3. (Len(out) + 1) * range.stride = Len(out) * range.stride + range.stride
      BY <1>0, Types, NextMultiple
    <2>4. Len(out) * range.stride \in Nat
      BY <1>0, Types, NextMultiple
    <2> DEFINE m == Len(out) * range.stride
    <2>5. range.min + (m + range.stride) > range.max
      <3>1. val <= range.max /\ range.stride > range.max - val
        BY <1>2 DEF Stop, WouldPass
      <3>2. val = range.min + m /\ m \in Nat
        BY <2>2, <2>4
      <3> HIDE DEF m
      <3> QED BY <1>0, <3>1, <3>2, Types, PastTheEnd
    <2>6. range.min + Len(out') * range.stride > range.max
      BY <2>1, <2>3, <2>5
    <2> QED BY <1>0, <1>2, <2>1, <2>6 DEF Stop, Inv, TypeOK, Progression
  <1>3. CASE Iterate
    <2>1. /\ out' \in Seq(0..(Modulus - 1)) /\ Len(out') = Len(out) + 1
          /\ \A n \in DOMAIN out' :
               out'[n] = range.min + (n - 1) * range.stride
               /\ out'[n] <= range.max
      BY <1>0, <1>3, AppendStep DEF Iterate
    <2>2. val' = val + range.stride /\ val' < Modulus
      BY <1>0, <1>3, IterateExact
    <2>3. val' \in 0..(Modulus - 1)
      BY <1>0, <2>2, Types
    <2>4. (Len(out) + 1) * range.stride = Len(out) * range.stride + range.stride
      BY <1>0, Types, NextMultiple
    <2>5. Len(out) * range.stride \in Nat
      BY <1>0, Types, NextMultiple
    <2> DEFINE m == Len(out) * range.stride
    <2>6. val' = range.min + Len(out') * range.stride
      <3>1. val = range.min + m /\ m \in Nat
        BY <1>3, <2>5 DEF Inv, Iterate
      <3> HIDE DEF m
      <3>2. val' = range.min + (m + range.stride)
        BY <1>0, <2>2, <3>1, Types
      <3>3. Len(out') * range.stride = m + range.stride
        BY <2>1, <2>4 DEF m
      <3> QED BY <3>2, <3>3
    <2> QED
      BY <1>0, <1>3, <2>1, <2>3, <2>6 DEF Iterate, Inv, TypeOK, Progression
  <1>4. CASE UNCHANGED vars
    BY <1>4 DEF vars, Inv, TypeOK, Progression
  <1> QED BY <1>1, <1>2, <1>3, <1>4 DEF Next, Returned

\* Whatever the width of the type and the range, the loop variable is the

\* next value of the progression and the result so far is its beginning.
THEOREM Invariance == Spec => []Inv
  <1>1. Init => Inv
    <2> SUFFICES ASSUME Init PROVE Inv
      OBVIOUS
    <2>1. TypeOK
      BY RangesAssumption DEF Init, TypeOK
    <2> QED BY <2>1, Types DEF Init, Inv, Progression
  <1>2. Inv /\ [Next]_vars => Inv'
    BY LoopKept
  <1> QED BY <1>1, <1>2, PTL DEF Spec

\* expand_range gives exactly the progression, for every width and range.
THEOREM ExpandsExactly == Spec => []Progression
  BY Invariance, PTL DEF Inv

\* The loop variable of expand_range never wraps around.
THEOREM NoWrapAround == Spec => NeverWraps
  <1>1. Inv /\ [Next]_vars => [val' >= val]_vars
    <2> SUFFICES ASSUME Inv, [Next]_vars PROVE [val' >= val]_vars
      OBVIOUS
    <2>0. TypeOK /\ val \in Nat /\ range.stride \in Nat
      BY Types DEF Inv
    <2>1. CASE Iterate
      BY <2>0, <2>1, IterateExact
    <2>2. CASE val' = val
      BY <2>0, <2>2
    <2> QED BY <2>1, <2>2 DEF Next, Exit, Stop, Returned, vars
  <1> QED BY <1>1, Invariance, PTL DEF Spec, NeverWraps

-----------------------------------------------------------------------------
(* The inductive invariant of the sweep helpers.                           *)

\* What make_numeric_sweep makes of its option.
NumericSweep ==
  IF IsAuto(opt) THEN [n \in 1..(End - Begin) |-> Begin + n - 1]
  ELSE IF Option = Null THEN Numbers(opt) ELSE Expanded(Option)

ResultInv ==
  stage = "returned" =>
    /\ kind = "numeric" => result = NumericSweep
    /\ kind = "filtered" => result = FilteredSweep(opt)
    /\ kind = "names" => result = NameSweep(opt)

\* Before the loop of a numeric range, and while it runs, it has that range.
SweepInv ==
  /\ Inv
  /\ stage \in {"called", "expanding", "returned"}
  /\ kind # "range" => opt \in Strings
  /\ stage = "called" => LoopIdle
  /\ stage = "expanding" /\ kind # "range" =>
       kind = "numeric" /\ ~IsAuto(opt) /\ Option # Null /\ range = Option
  /\ ResultInv

\* T has a number that is not zero, as the default range is not empty.
LEMMA Numerals ==
  /\ Modulus \in Nat /\ Modulus > 1
  /\ Begin \in Numeral /\ End \in Numeral /\ Begin < End
  /\ 0 \in Numeral /\ 1 \in Numeral /\ Numeral \subseteq Nat
  BY RangesAssumption, SweepAssumption DEF Numeral

\* What parse_int accepts is a number of the type.
LEMMA ValueOrTyped ==
  ASSUME NEW part, NEW default \in Numeral
  PROVE  ValueOr(part, default) \in Numeral \cup {Null}
  BY SweepAssumption DEF ValueOr, ParseInt

\* A range that parse_range accepts is one of numbers of the type, in their

\* order and with a stride that is not zero.
LEMMA RangeTyped ==
  ASSUME NEW s, NEW min \in Numeral, NEW max \in Numeral,
         ~IsAuto(s), ParseRange(s, min, max, 1) # Null
  PROVE  /\ ParseRange(s, min, max, 1) \in [min : Numeral, max : Numeral, stride : 1..(Modulus - 1)]
         /\ ParseRange(s, min, max, 1).min <= ParseRange(s, min, max, 1).max
<1> DEFINE parts == ParseMinMaxStride(s)
           r == [min    |-> ValueOr(parts.min, min),
                 max    |-> ValueOr(parts.max, max),
                 stride |-> ValueOr(parts.stride, 1)]
<1>1. /\ ParseRange(s, min, max, 1) = r /\ Null \notin {r.min, r.max, r.stride}
      /\ ~(r.min > r.max) /\ r.stride # 0
  BY DEF ParseRange
<1>2. /\ ValueOr(parts.min, min) \in Numeral \cup {Null}
      /\ ValueOr(parts.max, max) \in Numeral \cup {Null}
      /\ ValueOr(parts.stride, 1) \in Numeral \cup {Null}
  BY Numerals, ValueOrTyped
<1> HIDE DEF parts
<1>3. r.min \in Numeral /\ r.max \in Numeral /\ r.stride \in Numeral
  BY <1>1, <1>2
<1>4. r.stride \in 1..(Modulus - 1) /\ r.min <= r.max
  BY <1>1, <1>3, Numerals DEF Numeral
<1> QED BY <1>1, <1>3, <1>4

\* A range of the type is one the loop runs on.
LEMMA OptionRuns ==
  ASSUME ~IsAuto(opt), Option # Null
  PROVE  /\ Option \in [min : 0..(Modulus - 1), max : 0..(Modulus - 1),
                        stride : 1..(Modulus - 1)]
         /\ Option.min <= Option.max
  BY Numerals, RangeTyped DEF Option, Numeral

\* A quotient is the number of times the divisor fits.
LEMMA QuotientIs ==
  ASSUME NEW a \in Nat, NEW b \in Nat \ {0}, NEW k \in Nat,
         k * b <= a, a < k * b + b
  PROVE  a \div b = k
<1>1. a \div b \in Nat /\ b * (a \div b) <= a /\ a < b * (a \div b) + b
  BY SMT
<1> DEFINE q == a \div b
<1>2. q \in Nat /\ q * b <= a /\ a < q * b + b
  BY <1>1
<1> HIDE DEF q
<1>3. q <= k
  <2> SUFFICES ASSUME q >= k + 1 PROVE FALSE
    BY <1>2
  <2>1. q * b >= (k + 1) * b
    BY <1>2
  <2>2. (k + 1) * b = k * b + b /\ k * b \in Nat
    OBVIOUS
  <2>3. q * b \in Nat
    BY <1>2
  <2> QED BY <1>2, <2>1, <2>2, <2>3
<1>4. k <= q
  <2> SUFFICES ASSUME k >= q + 1 PROVE FALSE
    BY <1>2
  <2>1. k * b >= (q + 1) * b
    BY <1>2
  <2>2. (q + 1) * b = q * b + b /\ q * b \in Nat /\ k * b \in Nat
    BY <1>2
  <2> QED BY <1>2, <2>1, <2>2
<1> QED BY <1>2, <1>3, <1>4 DEF q

\* The loop that has ended has put out the whole progression of its range.
LEMMA LoopEnded ==
  ASSUME Inv, pc = "done", range.min <= range.max
  PROVE  out = Expanded(range) /\ out # <<>>
<1> DEFINE len == Len(out)
           d == range.max - range.min
           st == range.stride
<1>1. /\ len \in Nat /\ DOMAIN out = 1..len
      /\ range.min \in Nat /\ range.max \in Nat /\ st \in Nat \ {0} /\ d \in Nat
  BY Types DEF Inv
<1>2. /\ \A n \in 1..len : out[n] = range.min + (n - 1) * range.stride /\ out[n] <= range.max
      /\ range.min + len * st > range.max
  BY <1>1 DEF Inv, Progression
<1> HIDE DEF len, d
<1>3. len # 0
  <2> SUFFICES ASSUME len = 0 PROVE FALSE
    OBVIOUS
  <2>1. len * st = 0
    BY <1>1
  <2> QED BY <1>1, <1>2, <2>1
<1> DEFINE k == len - 1
<1>4. k \in Nat /\ k * st \in Nat /\ len * st = k * st + st
  <2>1. k \in Nat /\ len = k + 1
    BY <1>1, <1>3
  <2> HIDE DEF k
  <2> QED BY <1>1, <2>1, NextMultiple
<1>5. k * st <= d
  <2>1. out[len] = range.min + k * st /\ out[len] <= range.max
    BY <1>1, <1>2, <1>3
  <2> DEFINE m == k * st
  <2>2. range.min + m <= range.max /\ m \in Nat
    BY <1>4, <2>1
  <2> HIDE DEF k, m
  <2>3. m <= d
    BY <1>1, <2>2 DEF d
  <2> QED BY <2>3 DEF m
<1>6. d < k * st + st
  <2> DEFINE m == k * st + st
  <2>1. range.min + m > range.max /\ m \in Nat
    <3> HIDE DEF st, k
    <3>1. range.min + len * st > range.max
      BY <1>2
    <3> QED BY <1>1, <1>4, <3>1
  <2> HIDE DEF k, m
  <2>2. d < m
    BY <1>1, <2>1 DEF d
  <2> QED BY <2>2 DEF m
<1>7. d \div st + 1 = len
  <2>1. d \div st = k
    <3> HIDE DEF k, st
    <3> QED BY <1>1, <1>4, <1>5, <1>6, QuotientIs
  <2> QED BY <1>1, <2>1
<1>8. DOMAIN out = 1..((range.max - range.min) \div range.stride + 1)
  BY <1>1, <1>7 DEF d
<1>9. out \in Seq(0..(Modulus - 1))
  BY DEF Inv, TypeOK
<1>10. out = [n \in 1..((range.max - range.min) \div range.stride + 1) |->
                range.min + (n - 1) * range.stride]
  BY <1>1, <1>2, <1>8, <1>9
<1> QED BY <1>1, <1>3, <1>10 DEF Expanded, len

\* The sweep is called, or its loop, with nothing made yet.
LEMMA SweepStarts == SweepInit => SweepInv
<1> SUFFICES ASSUME SweepInit PROVE SweepInv
  OBVIOUS
<1>1. CASE kind = "range"
  <2>1. Init /\ stage = "expanding"
    BY <1>1 DEF SweepInit
  <2>2. TypeOK
    BY <2>1, RangesAssumption DEF Init, TypeOK
  <2>3. Inv
    BY <2>1, <2>2, Types DEF Init, Inv, Progression
  <2> QED BY <1>1, <2>1, <2>3 DEF SweepInv, ResultInv
<1>2. CASE kind # "range"
  <2>1. opt \in Strings /\ stage = "called" /\ LoopIdle
    BY <1>2 DEF SweepInit
  <2>2. TypeOK /\ Len(out) = 0 /\ DOMAIN out = {}
    BY <2>1, Numerals DEF LoopIdle, TypeOK, Numeral
  <2>3. Inv
    BY <2>1, <2>2 DEF LoopIdle, Inv, Progression
  <2> QED BY <1>2, <2>1, <2>3 DEF SweepInv, ResultInv
<1> QED BY <1>1, <1>2

\* The loop of a range that was accepted starts at its least value.
LEMMA RangeStarts == ASSUME SweepInv, MakeRange PROVE SweepInv'
<1>1. /\ kind = "numeric" /\ ~IsAuto(opt) /\ Option # Null /\ opt \in Strings
      /\ range' = Option /\ val' = Option.min /\ stage' = "expanding"
      /\ out' = <<>> /\ pc' = "loop" /\ UNCHANGED <<kind, opt, result>>
  BY DEF MakeRange, SweepInv, LoopIdle
<1>2. /\ Option \in [min : 0..(Modulus - 1), max : 0..(Modulus - 1),
                     stride : 1..(Modulus - 1)]
  BY <1>1, OptionRuns
<1>3. TypeOK' /\ Len(out') = 0 /\ DOMAIN out' = {}
  BY <1>1, <1>2 DEF TypeOK
<1>4. range'.min \in Nat /\ range'.stride \in Nat
  BY <1>1, <1>2
<1>5. Inv'
  BY <1>1, <1>3, <1>4 DEF Inv, Progression
<1>6. Option' = Option
  BY <1>1 DEF Option
<1> QED BY <1>1, <1>5, <1>6 DEF SweepInv, ResultInv

\* Every step of a sweep helper keeps the invariant.
LEMMA SweepKept == ASSUME SweepInv, [SweepNext]_<<sweepVars, vars>> PROVE SweepInv'
<1>0. Inv
  BY DEF SweepInv
<1>1. ASSUME UNCHANGED vars PROVE Inv'
  BY <1>0, <1>1, LoopKept
<1>2. CASE MakeFiltered
  <2>1. /\ kind \in {"filtered", "names"} /\ stage' = "returned"
        /\ result' = IF kind = "filtered" THEN FilteredSweep(opt) ELSE NameSweep(opt)
        /\ UNCHANGED <<kind, opt>> /\ UNCHANGED vars
    BY <1>2 DEF MakeFiltered
  <2> QED BY <1>1, <2>1 DEF SweepInv, ResultInv
<1>3. CASE MakeDefault
  <2>1. /\ kind = "numeric" /\ stage' = "returned" /\ IsAuto(opt)
        /\ result' = [n \in 1..(End - Begin) |-> Begin + n - 1]
        /\ UNCHANGED <<kind, opt>> /\ UNCHANGED vars
    BY <1>3 DEF MakeDefault
  <2>2. result' = NumericSweep'
    BY <2>1 DEF NumericSweep
  <2> QED BY <1>1, <2>1, <2>2 DEF SweepInv, ResultInv
<1>4. CASE MakeRange
  BY <1>4, RangeStarts
<1>5. CASE MakeList
  <2>1. /\ kind = "numeric" /\ stage' = "returned" /\ ~IsAuto(opt) /\ Option = Null
        /\ result' = Numbers(opt)
        /\ UNCHANGED <<kind, opt>> /\ UNCHANGED vars
    BY <1>5 DEF MakeList
  <2>2. result' = NumericSweep'
    BY <2>1 DEF NumericSweep, Option
  <2> QED BY <1>1, <2>1, <2>2 DEF SweepInv, ResultInv
<1>6. CASE Expand
  <2>1. stage = "expanding" /\ Next /\ UNCHANGED <<kind, opt, result, stage>>
    BY <1>6 DEF Expand, Next, sweepVars
  <2>2. Inv'
    BY <1>0, <2>1, LoopKept
  <2>3. range' = range
    BY <1>6 DEF Expand, Exit, Stop, Iterate
  <2>4. Option' = Option
    BY <2>1 DEF Option
  <2> QED BY <2>1, <2>2, <2>3, <2>4 DEF SweepInv, ResultInv
<1>7. CASE RangeExpanded
  <2>1. /\ stage = "expanding" /\ pc = "done" /\ stage' = "returned"
        /\ result' = IF kind = "range" \/ out # <<>> THEN out ELSE Numbers(opt)
        /\ UNCHANGED <<kind, opt>> /\ UNCHANGED vars
    BY <1>7 DEF RangeExpanded
  <2>2. ASSUME kind # "range" PROVE kind = "numeric" /\ result' = NumericSweep'
    <3>1. kind = "numeric" /\ ~IsAuto(opt) /\ Option # Null /\ range = Option
      BY <2>1, <2>2 DEF SweepInv
    <3>2. range.min <= range.max
      BY <3>1, OptionRuns
    <3>3. out = Expanded(range) /\ out # <<>>
      BY <1>0, <2>1, <3>2, LoopEnded
    <3>4. result' = Expanded(Option)
      BY <2>1, <3>1, <3>3
    <3> QED BY <2>1, <3>1, <3>4 DEF NumericSweep, Option
  <2>3. kind \in {"numeric", "filtered", "names"} => result' = NumericSweep' /\ kind = "numeric"
    BY <2>2
  <2> QED BY <1>1, <2>1, <2>3 DEF SweepInv, ResultInv
<1>8. CASE SweepReturned \/ UNCHANGED <<sweepVars, vars>>
  <2>1. UNCHANGED <<kind, opt, result, stage>> /\ UNCHANGED vars
    BY <1>8 DEF SweepReturned, sweepVars
  <2>2. UNCHANGED <<range, val, out, pc>>
    BY <2>1 DEF vars
  <2>3. Option' = Option /\ NumericSweep' = NumericSweep /\ LoopIdle' = LoopIdle
    BY <2>1, <2>2 DEF Option, NumericSweep, LoopIdle
  <2> QED BY <1>1, <2>1, <2>2, <2>3 DEF SweepInv, ResultInv
<1> QED BY <1>2, <1>3, <1>4, <1>5, <1>6, <1>7, <1>8 DEF SweepNext

\* What a sweep helper has made follows from its option at every step, for any

\* options, numbers and arrays.
THEOREM SweepInvariance == SweepSpec => []SweepInv
<1>1. SweepInit => SweepInv
  BY SweepStarts
<1>2. SweepInv /\ [SweepNext]_<<sweepVars, vars>> => SweepInv'
  BY SweepKept
<1> QED BY <1>1, <1>2, PTL DEF SweepSpec

\* The range of an option is expanded exactly, whatever the option.
THEOREM OptionsExpandExactly == SweepSpec => []Progression
  BY SweepInvariance, PTL DEF SweepInv, Inv

\* In the sweep of an option the loop never wraps around either.
THEOREM OptionsNeverWrap == SweepSpec => NeverWraps
<1>1. SweepInv /\ [SweepNext]_<<sweepVars, vars>> => [val' >= val]_vars
  <2> SUFFICES ASSUME SweepInv, [SweepNext]_<<sweepVars, vars>> PROVE [val' >= val]_vars
    OBVIOUS
  <2>0. Inv /\ TypeOK /\ val \in Nat /\ range.stride \in Nat
    BY Types DEF SweepInv, Inv
  <2>1. CASE MakeRange
    <3>1. val = 0 /\ val' = Option.min /\ Option.min \in Nat
      BY <2>1, OptionRuns DEF MakeRange, SweepInv, LoopIdle
    <3> QED BY <3>1
  <2>2. CASE Expand
    <3>1. CASE Iterate
      BY <2>0, <3>1, IterateExact
    <3>2. CASE Exit \/ Stop
      BY <2>0, <3>2 DEF Exit, Stop
    <3> QED BY <2>2, <3>1, <3>2 DEF Expand
  <2>3. CASE UNCHANGED vars
    BY <2>3
  <2> QED BY <2>1, <2>2, <2>3 DEF SweepNext, MakeFiltered, MakeDefault, MakeList,
                                 RangeExpanded, SweepReturned
<1> QED BY <1>1, SweepInvariance, PTL DEF SweepSpec, NeverWraps

-----------------------------------------------------------------------------
(* Finite sets of numbers in ascending order.                              *)

\* A sequence that goes through a set of numbers upwards is the set in

\* ascending order.
LEMMA AscendingIs ==
  ASSUME NEW S, S \subseteq Nat, NEW m \in Nat, NEW f \in [1..m -> S],
         \A a, b \in 1..m : a < b => f[a] < f[b],
         \A e \in S : \E a \in 1..m : f[a] = e
  PROVE  Ascending(S) = f /\ IsFiniteSet(S) /\ Cardinality(S) = m
<1>1. \A a \in 1..m : f[a] \in Nat /\ f[a] \in S
  OBVIOUS
<1>2. \A a, b \in 1..m : f[a] < f[b] <=> a < b
  <2> SUFFICES ASSUME NEW a \in 1..m, NEW b \in 1..m, f[a] < f[b], ~(a < b) PROVE FALSE
    OBVIOUS
  <2>1. a = b \/ b < a
    OBVIOUS
  <2>2. b < a => f[b] < f[a]
    OBVIOUS
  <2> QED BY <1>1, <2>1, <2>2
<1>3. \A a, b \in 1..m : f[a] = f[b] => a = b
  <2> SUFFICES ASSUME NEW a \in 1..m, NEW b \in 1..m, f[a] = f[b], a # b PROVE FALSE
    OBVIOUS
  <2>1. a < b \/ b < a
    OBVIOUS
  <2> QED BY <1>1, <2>1
<1>4. \A n \in 0..m : IsFiniteSet({f[a] : a \in 1..n}) /\ Cardinality({f[a] : a \in 1..n}) = n
  <2> SUFFICES ASSUME NEW n \in 0..m
               PROVE  IsFiniteSet({f[a] : a \in 1..n}) /\ Cardinality({f[a] : a \in 1..n}) = n
    OBVIOUS
  <2> DEFINE T == {f[a] : a \in 1..n}
             g == [a \in 1..n |-> f[a]]
  <2>1. IsFiniteSet(1..n) /\ Cardinality(1..n) = n
    BY FS_Interval
  <2>2. g \in [1..n -> T] /\ \A a, b \in 1..n : g[a] = g[b] => a = b
    BY <1>3
  <2>3. \A e \in T : \E a \in 1..n : g[a] = e
    OBVIOUS
  <2> HIDE DEF g, T
  <2>4. g \in Surjection(1..n, T) /\ g \in Injection(1..n, T)
    BY <2>2, <2>3 DEF Surjection, Injection, IsInjective
  <2>5. ExistsBijection(1..n, T)
    BY <2>4 DEF ExistsBijection, Bijection
  <2>6. IsFiniteSet(T) /\ Cardinality(T) = n
    BY <2>1, <2>5, FS_Bijection
  <2> QED BY <2>6 DEF T
<1>5. S = {f[a] : a \in 1..m}
  BY <1>1
<1>6. IsFiniteSet(S) /\ Cardinality(S) = m
  <2>1. m \in 0..m
    OBVIOUS
  <2> QED BY ONLY <1>4, <1>5, <2>1
<1>7. \A n \in 1..m : Cardinality({w \in S : w < f[n]}) = n - 1
  <2> SUFFICES ASSUME NEW n \in 1..m PROVE Cardinality({w \in S : w < f[n]}) = n - 1
    OBVIOUS
  <2>1. \A a \in 1..m : a < n <=> a \in 1..(n - 1)
    OBVIOUS
  <2>2. {w \in S : w < f[n]} = {f[a] : a \in 1..(n - 1)}
    <3>1. ASSUME NEW w \in S, w < f[n] PROVE \E a \in 1..(n - 1) : w = f[a]
      <4>1. PICK a \in 1..m : f[a] = w
        OBVIOUS
      <4>2. a < n
        BY <1>2, <3>1, <4>1
      <4> QED BY <2>1, <4>1, <4>2
    <3>2. ASSUME NEW a \in 1..(n - 1) PROVE f[a] \in S /\ f[a] < f[n]
      OBVIOUS
    <3> QED BY <3>1, <3>2
  <2>3. n - 1 \in 0..m
    OBVIOUS
  <2> QED BY <1>4, <2>2, <2>3
<1>8. \A n \in 1..m : f[n] = CHOOSE v \in S : Cardinality({w \in S : w < v}) = n - 1
  <2> SUFFICES ASSUME NEW n \in 1..m
               PROVE  f[n] = CHOOSE v \in S : Cardinality({w \in S : w < v}) = n - 1
    OBVIOUS
  <2>1. ASSUME NEW v \in S, Cardinality({w \in S : w < v}) = n - 1 PROVE v = f[n]
    <3>1. PICK a \in 1..m : f[a] = v
      OBVIOUS
    <3>2. Cardinality({w \in S : w < v}) = a - 1
      BY <1>7, <3>1
    <3>3. a = n
      BY <2>1, <3>2
    <3> QED BY <3>1, <3>3
  <2>2. f[n] \in S /\ Cardinality({w \in S : w < f[n]}) = n - 1
    BY <1>7
  <2> QED BY <2>1, <2>2
<1>9. Ascending(S) = [n \in 1..m |-> CHOOSE v \in S : Cardinality({w \in S : w < v}) = n - 1]
  BY <1>6 DEF Ascending
<1>10. Ascending(S) = f
  BY <1>8, <1>9
<1> QED BY <1>6, <1>10

\* Below(S, e) is the place of e in S, counted from 0.
Below(S, e) == Cardinality({w \in S : w < e})

\* The elements have different places, the smaller the smaller one.
LEMMA Places ==
  ASSUME NEW S, IsFiniteSet(S), S \subseteq Nat
  PROVE  /\ Cardinality(S) \in Nat
         /\ \A e \in S : Below(S, e) \in 0..(Cardinality(S) - 1)
         /\ \A a, b \in S : a < b => Below(S, a) < Below(S, b)
         /\ \A m \in 0..(Cardinality(S) - 1) : \E e \in S : Below(S, e) = m
<1> DEFINE n == Cardinality(S)
           down(e) == {w \in S : w < e}
           f == [e \in S |-> Below(S, e)]
<1>1. n \in Nat
  BY FS_CardinalityType
<1>2. \A e \in Nat : IsFiniteSet(down(e)) /\ Cardinality(down(e)) \in Nat
  BY FS_Subset, FS_CardinalityType
<1>3. ASSUME NEW e \in S PROVE Below(S, e) \in 0..(n - 1)
  <2>1. /\ down(e) \in SUBSET (S \ {e}) /\ IsFiniteSet(S \ {e})
        /\ Cardinality(S \ {e}) = n - 1
    BY FS_RemoveElement
  <2>2. Cardinality(down(e)) <= n - 1
    BY <2>1, FS_Subset
  <2> QED BY <1>1, <1>2, <2>2 DEF Below
<1>4. ASSUME NEW a \in S, NEW b \in S, a < b PROVE Below(S, a) < Below(S, b)
  <2>1. down(a) \in SUBSET down(b) /\ a \in down(b) /\ a \notin down(a)
    <3>1. a \in Nat /\ b \in Nat /\ \A w \in S : w \in Nat
      OBVIOUS
    <3>2. \A w \in S : w < a => w < b
      BY <1>4, <3>1
    <3>3. \A w \in down(a) : w \in down(b)
      BY <3>2
    <3>4. a < b /\ ~(a < a)
      BY <1>4, <3>1
    <3> QED BY <3>3, <3>4
  <2>2. Cardinality(down(a)) <= Cardinality(down(b)) /\ Cardinality(down(a)) # Cardinality(down(b))
    <3> HIDE DEF down
    <3> QED BY <1>2, <2>1, FS_Subset
  <2> QED BY <1>2, <2>2 DEF Below
<1>5. ASSUME NEW m \in 0..(n - 1) PROVE \E e \in S : Below(S, e) = m
  <2>1. f \in [S -> 0..(n - 1)]
    BY <1>3
  <2>2. \A a, b \in S : f[a] = f[b] => a = b
    <3> SUFFICES ASSUME NEW a \in S, NEW b \in S, f[a] = f[b], a # b PROVE FALSE
      OBVIOUS
    <3>1. a < b \/ b < a
      OBVIOUS
    <3>2. Below(S, a) = Below(S, b) /\ Below(S, a) \in Int
      BY <1>1, <1>3
    <3> QED BY <1>4, <3>1, <3>2
  <2>3. f \in Injection(S, 0..(n - 1))
    BY <2>1, <2>2 DEF Injection, IsInjective
  <2>4. IsFiniteSet(0..(n - 1)) /\ Cardinality(0..(n - 1)) = n
    BY <1>1, FS_Interval
  <2>5. f \in Surjection(S, 0..(n - 1))
    BY <2>3, <2>4, FS_Injection
  <2> QED BY <2>5 DEF Surjection
<1> QED BY <1>1, <1>3, <1>4, <1>5

\* The numbers of a finite set in ascending order are its elements, each once.
LEMMA AscendingParts ==
  ASSUME NEW S, IsFiniteSet(S), S \subseteq Nat
  PROVE  /\ Cardinality(S) \in Nat
         /\ Ascending(S) \in [1..Cardinality(S) -> S]
         /\ \A a, b \in 1..Cardinality(S) : a < b => Ascending(S)[a] < Ascending(S)[b]
         /\ \A e \in S : \E a \in 1..Cardinality(S) : Ascending(S)[a] = e
<1> DEFINE n == Cardinality(S)
           s == [m \in 1..n |-> CHOOSE e \in S : Below(S, e) = m - 1]
<1>1. n \in Nat
  BY FS_CardinalityType
<1>2. \A m \in 1..n : s[m] \in S /\ Below(S, s[m]) = m - 1
  <2> SUFFICES ASSUME NEW m \in 1..n PROVE s[m] \in S /\ Below(S, s[m]) = m - 1
    OBVIOUS
  <2>1. m - 1 \in 0..(n - 1)
    BY <1>1
  <2>2. \E e \in S : Below(S, e) = m - 1
    BY <2>1, Places
  <2> QED BY <2>2
<1>3. Ascending(S) = s
  BY DEF Ascending, Below
<1>4. s \in [1..n -> S]
  BY <1>2
<1> HIDE DEF s
<1>8. \A e \in S : Below(S, e) \in 0..(n - 1)
  BY Places
<1> HIDE DEF n
<1>5. \A a, b \in S : Below(S, a) < Below(S, b) => a < b
  <2> SUFFICES ASSUME NEW a \in S, NEW b \in S, Below(S, a) < Below(S, b), ~(a < b) PROVE FALSE
    OBVIOUS
  <2>1. a = b \/ b < a
    OBVIOUS
  <2>2. Below(S, a) \in Int /\ Below(S, b) \in Int
    BY <1>1, <1>8
  <2>3. b < a => Below(S, b) < Below(S, a)
    BY Places
  <2> QED BY <2>1, <2>2, <2>3
<1>6. \A a, b \in 1..n : a < b => s[a] < s[b]
  <2> SUFFICES ASSUME NEW a \in 1..n, NEW b \in 1..n, a < b PROVE s[a] < s[b]
    OBVIOUS
  <2>1. a - 1 < b - 1
    BY <1>1
  <2> QED BY <1>2, <1>5, <2>1
<1>7. \A e \in S : \E a \in 1..n : s[a] = e
  <2> SUFFICES ASSUME NEW e \in S PROVE \E a \in 1..n : s[a] = e
    OBVIOUS
  <2>1. Below(S, e) \in 0..(n - 1)
    BY <1>8
  <2> DEFINE a == Below(S, e) + 1
  <2>2. a \in 1..n /\ a - 1 = Below(S, e)
    BY <1>1, <2>1
  <2> HIDE DEF a
  <2>3. s[a] \in S /\ Below(S, s[a]) = Below(S, e)
    BY <1>2, <2>2
  <2>4. ~(Below(S, e) < Below(S, e))
    BY <1>1, <2>1
  <2>5. ~(s[a] < e) /\ ~(e < s[a])
    BY <2>3, <2>4, Places
  <2>6. s[a] = e
    <3>1. s[a] \in Nat /\ e \in Nat
      BY <2>3
    <3> QED BY <2>5, <3>1
  <2> QED BY <2>2, <2>6
<1> QED BY <1>1, <1>3, <1>4, <1>6, <1>7 DEF n

-----------------------------------------------------------------------------
(* Options and their parts.                                                *)

\* A set of natural numbers that is not empty has a least one.
LEMMA LeastNat ==
  ASSUME NEW T, T \subseteq Nat, T # {}
  PROVE  \E n \in T : \A m \in T : n <= m
<1>1. PICK n \in T : \A m \in T : ~(<<m, n>> \in OpToRel(<, Nat))
  BY NatLessThanWellFounded, WFMin
<1>2. \A m \in T : ~(m < n)
  BY <1>1 DEF OpToRel
<1> QED BY <1>2

\* Min is the least element, whichever that is.
LEMMA MinIs ==
  ASSUME NEW T, T \subseteq Nat, NEW n \in T, \A m \in T : n <= m
  PROVE  Min(T) = n
<1>1. \A k \in T : (\A m \in T : k <= m) => k = n
  <2> SUFFICES ASSUME NEW k \in T, \A m \in T : k <= m PROVE k = n
    OBVIOUS
  <2>1. k <= n /\ n <= k /\ k \in Nat /\ n \in Nat
    OBVIOUS
  <2> QED BY <2>1
<1> QED BY <1>1 DEF Min

\* Find is the one place before which there is no such token, and at which

\* there is one unless it is past the end.
LEMMA FindIs ==
  ASSUME NEW S, NEW s \in Seq(S), NEW tok, NEW n \in 1..(Len(s) + 1),
         \A i \in 1..(n - 1) : s[i] # tok, n <= Len(s) => s[n] = tok
  PROVE  Find(s, tok) = n
<1> DEFINE T == {Len(s) + 1} \cup {i \in DOMAIN s : s[i] = tok}
<1>1. Len(s) \in Nat /\ DOMAIN s = 1..Len(s)
  OBVIOUS
<1>2. T \subseteq Nat /\ n \in T
  BY <1>1
<1>3. \A m \in T : n <= m
  BY <1>1
<1> HIDE DEF T
<1>4. Min(T) = n
  BY <1>2, <1>3, MinIs
<1> QED BY <1>4 DEF Find, T

\* Find gives such a place for every string.
LEMMA FindThere ==
  ASSUME NEW S, NEW s \in Seq(S), NEW tok
  PROVE  /\ Find(s, tok) \in 1..(Len(s) + 1)
         /\ \A i \in 1..(Find(s, tok) - 1) : s[i] # tok
         /\ Find(s, tok) <= Len(s) => s[Find(s, tok)] = tok
<1> DEFINE T == {Len(s) + 1} \cup {i \in DOMAIN s : s[i] = tok}
<1>1. Len(s) \in Nat /\ DOMAIN s = 1..Len(s)
  OBVIOUS
<1>2. T \subseteq Nat /\ T # {}
  BY <1>1
<1>3. \A i \in 1..Len(s) : s[i] = tok => i \in T
  BY <1>1
<1>4. \A n \in T : n \in 1..(Len(s) + 1) /\ (n <= Len(s) => s[n] = tok)
  BY <1>1
<1>5. Find(s, tok) = Min(T)
  BY DEF Find
<1> HIDE DEF T
<1>6. PICK n \in T : \A m \in T : n <= m
  BY <1>2, LeastNat
<1>7. Min(T) = n
  BY <1>2, <1>6, MinIs
<1>8. \A i \in 1..(n - 1) : s[i] # tok
  <2> SUFFICES ASSUME NEW i \in 1..(n - 1), s[i] = tok PROVE FALSE
    OBVIOUS
  <2>1. n \in 1..(Len(s) + 1)
    BY <1>4, <1>6
  <2>2. i \in 1..Len(s) /\ ~(n <= i)
    BY <1>1, <2>1
  <2> QED BY <1>3, <1>6, <2>2
<1> QED BY <1>4, <1>5, <1>6, <1>7, <1>8

\* A string around its first token of a kind, or the string without one.
LEMMA CutAtToken ==
  ASSUME NEW S, NEW s \in Seq(S), NEW tok \in S
  PROVE  LET n == Find(s, tok)
         IN  /\ Before(s, n) \in Seq(S) /\ After(s, n) \in Seq(S)
             /\ n > Len(s) => Before(s, n) = s /\ After(s, n) = <<>>
             /\ n <= Len(s) => s = Before(s, n) \o (<<tok>> \o After(s, n))
<1> DEFINE n == Find(s, tok)
<1>1. n \in 1..(Len(s) + 1) /\ (n <= Len(s) => s[n] = tok)
  BY FindThere
<1>2. Len(s) \in Nat
  OBVIOUS
<1> HIDE DEF n
<1>3. Before(s, n) \in Seq(S) /\ After(s, n) \in Seq(S)
  BY <1>1, <1>2 DEF Before, After
<1>4. ASSUME n > Len(s) PROVE Before(s, n) = s /\ After(s, n) = <<>>
  <2>1. n - 1 = Len(s) /\ n + 1 > Len(s)
    BY <1>1, <1>2, <1>4
  <2>2. Before(s, n) = s
    BY <2>1, SubSeqFull DEF Before
  <2>3. After(s, n) = <<>>
    BY <1>1, <1>2, <2>1, SubSeqEmpty DEF After
  <2> QED BY <2>2, <2>3
<1>5. ASSUME n <= Len(s) PROVE s = Before(s, n) \o (<<tok>> \o After(s, n))
  <2>1. n \in 1..Len(s) /\ s[n] = tok
    BY <1>1, <1>2, <1>5
  <2>2. SubSeq(s, n, Len(s)) = <<tok>> \o SubSeq(s, n + 1, Len(s))
    BY <1>2, <2>1, SubSeqRecursiveFirst
  <2>3. SubSeq(s, 1, n - 1) \o SubSeq(s, n, Len(s)) = SubSeq(s, 1, Len(s))
    <3>1. n - 1 \in 0..Len(s) /\ (n - 1) + 1 = n /\ 1 \in 1..(Len(s) + 1)
      BY <1>2, <2>1
    <3>2. SubSeq(s, 1, n - 1) \o SubSeq(s, (n - 1) + 1, Len(s)) = SubSeq(s, 1, Len(s))
      <4> DEFINE k == n - 1
      <4>1. k \in (1 - 1)..Len(s) /\ Len(s) \in k..Len(s)
        BY <1>2, <3>1
      <4> HIDE DEF k
      <4>2. SubSeq(s, 1, k) \o SubSeq(s, k + 1, Len(s)) = SubSeq(s, 1, Len(s))
        BY <1>2, <3>1, <4>1, ConcatAdjacentSubSeq
      <4> QED BY <4>2 DEF k
    <3> QED BY <3>1, <3>2
  <2>4. SubSeq(s, 1, Len(s)) = s
    BY SubSeqFull
  <2> QED BY <2>2, <2>3, <2>4 DEF Before, After
<1> QED BY <1>3, <1>4, <1>5 DEF n

\* Cutting undoes putting together.
LEMMA CutJoined ==
  ASSUME NEW S, NEW u \in Seq(S), NEW v \in Seq(S), NEW tok \in S,
         \A i \in 1..Len(u) : u[i] # tok
  PROVE  /\ Find(u, tok) = Len(u) + 1
         /\ Find(u \o (<<tok>> \o v), tok) = Len(u) + 1
         /\ Before(u \o (<<tok>> \o v), Len(u) + 1) = u
         /\ After(u \o (<<tok>> \o v), Len(u) + 1) = v
         /\ Len(u \o (<<tok>> \o v)) = Len(u) + 1 + Len(v)
<1> DEFINE w == <<tok>> \o v
           s == u \o w
<1>1. /\ w \in Seq(S) /\ Len(w) = 1 + Len(v) /\ w[1] = tok
      /\ \A i \in 1..Len(v) : w[i + 1] = v[i]
  OBVIOUS
<1> HIDE DEF w
<1>2. /\ s \in Seq(S) /\ Len(s) = Len(u) + 1 + Len(v) /\ Len(u) \in Nat /\ Len(v) \in Nat
      /\ \A i \in 1..Len(u) : s[i] = u[i]
      /\ \A i \in 1..Len(w) : s[Len(u) + i] = w[i]
  <2>1. s \in Seq(S) /\ Len(s) = Len(u) + Len(w)
    <3>1. w \in Seq(S)
      BY <1>1
    <3>2. u \o w \in Seq(S)
      BY <3>1
    <3>3. Len(u \o w) = Len(u) + Len(w)
      BY <3>1
    <3> QED BY <3>2, <3>3
  <2>2. Len(u) \in Nat /\ Len(v) \in Nat
    OBVIOUS
  <2>3. ASSUME NEW i \in 1..Len(u) PROVE s[i] = u[i]
    BY <1>1
  <2>4. ASSUME NEW i \in 1..Len(w) PROVE s[Len(u) + i] = w[i]
    BY <1>1
  <2> QED BY <1>1, <2>1, <2>2, <2>3, <2>4
<1>3. s[Len(u) + 1] = tok
  BY <1>1, <1>2
<1>4. \A i \in 1..Len(v) : s[Len(u) + 1 + i] = v[i]
  <2> SUFFICES ASSUME NEW i \in 1..Len(v) PROVE s[Len(u) + 1 + i] = v[i]
    OBVIOUS
  <2>1. i + 1 \in 1..Len(w) /\ Len(u) + (i + 1) = Len(u) + 1 + i
    BY <1>1, <1>2
  <2> QED BY <1>1, <1>2, <2>1
<1> HIDE DEF s
<1>5. Find(u, tok) = Len(u) + 1
  BY <1>2, FindIs
<1>6. Find(s, tok) = Len(u) + 1
  <2> DEFINE n == Len(u) + 1
  <2>1. n \in 1..(Len(s) + 1) /\ \A i \in 1..(n - 1) : s[i] # tok
    BY <1>2
  <2>2. s[n] = tok
    BY <1>3
  <2>3. s \in Seq(S)
    BY <1>2
  <2> HIDE DEF n
  <2>4. Find(s, tok) = n
    BY ONLY <2>1, <2>2, <2>3, FindIs
  <2> QED BY <2>4 DEF n
<1>7. Before(s, Len(u) + 1) = u
  <2>1. Before(s, Len(u) + 1) = SubSeq(s, 1, Len(u))
    BY <1>2 DEF Before
  <2>2. /\ SubSeq(s, 1, Len(u)) \in Seq(S) /\ Len(SubSeq(s, 1, Len(u))) = Len(u)
        /\ \A i \in 1..Len(u) : SubSeq(s, 1, Len(u))[i] = s[i]
    BY <1>2
  <2> QED BY <1>2, <2>1, <2>2, SeqEqual
<1>8. After(s, Len(u) + 1) = v
  <2> DEFINE m == Len(u) + 2
             n == Len(s)
  <2>1. After(s, Len(u) + 1) = SubSeq(s, m, n)
    BY <1>2 DEF After
  <2>2. /\ m \in Int /\ n \in Int /\ n - m + 1 = Len(v) /\ m >= 1
        /\ \A i \in 1..Len(v) : m + i - 1 = Len(u) + 1 + i
    BY <1>2
  <2>3. \A i \in m..n : s[i] \in S
    BY <1>2, <2>2
  <2> HIDE DEF m, n
  <2>4. /\ SubSeq(s, m, n) \in Seq(S)
        /\ Len(SubSeq(s, m, n)) = IF m <= n THEN n - m + 1 ELSE 0
        /\ \A i \in 1..(n - m + 1) : SubSeq(s, m, n)[i] = s[m + i - 1]
    BY <2>2, <2>3, SubSeqProperties
  <2>5. Len(SubSeq(s, m, n)) = Len(v)
    BY <1>2, <2>2, <2>4
  <2>6. \A i \in 1..Len(v) : SubSeq(s, m, n)[i] = v[i]
    BY <1>4, <2>2, <2>4
  <2> QED BY <2>1, <2>4, <2>5, <2>6, SeqEqual
<1> QED BY <1>2, <1>5, <1>6, <1>7, <1>8 DEF s, w

\* What is in neither of two strings is not in both together.
LEMMA NoneInJoined ==
  ASSUME NEW S, NEW u \in Seq(S), NEW v \in Seq(S), NEW tok,
         \A i \in 1..Len(u) : u[i] # tok, \A i \in 1..Len(v) : v[i] # tok
  PROVE  u \o v \in Seq(S) /\ \A i \in 1..Len(u \o v) : (u \o v)[i] # tok
<1>1. u \o v \in Seq(S) /\ Len(u \o v) = Len(u) + Len(v) /\ Len(u) \in Nat /\ Len(v) \in Nat
  OBVIOUS
<1>2. ASSUME NEW i \in 1..Len(u \o v) PROVE (u \o v)[i] # tok
  <2>1. CASE i <= Len(u)
    BY <1>1, <2>1
  <2>2. CASE ~(i <= Len(u))
    <3>1. i - Len(u) \in 1..Len(v)
      BY <1>1, <2>2
    <3>2. (u \o v)[i] = v[i - Len(u)]
      BY <1>1, <2>2
    <3> QED BY <3>1, <3>2
  <2> QED BY <2>1, <2>2
<1> QED BY <1>1, <1>2

\* A string of one token.
LEMMA Single ==
  ASSUME NEW S, NEW a \in S
  PROVE  <<a>> \in Seq(S) /\ <<a>> # <<>> /\ Len(<<a>>) = 1 /\ <<a>>[1] = a
  OBVIOUS

\* The signs are tokens.
LEMMA SignTokens == ":" \in Tokens /\ "-" \in Tokens /\ Comma \in Tokens
  BY SweepAssumption DEF Signs

\* A part of a reading is nothing or an atom, and no sign.
Part(atoms) == {<<>>} \cup {<<a>> : a \in atoms}

\* Such a part is a string without a sign.
LEMMA PartTyped ==
  ASSUME NEW A, A \subseteq Tokens \ Signs, NEW part \in Part(A)
  PROVE  /\ part \in Seq(Tokens)
         /\ \A i \in 1..Len(part) : part[i] \in A /\ part[i] # "-" /\ part[i] # ":" /\ part[i] # Comma
<1>1. CASE part = <<>>
  BY <1>1
<1>2. CASE \E a \in A : part = <<a>>
  <2>1. PICK a \in A : part = <<a>>
    BY <1>2
  <2>2. a \in Tokens /\ a # "-" /\ a # ":" /\ a # Comma
    BY DEF Signs
  <2>3. part \in Seq(Tokens) /\ Len(part) = 1 /\ part[1] = a
    BY <2>1, <2>2, Single
  <2>4. \A i \in 1..Len(part) : part[i] = a
    BY <2>3
  <2> QED BY <2>2, <2>3, <2>4
<1> QED BY <1>1, <1>2 DEF Part

\* The sign before the stride is found, or there is none.
LEMMA CutAtColon ==
  ASSUME NEW e \in Seq(Tokens), \A i \in 1..Len(e) : e[i] # ":",
         NEW stride \in Seq(Tokens), NEW colon \in {<<>>, <<":">>},
         colon = <<>> => stride = <<>>
  PROVE  LET s == (e \o colon) \o stride
         IN  Before(s, Find(s, ":")) = e /\ After(s, Find(s, ":")) = stride
<1> DEFINE s == (e \o colon) \o stride
<1>1. CASE colon = <<>>
  <2>1. s = e
    BY <1>1, ConcatEmptySeq
  <2>2. Find(e, ":") = Len(e) + 1
    BY SignTokens, CutJoined, EmptySeq
  <2>3. Find(e, ":") > Len(e)
    BY <2>2
  <2>4. Before(e, Find(e, ":")) = e /\ After(e, Find(e, ":")) = <<>>
    BY <2>3, SignTokens, CutAtToken
  <2> QED BY <1>1, <2>1, <2>4
<1>2. CASE colon = <<":">>
  <2>1. s = e \o (<<":">> \o stride)
    BY <1>2, ConcatAssociative
  <2>2. /\ Find(e \o (<<":">> \o stride), ":") = Len(e) + 1
        /\ Before(e \o (<<":">> \o stride), Len(e) + 1) = e
        /\ After(e \o (<<":">> \o stride), Len(e) + 1) = stride
    BY SignTokens, CutJoined
  <2> QED BY <2>1, <2>2
<1> QED BY <1>1, <1>2

\* An option that can be read as a range is parsed as that reading.
LEMMA ReadingParsed ==
  ASSUME NEW s \in Seq(Tokens), NEW A, A \subseteq Tokens \ Signs, NEW p \in Readings(s, A)
  PROVE  /\ ParseMinMaxStride(s).min = p.min
         /\ ParseMinMaxStride(s).max = Upper(p)
         /\ ParseMinMaxStride(s).stride = p.stride
         /\ p.min \in Part(A) /\ Upper(p) \in Part(A) /\ p.stride \in Part(A)
<1>1. /\ p.min \in Part(A) /\ p.max \in Part(A) /\ p.stride \in Part(A)
      /\ p.dash \in {<<>>, <<"-">>} /\ p.colon \in {<<>>, <<":">>}
      /\ p.dash = <<>> => p.max = <<>>
      /\ p.colon = <<>> => p.stride = <<>>
      /\ s = p.min \o p.dash \o p.max \o p.colon \o p.stride
  BY DEF Readings, Parts, Part
<1> DEFINE min == p.min
           dash == p.dash
           max == p.max
           e == (min \o dash) \o max
<1>2. /\ min \in Seq(Tokens) /\ max \in Seq(Tokens) /\ p.stride \in Seq(Tokens)
      /\ \A i \in 1..Len(min) : min[i] # "-" /\ min[i] # ":"
      /\ \A i \in 1..Len(max) : max[i] # ":"
  BY <1>1, PartTyped
<1>3. dash \in Seq(Tokens) /\ \A i \in 1..Len(dash) : dash[i] # ":"
  <2>1. CASE dash = <<>>
    BY <2>1
  <2>2. CASE dash = <<"-">>
    <3> HIDE DEF dash
    <3>1. dash \in Seq(Tokens) /\ Len(dash) = 1 /\ dash[1] = "-"
      BY <2>2, SignTokens, Single
    <3>2. \A i \in 1..Len(dash) : dash[i] = "-"
      BY <3>1
    <3> QED BY <3>1, <3>2
  <2> QED BY <1>1, <2>1, <2>2
<1>4. Before(s, Find(s, ":")) = e /\ After(s, Find(s, ":")) = p.stride
  <2>1. s = (e \o p.colon) \o p.stride
    BY <1>1
  <2> HIDE DEF min, dash, max
  <2>2. /\ min \o dash \in Seq(Tokens)
        /\ \A i \in 1..Len(min \o dash) : (min \o dash)[i] # ":"
    BY <1>2, <1>3, NoneInJoined
  <2>3. e \in Seq(Tokens) /\ \A i \in 1..Len(e) : e[i] # ":"
    BY <1>2, <2>2, NoneInJoined
  <2> DEFINE colon == p.colon
             stride == p.stride
  <2>4. /\ colon \in {<<>>, <<":">>} /\ stride \in Seq(Tokens)
        /\ colon = <<>> => stride = <<>>
        /\ s = (e \o colon) \o stride
    BY <1>1, <1>2, <2>1
  <2> HIDE DEF e, colon, stride
  <2>5. Before(s, Find(s, ":")) = e /\ After(s, Find(s, ":")) = stride
    BY <2>3, <2>4, CutAtColon
  <2> QED BY <2>5 DEF stride
<1> DEFINE n == Find(e, "-")
<1>5. Before(e, n) = min /\ (IF n > Len(e) THEN e ELSE After(e, n)) = Upper(p)
  <2>1. CASE dash = <<>>
    <3>1. max = <<>> /\ e = min /\ Upper(p) = min
      BY <1>1, <1>2, <2>1, ConcatEmptySeq DEF Upper
    <3>2. Find(min, "-") = Len(min) + 1
      <4> HIDE DEF min
      <4>1. min \in Seq(Tokens) /\ \A i \in 1..Len(min) : min[i] # "-"
        BY <1>2
      <4>2. <<>> \in Seq(Tokens)
        OBVIOUS
      <4> QED BY ONLY <4>1, <4>2, SignTokens, CutJoined
    <3> HIDE DEF min, dash, max, e
    <3>3. Len(min) \in Nat
      BY <1>2
    <3>4. n > Len(e)
      BY <3>1, <3>2, <3>3
    <3>5. Before(e, n) = e
      BY <1>2, <3>1, <3>4, SignTokens, CutAtToken
    <3> QED BY <3>1, <3>4, <3>5
  <2>2. CASE dash = <<"-">>
    <3>1. Upper(p) = max
      BY <2>2, SignTokens, Single DEF Upper
    <3>2. e = min \o (<<"-">> \o max)
      <4> HIDE DEF min, dash, max
      <4> QED BY <1>2, <2>2, ConcatAssociative
    <3> HIDE DEF min, dash, max
    <3>3. /\ Find(min \o (<<"-">> \o max), "-") = Len(min) + 1
          /\ Before(min \o (<<"-">> \o max), Len(min) + 1) = min
          /\ After(min \o (<<"-">> \o max), Len(min) + 1) = max
          /\ Len(min \o (<<"-">> \o max)) = Len(min) + 1 + Len(max)
      <4>1. min \in Seq(Tokens) /\ max \in Seq(Tokens) /\ \A i \in 1..Len(min) : min[i] # "-"
        BY <1>2
      <4> QED BY ONLY <4>1, SignTokens, CutJoined
    <3>4. Len(min) \in Nat /\ Len(max) \in Nat
      BY <1>2
    <3>5. n = Len(min) + 1 /\ Len(e) = Len(min) + 1 + Len(max)
      BY <3>2, <3>3
    <3>6. ~(n > Len(e))
      BY <3>4, <3>5
    <3> QED BY <3>1, <3>2, <3>3, <3>5, <3>6
  <2> QED BY <1>1, <2>1, <2>2
<1>6. Upper(p) \in Part(A)
  BY <1>1 DEF Upper
<1>7. /\ ParseMinMaxStride(s).min = Before(e, n)
      /\ ParseMinMaxStride(s).max = IF n > Len(e) THEN e ELSE After(e, n)
      /\ ParseMinMaxStride(s).stride = p.stride
  <2> HIDE DEF e
  <2> QED BY <1>4 DEF ParseMinMaxStride
<1> HIDE DEF e, n
<1> QED BY <1>1, <1>5, <1>6, <1>7

\* Whatever is parsed into parts that are atoms or nothing can be read so.
LEMMA ParsedReading ==
  ASSUME NEW s \in Seq(Tokens), NEW A, A \subseteq Tokens \ Signs,
         ParseMinMaxStride(s).min \in Part(A), ParseMinMaxStride(s).max \in Part(A),
         ParseMinMaxStride(s).stride \in Part(A)
  PROVE  \E p \in Readings(s, A) :
           /\ p.min = ParseMinMaxStride(s).min
           /\ Upper(p) = ParseMinMaxStride(s).max
           /\ p.stride = ParseMinMaxStride(s).stride
<1> DEFINE c == Find(s, ":")
           e == Before(s, c)
           n == Find(e, "-")
           min == Before(e, n)
           max == IF n > Len(e) THEN <<>> ELSE After(e, n)
           dash == IF n > Len(e) THEN <<>> ELSE <<"-">>
           colon == IF c > Len(s) THEN <<>> ELSE <<":">>
           stride == After(s, c)
           p == [min |-> min, dash |-> dash, max |-> max, colon |-> colon, stride |-> stride]
<1>1. /\ e \in Seq(Tokens) /\ stride \in Seq(Tokens)
      /\ c > Len(s) => e = s /\ stride = <<>>
      /\ ~(c > Len(s)) => s = e \o (<<":">> \o stride)
  <2>1. /\ c > Len(s) => e = s /\ stride = <<>>
        /\ c <= Len(s) => s = e \o (<<":">> \o stride)
        /\ e \in Seq(Tokens) /\ stride \in Seq(Tokens)
    BY SignTokens, CutAtToken
  <2>2. c \in Nat /\ Len(s) \in Nat
    BY FindThere
  <2> QED BY <2>1, <2>2
<1>2. /\ min \in Seq(Tokens) /\ max \in Seq(Tokens)
      /\ n > Len(e) => min = e
      /\ ~(n > Len(e)) => e = min \o (<<"-">> \o max)
  <2> HIDE DEF e
  <2>1. /\ n > Len(e) => min = e
        /\ n <= Len(e) => e = min \o (<<"-">> \o After(e, n))
        /\ min \in Seq(Tokens) /\ After(e, n) \in Seq(Tokens)
    BY <1>1, SignTokens, CutAtToken
  <2>2. n \in Nat /\ Len(e) \in Nat
    BY <1>1, FindThere
  <2> QED BY <2>1, <2>2
<1>3. /\ ParseMinMaxStride(s).min = min
      /\ ParseMinMaxStride(s).max = IF n > Len(e) THEN e ELSE After(e, n)
      /\ ParseMinMaxStride(s).stride = stride
  <2> HIDE DEF e, n
  <2> QED BY DEF ParseMinMaxStride, e, n
<1>4. /\ min \in Part(A) /\ stride \in Part(A) /\ max \in Part(A)
      /\ dash = <<>> => max = <<>> /\ min = ParseMinMaxStride(s).max
      /\ dash # <<>> => max = ParseMinMaxStride(s).max
      /\ colon = <<>> => stride = <<>>
      /\ dash \in {<<>>, <<"-">>} /\ colon \in {<<>>, <<":">>}
  <2>1. <<"-">> # <<>> /\ <<":">> # <<>> /\ <<>> \in Part(A)
    BY SignTokens, Single DEF Part
  <2> HIDE DEF e, n, c, min, stride
  <2>2. CASE n > Len(e)
    BY <1>1, <1>2, <1>3, <2>1, <2>2
  <2>3. CASE ~(n > Len(e))
    BY <1>1, <1>2, <1>3, <2>1, <2>3
  <2> QED BY <2>2, <2>3
<1>5. dash \in Seq(Tokens) /\ colon \in Seq(Tokens)
  <2> HIDE DEF e, n, c
  <2>1. <<"-">> \in Seq(Tokens)
    BY SignTokens, Single
  <2>2. <<":">> \in Seq(Tokens)
    BY SignTokens, Single
  <2>3. <<>> \in Seq(Tokens)
    OBVIOUS
  <2> QED BY <2>1, <2>2, <2>3
<1>6. e = (min \o dash) \o max
  <2> HIDE DEF e, n, min
  <2>1. CASE n > Len(e)
    <3>1. dash = <<>> /\ max = <<>> /\ e = min
      BY <1>2, <2>1
    <3>2. (min \o <<>>) \o <<>> = min
      BY <1>2, ConcatEmptySeq
    <3> QED BY <3>1, <3>2
  <2>2. CASE ~(n > Len(e))
    <3>1. dash = <<"-">> /\ e = min \o (<<"-">> \o max)
      BY <1>2, <2>2
    <3> HIDE DEF dash, max
    <3> QED BY <1>2, <1>5, <3>1, ConcatAssociative
  <2> QED BY <2>1, <2>2
<1>7. s = (e \o colon) \o stride
  <2> HIDE DEF e, c, stride
  <2>1. CASE c > Len(s)
    <3>1. colon = <<>> /\ stride = <<>> /\ s = e
      BY <1>1, <2>1
    <3>2. (e \o <<>>) \o <<>> = e
      BY <1>1, ConcatEmptySeq
    <3> QED BY <3>1, <3>2
  <2>2. CASE ~(c > Len(s))
    <3>1. colon = <<":">> /\ s = e \o (<<":">> \o stride)
      BY <1>1, <2>2
    <3> HIDE DEF colon
    <3> QED BY <1>1, <1>5, <3>1, ConcatAssociative
  <2> QED BY <2>1, <2>2
<1> HIDE DEF e, n, c, min, max, dash, colon, stride
<1>8. Range(min) \subseteq Range(s) /\ Range(max) \subseteq Range(s) /\ Range(stride) \subseteq Range(s)
  <2> DEFINE d == min \o dash
             g == e \o colon
  <2>1. d \in Seq(Tokens) /\ Range(d) = Range(min) \cup Range(dash)
    BY <1>2, <1>5, RangeConcatenation
  <2>2. g \in Seq(Tokens) /\ Range(g) = Range(e) \cup Range(colon)
    BY <1>1, <1>5, RangeConcatenation
  <2>3. e = d \o max /\ s = g \o stride
    BY <1>6, <1>7
  <2> HIDE DEF d, g
  <2>4. Range(d \o max) = Range(d) \cup Range(max)
    BY <1>2, <2>1, RangeConcatenation
  <2>5. Range(g \o stride) = Range(g) \cup Range(stride)
    BY <1>1, <2>2, RangeConcatenation
  <2> QED BY <2>1, <2>2, <2>3, <2>4, <2>5
<1>9. min \in Parts(s, A) /\ max \in Parts(s, A) /\ stride \in Parts(s, A)
  <2>1. ASSUME NEW part \in Part(A), Range(part) \subseteq Range(s) PROVE part \in Parts(s, A)
    <3>1. CASE part = <<>>
      BY <3>1 DEF Parts
    <3>2. CASE \E a \in A : part = <<a>>
      <4>1. PICK a \in A : part = <<a>>
        BY <3>2
      <4>2. 1 \in DOMAIN part /\ part[1] = a
        BY <4>1
      <4>3. a \in Range(s)
        BY <2>1, <4>2 DEF Range
      <4> QED BY <4>1, <4>3 DEF Parts
    <3> QED BY <3>1, <3>2 DEF Part
  <2> QED BY <1>4, <1>8, <2>1
<1>10. s = min \o dash \o max \o colon \o stride
  BY <1>6, <1>7
<1>11. p \in Readings(s, A)
  BY <1>4, <1>9, <1>10 DEF Readings
<1>12. p.min = min /\ p.stride = stride /\ Upper(p) = IF dash = <<>> THEN min ELSE max
  BY DEF Upper
<1> HIDE DEF p
<1> QED BY <1>3, <1>4, <1>11, <1>12

-----------------------------------------------------------------------------
(* Ranges: what parse_range makes of an option is what the option means.   *)

\* A part that is an atom of a number is that number, any other is none.
LEMMA PartMeans ==
  ASSUME NEW part \in Seq(Tokens), NEW default \in Numeral
  PROVE  /\ part \in Part(DOMAIN Value) => ValueOr(part, default) = MeansValue(part, default)
         /\ part \in Part(DOMAIN Value) <=> ValueOr(part, default) # Null
<1>1. Null \notin Numeral /\ \A a \in DOMAIN Value : Value[a] \in Numeral
  BY NullAssumption, SweepAssumption, Numerals
<1>2. CASE part = <<>>
  BY <1>1, <1>2 DEF ValueOr, MeansValue, Part
<1>3. CASE part # <<>>
  <2>1. ValueOr(part, default) = ParseInt(part) /\ MeansValue(part, default) = Value[part[1]]
    BY <1>3 DEF ValueOr, MeansValue
  <2>2. ASSUME part \in Part(DOMAIN Value)
        PROVE  ParseInt(part) = Value[part[1]] /\ ParseInt(part) # Null
    <3>1. PICK a \in DOMAIN Value : part = <<a>>
      BY <1>3, <2>2 DEF Part
    <3>2. Len(part) = 1 /\ part[1] = a
      BY <3>1
    <3> QED BY <1>1, <3>2 DEF ParseInt
  <2>3. ASSUME ParseInt(part) # Null PROVE part \in Part(DOMAIN Value)
    <3>1. Len(part) = 1 /\ part[1] \in DOMAIN Value
      BY <2>3 DEF ParseInt
    <3>2. part = <<part[1]>>
      BY <3>1
    <3> QED BY <3>1, <3>2 DEF Part
  <2> QED BY <2>1, <2>2, <2>3
<1> QED BY <1>2, <1>3

\* The parts of an option are strings of the same tokens.
LEMMA PartsAreStrings ==
  ASSUME NEW s \in Seq(Tokens)
  PROVE  /\ ParseMinMaxStride(s).min \in Seq(Tokens)
         /\ ParseMinMaxStride(s).max \in Seq(Tokens)
         /\ ParseMinMaxStride(s).stride \in Seq(Tokens)
<1> DEFINE e == Before(s, Find(s, ":"))
<1>1. e \in Seq(Tokens) /\ After(s, Find(s, ":")) \in Seq(Tokens)
  BY SignTokens, CutAtToken
<1> HIDE DEF e
<1>2. Before(e, Find(e, "-")) \in Seq(Tokens) /\ After(e, Find(e, "-")) \in Seq(Tokens)
  BY <1>1, SignTokens, CutAtToken
<1>3. /\ ParseMinMaxStride(s).min = Before(e, Find(e, "-"))
      /\ ParseMinMaxStride(s).max = IF Find(e, "-") > Len(e) THEN e ELSE After(e, Find(e, "-"))
      /\ ParseMinMaxStride(s).stride = After(s, Find(s, ":"))
  BY DEF ParseMinMaxStride, e
<1> QED BY <1>1, <1>2, <1>3

\* The values a range r names in a domain.
Named(r, domain) ==
  {v \in domain : r.min <= v /\ v <= r.max /\ {r.min, r.max} \subseteq domain
                  /\ \E n \in 0..v : v = r.min + n * r.stride}

\* An option means the values named by the range that parse_range makes of it,
\* none when there is none.
LEMMA MeaningOfRange ==
  ASSUME NEW s \in Seq(Tokens), ~IsAuto(s), NEW domain, domain \subseteq Numeral,
         NEW min \in Numeral, NEW max \in Numeral
  PROVE  RangeMeaning(s, domain, min, max) =
           IF ParseRange(s, min, max, 1) = Null THEN {}
           ELSE Named(ParseRange(s, min, max, 1), domain)
<1> DEFINE A == DOMAIN Value
           parts == ParseMinMaxStride(s)
           r == [min    |-> ValueOr(parts.min, min),
                 max    |-> ValueOr(parts.max, max),
                 stride |-> ValueOr(parts.stride, 1)]
           M(p) == LET lo == MeansValue(p.min, min)
                       hi == MeansValue(Upper(p), max)
                       st == MeansValue(p.stride, 1)
                   IN  {v \in domain : st > 0 /\ lo <= v /\ v <= hi
                                       /\ {lo, hi} \subseteq domain
                                       /\ \E n \in 0..v : v = lo + n * st}
<1>1. RangeMeaning(s, domain, min, max) = UNION {M(p) : p \in Readings(s, A)}
  BY DEF RangeMeaning
<1>2. ParseRange(s, min, max, 1) =
        IF Null \in {r.min, r.max, r.stride} \/ r.min > r.max \/ r.stride = 0 THEN Null ELSE r
  BY DEF ParseRange
<1>3. A \subseteq Tokens \ Signs
  BY SweepAssumption
<1>4. Null \notin Numeral /\ 1 \in Numeral /\ domain \subseteq Nat /\ 0 \in Numeral /\ Numeral \subseteq Nat
  BY NullAssumption, Numerals
<1>5. \A part : \A d \in Numeral : ValueOr(part, d) \in Numeral \cup {Null}
  BY ValueOrTyped
<1>6. parts.min \in Seq(Tokens) /\ parts.max \in Seq(Tokens) /\ parts.stride \in Seq(Tokens)
  BY PartsAreStrings
<1>7. ASSUME NEW p \in Readings(s, A)
      PROVE  /\ p.min = parts.min /\ Upper(p) = parts.max /\ p.stride = parts.stride
             /\ parts.min \in Part(A) /\ parts.max \in Part(A) /\ parts.stride \in Part(A)
  BY <1>3, <1>7, ReadingParsed
<1>8. ASSUME NEW p \in Readings(s, A)
      PROVE  /\ r.min \in Numeral /\ r.max \in Numeral /\ r.stride \in Numeral
             /\ MeansValue(p.min, min) = r.min /\ MeansValue(Upper(p), max) = r.max
             /\ MeansValue(p.stride, 1) = r.stride
  <2> HIDE DEF parts, A
  <2>1. ValueOr(parts.min, min) = MeansValue(parts.min, min) /\ ValueOr(parts.min, min) # Null
    BY <1>6, <1>7, PartMeans DEF A
  <2>2. ValueOr(parts.max, max) = MeansValue(parts.max, max) /\ ValueOr(parts.max, max) # Null
    BY <1>6, <1>7, PartMeans DEF A
  <2>3. ValueOr(parts.stride, 1) = MeansValue(parts.stride, 1) /\ ValueOr(parts.stride, 1) # Null
    BY <1>4, <1>6, <1>7, PartMeans DEF A
  <2> QED BY <1>4, <1>5, <1>7, <2>1, <2>2, <2>3
<1> HIDE DEF parts
<1>9. ASSUME NEW p \in Readings(s, A)
      PROVE  M(p) = {v \in domain : r.stride > 0 /\ r.min <= v /\ v <= r.max
                                    /\ {r.min, r.max} \subseteq domain
                                    /\ \E n \in 0..v : v = r.min + n * r.stride}
  BY <1>8
<1>10. CASE Null \in {r.min, r.max, r.stride} \/ r.min > r.max \/ r.stride = 0
  <2>1. \A p \in Readings(s, A) : M(p) = {}
    <3> SUFFICES ASSUME NEW p \in Readings(s, A) PROVE M(p) = {}
      OBVIOUS
    <3>1. r.min \in Nat /\ r.max \in Nat /\ r.stride \in Nat
      BY <1>4, <1>8
    <3>2. r.min > r.max \/ r.stride = 0
      BY <1>4, <1>8, <1>10
    <3> HIDE DEF r, M
    <3>3. \A v \in domain : ~(r.stride > 0 /\ r.min <= v /\ v <= r.max)
      BY <1>4, <3>1, <3>2
    <3> QED BY <1>9, <3>3
  <2> HIDE DEF r, M
  <2>2. UNION {M(p) : p \in Readings(s, A)} = {}
    BY <2>1
  <2> QED BY <1>1, <1>2, <1>10, <2>2
<1>11. CASE ~(Null \in {r.min, r.max, r.stride} \/ r.min > r.max \/ r.stride = 0)
  <2>1. r.min \in Numeral /\ r.max \in Numeral /\ r.stride \in Numeral /\ r.stride # 0
    BY <1>4, <1>5, <1>11
  <2>2. r \in [min : Nat, max : Nat, stride : Nat]
    BY <1>4, <2>1
  <2>3. ParseRange(s, min, max, 1) = r /\ r # Null
    BY <1>2, <1>11, <2>2, NullAssumption
  <2>4. \E p \in Readings(s, A) : TRUE
    <3>1. parts.min \in Part(A)
      BY <1>6, <1>11, PartMeans
    <3>2. parts.max \in Part(A)
      BY <1>6, <1>11, PartMeans
    <3>3. parts.stride \in Part(A)
      BY <1>4, <1>6, <1>11, PartMeans
    <3> QED BY <1>3, <3>1, <3>2, <3>3, ParsedReading DEF parts
  <2>5. ASSUME NEW p \in Readings(s, A) PROVE M(p) = Named(r, domain)
    <3>1. r.stride > 0
      BY <1>4, <2>1
    <3> HIDE DEF r, M
    <3> QED BY <1>9, <3>1 DEF Named
  <2> HIDE DEF r, M
  <2>6. UNION {M(p) : p \in Readings(s, A)} = Named(r, domain)
    BY <2>4, <2>5
  <2> QED BY <1>1, <2>3, <2>6
<1> QED BY <1>10, <1>11

\* A range of numbers of the type names its whole progression.
LEMMA ExpandedIsNamed ==
  ASSUME NEW r \in [min : Numeral, max : Numeral, stride : 1..(Modulus - 1)], r.min <= r.max
  PROVE  Ascending(Named(r, Numeral)) = Expanded(r) /\ Named(r, Numeral) # {}
<1> DEFINE min == r.min
           max == r.max
           st == r.stride
           q == (max - min) \div st
           S == Named(r, Numeral)
           f == [n \in 1..(q + 1) |-> min + (n - 1) * st]
<1>1. /\ min \in Nat /\ max \in Nat /\ st \in Nat /\ st > 0 /\ max - min \in Nat
      /\ min \in Numeral /\ max \in Numeral /\ \A v \in Nat : v <= max => v \in Numeral
  BY Numerals DEF Numeral
<1>2. S = {v \in Numeral : min <= v /\ v <= max /\ \E n \in 0..v : v = min + n * st}
  BY <1>1 DEF Named
<1>3. Expanded(r) = f
  BY DEF Expanded
<1> HIDE DEF min, max, st, S
<1>4. q \in Nat /\ q * st <= max - min /\ max - min < q * st + st
  <2>1. \A a \in Nat, b \in Nat \ {0} :
          a \div b \in Nat /\ b * (a \div b) <= a /\ a < b * (a \div b) + b
    BY SMT
  <2>2. st * q = q * st
    <3>1. q \in Nat
      BY <1>1, <2>1
    <3> HIDE DEF q
    <3> QED BY <1>1, <3>1
  <2>3. st \in Nat \ {0}
    BY <1>1
  <2> QED BY <1>1, <2>1, <2>2, <2>3
<1> HIDE DEF q
<1>5. ASSUME NEW a \in 1..(q + 1)
      PROVE  /\ (a - 1) * st \in Nat /\ f[a] = min + (a - 1) * st
             /\ f[a] \in S
  <2> DEFINE k == a - 1
  <2>1. k \in Nat /\ k <= q /\ f[a] = min + k * st
    BY <1>4
  <2> HIDE DEF k, f
  <2>2. k * st \in Nat /\ k * st <= q * st /\ k <= k * st
    BY <1>1, <1>4, <2>1
  <2>3. f[a] \in Nat /\ min <= f[a] /\ f[a] <= max /\ k \in 0..f[a]
    BY <1>1, <1>4, <2>1, <2>2
  <2>4. f[a] \in S
    BY <1>1, <1>2, <2>1, <2>3
  <2> QED BY <2>1, <2>2, <2>4 DEF k
<1>6. f \in [1..(q + 1) -> S] /\ q + 1 \in Nat /\ S \subseteq Nat
  <2>1. S \subseteq Nat
    BY Numerals DEF S, Named
  <2>2. q + 1 \in Nat
    BY <1>4
  <2> HIDE DEF f
  <2>3. f = [a \in 1..(q + 1) |-> f[a]]
    BY DEF f
  <2> QED BY <1>5, <2>1, <2>2, <2>3
<1>7. \A a, b \in 1..(q + 1) : a < b => f[a] < f[b]
  <2> SUFFICES ASSUME NEW a \in 1..(q + 1), NEW b \in 1..(q + 1), a < b PROVE f[a] < f[b]
    OBVIOUS
  <2>1. f[a] = min + (a - 1) * st /\ f[b] = min + (b - 1) * st
        /\ (a - 1) * st \in Nat /\ (b - 1) * st \in Nat
    BY <1>5
  <2>2. (a - 1) * st < (b - 1) * st
    <3> DEFINE c == a - 1
               d == b - 1
    <3>1. c \in Nat /\ d \in Nat /\ c < d
      BY <1>4
    <3> HIDE DEF c, d
    <3>2. c * st < d * st
      BY <1>1, <3>1
    <3> QED BY <3>2 DEF c, d
  <2> HIDE DEF f
  <2> QED BY <1>1, <2>1, <2>2
<1>8. \A e \in S : \E a \in 1..(q + 1) : f[a] = e
  <2> SUFFICES ASSUME NEW e \in S PROVE \E a \in 1..(q + 1) : f[a] = e
    OBVIOUS
  <2>1. PICK n \in 0..e : e = min + n * st
    BY <1>2
  <2>2. e \in Nat /\ e <= max /\ n \in Nat /\ n * st \in Nat
    BY <1>1, <1>2, <2>1, Numerals
  <2>3. n * st < q * st + st
    BY <1>1, <1>4, <2>1, <2>2
  <2>4. n <= q
    <3> SUFFICES ASSUME n >= q + 1 PROVE FALSE
      BY <1>4, <2>2
    <3>1. n * st >= (q + 1) * st
      BY <1>1, <1>4, <2>2
    <3>2. (q + 1) * st = q * st + st /\ q * st \in Nat
      BY <1>1, <1>4
    <3> QED BY <1>1, <2>2, <2>3, <3>1, <3>2
  <2>5. n + 1 \in 1..(q + 1) /\ (n + 1) - 1 = n
    BY <1>4, <2>2, <2>4
  <2>6. f[n + 1] = e
    BY <2>1, <2>5
  <2> QED BY <2>5, <2>6
<1>9. S # {}
  <2>1. 1 \in 1..(q + 1)
    BY <1>4
  <2> QED BY <1>5, <2>1
<1> HIDE DEF f
<1>10. Ascending(S) = f
  BY <1>6, <1>7, <1>8, AscendingIs
<1> QED BY <1>3, <1>9, <1>10 DEF S

\* The default sweep goes from Begin up to End.
LEMMA DefaultIsAscending ==
  Ascending(Begin..(End - 1)) = [n \in 1..(End - Begin) |-> Begin + n - 1]
<1> DEFINE S == Begin..(End - 1)
           m == End - Begin
           f == [n \in 1..m |-> Begin + n - 1]
<1>1. Begin \in Nat /\ End \in Nat /\ m \in Nat /\ End = Begin + m
  BY Numerals
<1>2. f \in [1..m -> S] /\ S \subseteq Nat
  BY <1>1
<1>3. \A a, b \in 1..m : a < b => f[a] < f[b]
  BY <1>1
<1>4. \A e \in S : \E a \in 1..m : f[a] = e
  <2> SUFFICES ASSUME NEW e \in S PROVE \E a \in 1..m : f[a] = e
    OBVIOUS
  <2>1. e - Begin + 1 \in 1..m /\ Begin + (e - Begin + 1) - 1 = e
    BY <1>1
  <2> QED BY <2>1
<1> HIDE DEF m, f, S
<1>5. Ascending(S) = f
  BY <1>1, <1>2, <1>3, <1>4, AscendingIs
<1> QED BY <1>5 DEF S, f, m

-----------------------------------------------------------------------------
(* Lists: the pieces that parse_list makes are those between the commas.   *)

\* The ends of the pieces are the commas and the two ends of the string.
LEMMA EndsAre ==
  ASSUME NEW s \in Seq(Tokens)
  PROVE  /\ Ends(s) \subseteq 0..(Len(s) + 1) /\ IsFiniteSet(Ends(s)) /\ Ends(s) \subseteq Nat
         /\ 0 \in Ends(s) /\ Len(s) + 1 \in Ends(s)
         /\ \A i \in Ends(s) : i = 0 \/ i = Len(s) + 1 \/ s[i] = Comma
         /\ \A i \in 1..Len(s) : i \in Ends(s) <=> s[i] = Comma
<1>1. Len(s) \in Nat /\ DOMAIN s = 1..Len(s)
  OBVIOUS
<1>2. Ends(s) \subseteq 0..(Len(s) + 1) /\ 0..(Len(s) + 1) \subseteq Nat
  <2>1. \A i \in Ends(s) : i = 0 \/ i = Len(s) + 1 \/ i \in 1..Len(s)
    BY <1>1 DEF Ends
  <2> QED BY <1>1, <2>1
<1>3. IsFiniteSet(Ends(s))
  <2>1. IsFiniteSet(0..(Len(s) + 1))
    BY <1>1, FS_Interval
  <2> QED BY <1>2, <2>1, FS_Subset
<1>4. 0 \in Ends(s) /\ Len(s) + 1 \in Ends(s)
  BY DEF Ends
<1>5. \A i \in Ends(s) : i = 0 \/ i = Len(s) + 1 \/ s[i] = Comma
  BY DEF Ends
<1>6. \A i \in 1..Len(s) : i \in Ends(s) <=> s[i] = Comma
  BY <1>1 DEF Ends
<1> QED BY <1>2, <1>3, <1>4, <1>5, <1>6

\* A function on 1..n is a sequence of this length.
LEMMA FunctionIsSeq ==
  ASSUME NEW S, NEW n \in Nat, NEW f \in [1..n -> S]
  PROVE  f \in Seq(S) /\ Len(f) = n
  OBVIOUS

\* A stretch of one token.
LEMMA OneToken ==
  ASSUME NEW S, NEW s \in Seq(S), NEW n \in 1..Len(s)
  PROVE  SubSeq(s, n, n) = <<s[n]>>
<1>1. s[n] \in S /\ n \in Int
  OBVIOUS
<1>2. \A i \in n..n : s[i] \in S
  BY <1>1
<1>3. /\ SubSeq(s, n, n) \in Seq(S) /\ Len(SubSeq(s, n, n)) = 1
      /\ SubSeq(s, n, n)[1] = s[n]
  <2>1. /\ SubSeq(s, n, n) \in Seq(S)
        /\ Len(SubSeq(s, n, n)) = IF n <= n THEN n - n + 1 ELSE 0
        /\ \A i \in 1..(n - n + 1) : SubSeq(s, n, n)[i] = s[n + i - 1]
    BY <1>1, <1>2, SubSeqProperties
  <2> QED BY <1>1, <2>1
<1>4. <<s[n]>> \in Seq(S) /\ Len(<<s[n]>>) = 1 /\ <<s[n]>>[1] = s[n]
  BY <1>1
<1>5. \A i \in 1..1 : i = 1
  OBVIOUS
<1> QED BY <1>3, <1>4, <1>5, SeqEqual

\* A string whose pieces are single tokens is the list of them.
LEMMA ListOfPieces ==
  ASSUME NEW s \in Seq(Tokens), \A n \in DOMAIN ParseList(s) : Len(ParseList(s)[n]) = 1
  PROVE  /\ IsListOf(s, Atoms(s)) /\ DOMAIN ParseList(s) = DOMAIN Atoms(s)
         /\ \A n \in DOMAIN Atoms(s) : ParseList(s)[n] = <<Atoms(s)[n]>>
<1> DEFINE T == Ends(s)
           c == Cardinality(T)
           ends == Ascending(T)
           k == c - 1
           len == Len(s)
<1>1. len \in Nat
  OBVIOUS
<1>2. /\ T \subseteq 0..(len + 1) /\ 0 \in T /\ len + 1 \in T
      /\ \A i \in T : i = 0 \/ i = len + 1 \/ s[i] = Comma
      /\ T \subseteq Nat /\ IsFiniteSet(T)
  BY EndsAre
<1> HIDE DEF T
<1>3. /\ c \in Nat /\ ends \in [1..c -> T]
      /\ \A a, b \in 1..c : a < b => ends[a] < ends[b]
      /\ \A e \in T : \E a \in 1..c : ends[a] = e
  BY <1>2, AscendingParts
<1>4. ParseList(s) = [n \in 1..(Len(ends) - 1) |-> SubSeq(s, ends[n] + 1, ends[n + 1] - 1)]
  BY DEF ParseList, T
<1> HIDE DEF c, ends, len
<1>5. Len(ends) = c
  BY <1>3, FunctionIsSeq
<1>6. /\ DOMAIN ParseList(s) = 1..k
      /\ \A n \in 1..k : ParseList(s)[n] = SubSeq(s, ends[n] + 1, ends[n + 1] - 1)
  BY <1>4, <1>5
<1>7. \A a \in 1..c : ends[a] \in Nat /\ ends[a] <= len + 1 /\ ends[a] \in T
  <2>1. \A e \in T : e \in Nat /\ e <= len + 1
    BY <1>1, <1>2
  <2> QED BY <1>3, <2>1
<1>8. PICK a0 \in 1..c : ends[a0] = 0
  BY <1>2, <1>3
<1>9. PICK a1 \in 1..c : ends[a1] = len + 1
  BY <1>2, <1>3
<1>10. c \in Nat /\ c >= 2 /\ k \in Nat /\ k >= 1
  BY <1>1, <1>3, <1>8, <1>9
<1>11. ends[1] = 0
  <2>1. 1 \in 1..c /\ ~(1 < a0) => a0 = 1
    BY <1>8
  <2>2. 1 < a0 => ends[1] < ends[a0]
    BY <1>3, <1>10
  <2> QED BY <1>7, <1>8, <1>10, <2>1, <2>2
<1>12. ends[c] = len + 1
  <2>1. a1 < c => ends[a1] < ends[c]
    BY <1>3, <1>9, <1>10
  <2>2. c \in 1..c
    BY <1>10
  <2>3. ~(a1 < c)
    BY <1>1, <1>7, <1>9, <2>1, <2>2
  <2> QED BY <1>9, <1>10, <2>3
<1>13. ASSUME NEW n \in 1..k PROVE ends[n + 1] = ends[n] + 2
  <2>1. n \in 1..c /\ n + 1 \in 1..c
    BY <1>10
  <2> DEFINE x == ends[n] + 1
             y == ends[n + 1] - 1
  <2>2. /\ ends[n] \in Nat /\ ends[n + 1] \in Nat /\ x \in Int /\ y \in Int
        /\ 1 <= x /\ y <= len
    BY <1>1, <1>7, <2>1
  <2>4. Len(SubSeq(s, x, y)) = 1
    BY <1>6
  <2> HIDE DEF x, y
  <2>3. \A i \in x..y : s[i] \in Tokens
    BY <2>2 DEF len
  <2>5. Len(SubSeq(s, x, y)) = IF x <= y THEN y - x + 1 ELSE 0
    BY <2>2, <2>3, SubSeqProperties
  <2>6. y = x
    BY <2>2, <2>4, <2>5
  <2> QED BY <2>2, <2>6 DEF x, y
<1>14. \A n \in 1..c : ends[n] = 2 * (n - 1)
  <2> DEFINE X == {n \in 1..c : ends[n] # 2 * (n - 1)}
  <2> SUFFICES ASSUME X # {} PROVE FALSE
    OBVIOUS
  <2>1. X \subseteq Nat /\ X \subseteq 1..c
    OBVIOUS
  <2> HIDE DEF X
  <2>2. PICK n \in X : \A m \in X : n <= m
    BY <2>1, LeastNat
  <2>3. n \in 1..c /\ ends[n] # 2 * (n - 1)
    BY <2>1, <2>2 DEF X
  <2>4. n # 1
    BY <1>11, <2>3
  <2>5. n - 1 \in 1..k /\ (n - 1) + 1 = n
    BY <1>10, <2>3, <2>4
  <2>6. n - 1 \notin X
    BY <2>1, <2>2
  <2>7. ends[n - 1] = 2 * ((n - 1) - 1)
    BY <1>10, <2>5, <2>6 DEF X
  <2>8. ends[n] = ends[n - 1] + 2
    BY <1>13, <2>5
  <2> QED BY <2>3, <2>7, <2>8
<1>15. len = 2 * k - 1 /\ (len + 1) \div 2 = k
  BY <1>1, <1>10, <1>12, <1>14
<1>16. Atoms(s) = [n \in 1..k |-> s[2 * n - 1]]
  BY <1>15 DEF Atoms, len
<1>17. ASSUME NEW n \in 1..k PROVE ParseList(s)[n] = <<Atoms(s)[n]>>
  <2>1. ends[n] + 1 = 2 * n - 1 /\ ends[n + 1] - 1 = 2 * n - 1
    BY <1>10, <1>14
  <2> DEFINE x == 2 * n - 1
  <2>2. x \in Int /\ x \in 1..len
    BY <1>10, <1>15
  <2>3. \A i \in x..x : s[i] \in Tokens
    BY <2>2 DEF len
  <2>4. Atoms(s)[n] = s[x] /\ ParseList(s)[n] = SubSeq(s, x, x)
    BY <1>6, <1>16, <2>1
  <2> HIDE DEF x
  <2>5. SubSeq(s, x, x) = <<s[x]>>
    BY <2>2, OneToken DEF len
  <2> QED BY <2>4, <2>5
<1>18. ASSUME NEW n \in 1..(k - 1) PROVE s[2 * n] = Comma
  <2>1. n + 1 \in 1..c /\ ends[n + 1] = 2 * n
    BY <1>10, <1>14
  <2>2. 2 * n # 0 /\ 2 * n # len + 1
    BY <1>10, <1>15
  <2> QED BY <1>2, <1>7, <2>1, <2>2
<1>19. Atoms(s) \in Seq(Tokens) /\ Len(Atoms(s)) = k
  <2>1. \A n \in 1..k : s[2 * n - 1] \in Tokens
    BY <1>10, <1>15 DEF len
  <2> QED BY <1>10, <1>16, <2>1, FunctionIsSeq
<1>20. IsListOf(s, Atoms(s))
  <2>1. Atoms(s) # <<>> /\ DOMAIN Atoms(s) = 1..k
    BY <1>10, <1>19
  <2>2. \A n \in 1..k : s[2 * n - 1] = Atoms(s)[n]
    BY <1>16
  <2> QED BY <1>15, <1>18, <1>19, <2>1, <2>2 DEF IsListOf, len
<1> QED BY <1>6, <1>16, <1>17, <1>20

\* The pieces of a list are its atoms.
LEMMA PiecesOfList ==
  ASSUME NEW s \in Seq(Tokens), NEW atoms, atoms = Atoms(s), IsListOf(s, atoms),
         \A n \in DOMAIN atoms : atoms[n] # Comma
  PROVE  /\ DOMAIN ParseList(s) = DOMAIN atoms
         /\ \A n \in DOMAIN atoms : ParseList(s)[n] = <<atoms[n]>>
<1> DEFINE T == Ends(s)
           len == Len(s)
           k == (len + 1) \div 2
           f == [n \in 1..(k + 1) |-> 2 * (n - 1)]
           ends == Ascending(T)
<1>1. len \in Nat
  OBVIOUS
<1>2. atoms = [n \in 1..k |-> s[2 * n - 1]] /\ k \in Nat
  BY <1>1 DEF Atoms
<1>3. Len(atoms) = k
  BY <1>2
<1>4. len = 2 * k - 1 /\ \A n \in 1..(k - 1) : s[2 * n] = Comma
  BY <1>3 DEF IsListOf
<1>5. \A n \in 1..k : s[2 * n - 1] # Comma /\ s[2 * n - 1] = atoms[n]
  BY <1>2
<1>6. /\ T \subseteq 0..(len + 1) /\ 0 \in T /\ len + 1 \in T /\ T \subseteq Nat
      /\ \A i \in 1..len : i \in T <=> s[i] = Comma
  BY EndsAre
<1> HIDE DEF T, len, k
<1>7. k \in Nat /\ k >= 1
  BY <1>1, <1>2, <1>4
<1>8. \A a \in 1..(k + 1) : 2 * (a - 1) \in T
  <2> SUFFICES ASSUME NEW a \in 1..(k + 1) PROVE 2 * (a - 1) \in T
    OBVIOUS
  <2>1. CASE a = 1
    BY <1>6, <2>1
  <2>2. CASE a = k + 1
    BY <1>4, <1>6, <1>7, <2>2
  <2>3. CASE a # 1 /\ a # k + 1
    <3>1. a - 1 \in 1..(k - 1) /\ 2 * (a - 1) \in 1..len
      BY <1>4, <1>7, <2>3
    <3> QED BY <1>4, <1>6, <3>1
  <2> QED BY <2>1, <2>2, <2>3
<1>9. f \in [1..(k + 1) -> T]
  BY <1>8
<1>10. \A a, b \in 1..(k + 1) : a < b => f[a] < f[b]
  BY <1>7
<1>11. \A e \in T : \E a \in 1..(k + 1) : f[a] = e
  <2> SUFFICES ASSUME NEW e \in T PROVE \E a \in 1..(k + 1) : f[a] = e
    OBVIOUS
  <2>1. e \in 0..(2 * k)
    BY <1>4, <1>6, <1>7
  <2>2. \A n \in 1..k : e # 2 * n - 1
    <3> SUFFICES ASSUME NEW n \in 1..k, e = 2 * n - 1 PROVE FALSE
      OBVIOUS
    <3>1. e \in 1..len
      BY <1>4, <1>7, <2>1
    <3> QED BY <1>5, <1>6, <3>1
  <2>3. \E n \in 0..k : e = 2 * n
    <3> DEFINE h == e \div 2
    <3>1. h \in Nat /\ (e = 2 * h \/ e = 2 * h + 1)
      BY <2>1
    <3> HIDE DEF h
    <3>2. h \in 0..k
      BY <1>7, <2>1, <3>1
    <3>3. e # 2 * h + 1
      <4> SUFFICES ASSUME e = 2 * h + 1 PROVE FALSE
        OBVIOUS
      <4>1. h + 1 \in 1..k /\ 2 * (h + 1) - 1 = e
        BY <1>7, <2>1, <3>1
      <4> QED BY <2>2, <4>1
    <3> QED BY <3>1, <3>2, <3>3
  <2>4. PICK n \in 0..k : e = 2 * n
    BY <2>3
  <2>5. n + 1 \in 1..(k + 1) /\ 2 * ((n + 1) - 1) = e
    BY <1>7, <2>4
  <2> QED BY <2>5
<1>12. k + 1 \in Nat
  BY <1>7
<1>13. ends = f
  <2> DEFINE m == k + 1
  <2> HIDE DEF f, m, ends
  <2>1. m \in Nat /\ f \in [1..m -> T] /\ (\A a, b \in 1..m : a < b => f[a] < f[b])
        /\ \A e \in T : \E a \in 1..m : f[a] = e
    BY <1>9, <1>10, <1>11, <1>12 DEF m
  <2>2. T \subseteq Nat
    BY <1>6
  <2>3. Ascending(T) = f
    BY ONLY <2>1, <2>2, AscendingIs
  <2> QED BY <2>3 DEF ends
<1>14. Len(ends) = k + 1
  BY <1>9, <1>12, <1>13, FunctionIsSeq
<1>15. ParseList(s) = [n \in 1..(Len(ends) - 1) |-> SubSeq(s, ends[n] + 1, ends[n + 1] - 1)]
  BY DEF ParseList, T
<1>16. DOMAIN ParseList(s) = 1..k
  BY <1>7, <1>14, <1>15
<1>17. ASSUME NEW n \in 1..k PROVE ParseList(s)[n] = <<atoms[n]>>
  <2>1. n \in 1..(k + 1) /\ n + 1 \in 1..(k + 1) /\ f[n] = 2 * (n - 1) /\ f[n + 1] = 2 * n
    BY <1>7
  <2> DEFINE x == 2 * n - 1
  <2>2. x \in Int /\ x \in 1..len
    BY <1>4, <1>7
  <2>3. ends[n] + 1 = x /\ ends[n + 1] - 1 = x
    BY <1>13, <2>1
  <2>4. ParseList(s)[n] = SubSeq(s, ends[n] + 1, ends[n + 1] - 1)
    <3> HIDE DEF ends
    <3>1. n \in 1..(Len(ends) - 1)
      BY <1>7, <1>14
    <3> QED BY <1>15, <3>1
  <2>5. atoms[n] = s[x]
    BY <1>5
  <2> HIDE DEF x, ends, f
  <2>6. SubSeq(s, x, x) = <<s[x]>>
    BY <2>2, OneToken DEF len
  <2> QED BY <2>3, <2>4, <2>5, <2>6
<1> QED BY <1>2, <1>16, <1>17

\* A string of one atom of a number is that number, and no other is one.
LEMMA AtomMeans ==
  /\ \A a \in DOMAIN Value : ParseInt(<<a>>) = Value[a] /\ a # Comma
  /\ \A s : ParseInt(s) # Null => Len(s) = 1 /\ s[1] \in DOMAIN Value /\ ParseInt(s) = Value[s[1]]
<1>1. ASSUME NEW a \in DOMAIN Value PROVE ParseInt(<<a>>) = Value[a] /\ a # Comma
  <2>1. Len(<<a>>) = 1 /\ <<a>>[1] = a
    OBVIOUS
  <2>2. a \notin Signs
    BY SweepAssumption
  <2> QED BY <2>1, <2>2 DEF ParseInt, Signs
<1> QED BY <1>1 DEF ParseInt

\* A list of which only numbers of the domain are accepted is what the option

\* means as a list.
LEMMA ListMeans ==
  ASSUME NEW s \in Seq(Tokens), NEW domain, domain \subseteq Numeral, NEW list, list = ParseList(s),
         NEW f, f = [n \in DOMAIN list |-> IF ParseInt(list[n]) \in domain
                                           THEN ParseInt(list[n]) ELSE Null]
  PROVE  AllOrNull(f) = ListMeaning(s, domain)
<1> DEFINE atoms == Atoms(s)
           C == /\ IsListOf(s, atoms) /\ Range(atoms) \subseteq DOMAIN Value
                /\ {Value[a] : a \in Range(atoms)} \subseteq domain
<1>1. ListMeaning(s, domain) = IF C THEN [n \in DOMAIN atoms |-> Value[atoms[n]]] ELSE Null
  BY DEF ListMeaning
<1>2. \A n \in DOMAIN atoms : atoms[n] \in Range(atoms)
  BY DEF Range
<1>3. Null \notin domain
  BY NullAssumption, Numerals
<1>4. IsListOf(s, atoms) => atoms = Atoms(s) /\ IsListOf(s, atoms)
  OBVIOUS
<1> HIDE DEF atoms
<1>5. CASE C
  <2>1. \A n \in DOMAIN atoms : /\ atoms[n] \in DOMAIN Value /\ Value[atoms[n]] \in domain
                                /\ ParseInt(<<atoms[n]>>) = Value[atoms[n]]
                                /\ atoms[n] # Comma
    BY <1>2, <1>5, AtomMeans
  <2>2. DOMAIN list = DOMAIN atoms /\ \A n \in DOMAIN atoms : list[n] = <<atoms[n]>>
    BY <1>4, <1>5, <2>1, PiecesOfList
  <2>3. \A n \in DOMAIN atoms : f[n] = Value[atoms[n]]
    BY <2>1, <2>2
  <2>4. f = [n \in DOMAIN atoms |-> Value[atoms[n]]]
    BY <2>2, <2>3
  <2>5. Null \notin Range(f)
    <3>1. DOMAIN f = DOMAIN atoms
      BY <2>4
    <3>2. \A n \in DOMAIN f : f[n] # Null
      BY <1>3, <2>1, <2>3, <3>1
    <3> QED BY <3>2 DEF Range
  <2> HIDE DEF C
  <2> QED BY <1>1, <1>5, <2>4, <2>5 DEF AllOrNull
<1>6. CASE ~C
  <2>1. Null \in Range(f)
    <3> SUFFICES ASSUME Null \notin Range(f) PROVE FALSE
      OBVIOUS
    <3>1. \A n \in DOMAIN list : f[n] # Null
      BY DEF Range
    <3>2. \A n \in DOMAIN list : ParseInt(list[n]) \in domain /\ ParseInt(list[n]) # Null
      BY <1>3, <3>1
    <3>3. \A n \in DOMAIN list : Len(list[n]) = 1 /\ list[n][1] \in DOMAIN Value
                                 /\ Value[list[n][1]] \in domain
      BY <3>2, AtomMeans
    <3>4. /\ IsListOf(s, atoms) /\ DOMAIN list = DOMAIN atoms
          /\ \A n \in DOMAIN atoms : list[n] = <<atoms[n]>>
      BY <3>3, ListOfPieces DEF atoms
    <3>5. \A n \in DOMAIN atoms : atoms[n] \in DOMAIN Value /\ Value[atoms[n]] \in domain
      BY <3>3, <3>4
    <3>6. \A a \in Range(atoms) : a \in DOMAIN Value /\ Value[a] \in domain
      BY <3>5 DEF Range
    <3> QED BY <1>6, <3>4, <3>6
  <2> HIDE DEF C
  <2> QED BY <1>1, <1>6, <2>1 DEF AllOrNull
<1> QED BY <1>5, <1>6

\* What make_numeric_sweep and make_filtered_sweep make of a list.
LEMMA NumbersMean ==
  ASSUME NEW s \in Seq(Tokens)
  PROVE  Numbers(s) = ListMeaning(s, Numeral)
<1> DEFINE list == ParseList(s)
           f == [n \in DOMAIN list |-> IF ParseInt(list[n]) \in Numeral
                                       THEN ParseInt(list[n]) ELSE Null]
           g == [n \in DOMAIN list |-> ParseInt(list[n])]
<1>1. Numbers(s) = AllOrNull(g)
  BY DEF Numbers
<1>2. \A t : ParseInt(t) = IF ParseInt(t) \in Numeral THEN ParseInt(t) ELSE Null
  BY SweepAssumption DEF ParseInt
<1>3. g = f
  BY <1>2
<1> HIDE DEF list, f, g
<1>4. AllOrNull(f) = ListMeaning(s, Numeral)
  BY ListMeans DEF list, f
<1> QED BY <1>1, <1>3, <1>4

\* The same for the numbers of an array.
LEMMA ValuesMean ==
  ASSUME NEW s \in Seq(Tokens)
  PROVE  Values(s) = ListMeaning(s, Range(ValidValues))
<1> DEFINE list == ParseList(s)
           domain == Range(ValidValues)
           f == [n \in DOMAIN list |-> IF ParseInt(list[n]) \in domain
                                       THEN ParseInt(list[n]) ELSE Null]
<1>1. Values(s) = AllOrNull(f)
  BY DEF Values, ValidOrNull
<1>2. domain \subseteq Numeral
  BY SweepAssumption, RangeOfSeq
<1> HIDE DEF list, f, domain
<1>3. AllOrNull(f) = ListMeaning(s, domain)
  BY <1>2, ListMeans DEF list, f
<1> QED BY <1>1, <1>3 DEF domain

-----------------------------------------------------------------------------
\* A numeric sweep is what its option means.
LEMMA NumericMeans ==
  ASSUME opt \in Seq(Tokens), kind = "numeric"
  PROVE  NumericSweep = IF opt \in Defaults THEN Ascending(Begin..(End - 1))
                        ELSE NumberMeaning(opt, Numeral, Begin, End)
<1>1. IsAuto(opt) <=> opt \in Defaults
  BY DEF IsAuto, Defaults
<1>2. CASE IsAuto(opt)
  BY <1>1, <1>2, DefaultIsAscending DEF NumericSweep
<1>3. CASE ~IsAuto(opt)
  <2> DEFINE r == ParseRange(opt, Begin, End, 1)
             S == RangeMeaning(opt, Numeral, Begin, End)
  <2>1. S = IF r = Null THEN {} ELSE Named(r, Numeral)
    BY <1>3, Numerals, MeaningOfRange
  <2>2. NumericSweep = IF r = Null THEN Numbers(opt) ELSE Expanded(r)
    BY <1>3 DEF NumericSweep, Option
  <2>3. NumberMeaning(opt, Numeral, Begin, End) =
          IF S # {} THEN Ascending(S) ELSE ListMeaning(opt, Numeral)
    BY DEF NumberMeaning
  <2>4. ASSUME r # Null PROVE Ascending(Named(r, Numeral)) = Expanded(r) /\ Named(r, Numeral) # {}
    <3>1. r \in [min : Numeral, max : Numeral, stride : 1..(Modulus - 1)] /\ r.min <= r.max
      BY <1>3, <2>4, Numerals, RangeTyped
    <3> HIDE DEF r
    <3> QED BY <3>1, ExpandedIsNamed
  <2> HIDE DEF r, S
  <2> QED BY <1>1, <1>3, <2>1, <2>2, <2>3, <2>4, NumbersMean
<1> QED BY <1>2, <1>3

\* make_numeric_sweep runs just the values the option means, for any option,

\* any type of numbers and any default range.
THEOREM NumbersAsAsked == SweepSpec => []NumericAsAsked
<1>1. SweepInv => NumericAsAsked
  <2> SUFFICES ASSUME SweepInv, stage = "returned", kind = "numeric"
               PROVE  result = IF opt \in Defaults THEN Ascending(Begin..(End - 1))
                               ELSE NumberMeaning(opt, Numeral, Begin, End)
    BY DEF NumericAsAsked
  <2>1. opt \in Seq(Tokens)
    BY SweepAssumption DEF SweepInv
  <2>2. result = NumericSweep
    BY DEF SweepInv, ResultInv
  <2> QED BY <2>1, <2>2, NumericMeans
<1> QED BY <1>1, SweepInvariance, PTL

-----------------------------------------------------------------------------
(* Ranges of the values of an array.                                       *)

\* The values of the array, by their places.
LEMMA ArrayTyped ==
  /\ Len(ValidValues) \in Nat /\ DOMAIN ValidValues = 1..Len(ValidValues)
  /\ \A n \in 1..Len(ValidValues) :
       ValidValues[n] \in Nat /\ ValidValues[n] < Modulus /\ ValidValues[n] \in Range(ValidValues)
  /\ \A v \in Range(ValidValues) : \E n \in 1..Len(ValidValues) : v = ValidValues[n]
  /\ \A m, n \in 1..Len(ValidValues) : m < n => ValidValues[m] < ValidValues[n]
  /\ Range(ValidValues) \subseteq Numeral /\ Range(ValidValues) \subseteq Nat
<1>1. /\ ValidValues \in Seq(Numeral)
      /\ \A m, n \in DOMAIN ValidValues : m < n => ValidValues[m] < ValidValues[n]
  BY SweepAssumption
<1>2. Len(ValidValues) \in Nat /\ DOMAIN ValidValues = 1..Len(ValidValues)
  BY <1>1
<1>3. \A n \in 1..Len(ValidValues) : ValidValues[n] \in Numeral
  BY <1>1
<1>4. \A v \in Numeral : v \in Nat /\ v < Modulus
  BY Numerals DEF Numeral
<1>5. /\ \A v \in Range(ValidValues) : \E n \in 1..Len(ValidValues) : v = ValidValues[n]
      /\ \A n \in 1..Len(ValidValues) : ValidValues[n] \in Range(ValidValues)
  BY <1>2 DEF Range
<1>6. Range(ValidValues) \subseteq Numeral
  BY <1>3, <1>5
<1> QED BY <1>1, <1>2, <1>3, <1>4, <1>5, <1>6

\* The whole array is its values in ascending order.
LEMMA ArrayIsAscending == Ascending(Range(ValidValues)) = ValidValues
<1> DEFINE S == Range(ValidValues)
           m == Len(ValidValues)
<1>1. S \subseteq Nat /\ m \in Nat
  BY ArrayTyped
<1>2. ValidValues \in [1..m -> S]
  <2>1. ValidValues \in [1..m -> Numeral]
    BY SweepAssumption, LenProperties
  <2> QED BY <2>1, ArrayTyped
<1>3. /\ \A a, b \in 1..m : a < b => ValidValues[a] < ValidValues[b]
      /\ \A e \in S : \E a \in 1..m : ValidValues[a] = e
  BY ArrayTyped
<1> HIDE DEF S, m
<1>4. Ascending(S) = ValidValues
  BY <1>1, <1>2, <1>3, AscendingIs
<1> QED BY <1>4 DEF S

\* A value of an array is found at a place of it.
LEMMA FoundInRange ==
  ASSUME NEW S, NEW s \in Seq(S), NEW v \in Range(s)
  PROVE  Find(s, v) \in 1..Len(s) /\ s[Find(s, v)] = v
<1>1. PICK n \in 1..Len(s) : s[n] = v
  BY RangeEquality
<1>2. /\ Find(s, v) \in 1..(Len(s) + 1)
      /\ \A i \in 1..(Find(s, v) - 1) : s[i] # v
      /\ Find(s, v) <= Len(s) => s[Find(s, v)] = v
  BY FindThere
<1>3. Len(s) \in Nat
  OBVIOUS
<1> DEFINE f == Find(s, v)
<1> HIDE DEF f
<1>4. f \in 1..(Len(s) + 1) /\ (\A i \in 1..(f - 1) : s[i] # v) /\ (f <= Len(s) => s[f] = v)
  BY <1>2 DEF f
<1>5. f <= Len(s)
  BY <1>1, <1>3, <1>4
<1>6. f \in 1..Len(s) /\ s[f] = v
  BY <1>3, <1>4, <1>5
<1> QED BY <1>6 DEF f

\* Nothing is left of a number that is a multiple, and of no other.
LEMMA NothingLeft ==
  ASSUME NEW d \in Nat, NEW st \in Nat \ {0}
  PROVE  d % st = 0 <=> \E k \in 0..d : d = k * st
<1>1. /\ d \div st \in Nat /\ d = st * (d \div st) + (d % st)
      /\ d % st \in Nat /\ d % st < st
  BY SMT
<1> DEFINE q == d \div st
           rest == d % st
<1>2. q \in Nat /\ d = q * st + rest /\ rest \in Nat /\ q * st \in Nat
  <2>1. q \in Nat /\ d = st * q + rest /\ rest \in Nat
    BY <1>1
  <2> HIDE DEF q, rest
  <2> QED BY <2>1
<1>3. ASSUME rest = 0 PROVE \E k \in 0..d : d = k * st
  <2> HIDE DEF q, rest
  <2>1. d = q * st
    BY <1>2, <1>3
  <2>2. q <= q * st
    BY <1>2
  <2> QED BY <1>2, <2>1, <2>2
<1>4. ASSUME NEW k \in 0..d, d = k * st PROVE rest = 0
  <2>1. k \in Nat /\ k * st <= d /\ d < k * st + st
    BY <1>4
  <2>2. q = k
    BY <2>1, QuotientIs
  <2> HIDE DEF q, rest
  <2> QED BY <1>2, <1>4, <2>2
<1> QED BY <1>3, <1>4

\* A value of a range is on its stride when the range names it.
LEMMA StrideMeans ==
  ASSUME NEW v \in Numeral, NEW r \in [min : Numeral, max : Numeral, stride : 1..(Modulus - 1)],
         r.min <= v
  PROVE  OnStride(v, r) <=> \E n \in 0..v : v = r.min + n * r.stride
<1> DEFINE min == r.min
           st == r.stride
           d == v - min
<1>1. v \in Nat /\ min \in Nat /\ st \in Nat \ {0} /\ d \in Nat /\ d < Modulus /\ min <= v
  BY Numerals DEF Numeral
<1>2. d % Modulus = d
  BY <1>1, Numerals
<1>3. OnStride(v, r) <=> d % st = 0
  BY <1>2 DEF OnStride
<1> HIDE DEF min, st
<1>4. (\E n \in 0..v : v = min + n * st) <=> \E k \in 0..d : d = k * st
  <2>1. ASSUME NEW n \in 0..v, v = min + n * st PROVE \E k \in 0..d : d = k * st
    <3>1. n \in Nat /\ n * st \in Nat /\ n <= n * st
      BY <1>1, <2>1
    <3>2. d = n * st
      BY <1>1, <2>1, <3>1
    <3>3. n \in 0..d
      BY <1>1, <3>1, <3>2
    <3> QED BY <3>2, <3>3
  <2>2. ASSUME NEW k \in 0..d, d = k * st PROVE \E n \in 0..v : v = min + n * st
    <3>1. k \in 0..v /\ v = min + k * st
      BY <1>1, <2>2
    <3> QED BY <3>1
  <2> QED BY <2>1, <2>2
<1> HIDE DEF d
<1>5. d % st = 0 <=> \E k \in 0..d : d = k * st
  BY <1>1, NothingLeft, Zenon
<1> QED BY <1>3, <1>4, <1>5 DEF min, st

\* What FilterValues makes of a range with both ends in the array is all that

\* the range names in the array.
LEMMA SliceMeans ==
  ASSUME NEW r \in [min : Numeral, max : Numeral, stride : 1..(Modulus - 1)], r.min <= r.max,
         r.min \in Range(ValidValues), r.max \in Range(ValidValues),
         NEW slice, slice = SubSeq(ValidValues, Find(ValidValues, r.min), Find(ValidValues, r.max)),
         NEW at, at = Ascending({n \in DOMAIN slice : OnStride(slice[n], r)})
  PROVE  /\ Find(ValidValues, r.min) <= Find(ValidValues, r.max)
         /\ slice \in Seq(Nat)
         /\ [n \in DOMAIN at |-> slice[at[n]]] = Ascending(Named(r, Range(ValidValues)))
         /\ [n \in DOMAIN at |-> slice[at[n]]] \in Seq(Nat)
         /\ [n \in DOMAIN at |-> slice[at[n]]] # <<>>
         /\ Named(r, Range(ValidValues)) # {}
<1> DEFINE V == ValidValues
           D == Range(V)
           lo == r.min
           hi == r.max
           a == Find(V, lo)
           b == Find(V, hi)
           k == b - a + 1
           P == {n \in DOMAIN slice : OnStride(slice[n], r)}
           S == Named(r, D)
           c == Cardinality(P)
           g == [n \in DOMAIN at |-> slice[at[n]]]
<1>1. V \in Seq(Numeral) /\ D \subseteq Numeral /\ D \subseteq Nat /\ Len(V) \in Nat
  BY SweepAssumption, ArrayTyped
<1>2. a \in 1..Len(V) /\ V[a] = lo /\ b \in 1..Len(V) /\ V[b] = hi
  BY <1>1, FoundInRange
<1>3. /\ \A m, n \in 1..Len(V) : m < n => V[m] < V[n]
      /\ \A n \in 1..Len(V) : V[n] \in Nat /\ V[n] \in D /\ V[n] \in Numeral
      /\ \A v \in D : \E n \in 1..Len(V) : v = V[n]
  BY <1>1, ArrayTyped
<1>4. lo \in Nat /\ hi \in Nat /\ lo <= hi /\ lo \in D /\ hi \in D
  BY <1>1
<1>5. S = {v \in D : lo <= v /\ v <= hi /\ \E n \in 0..v : v = lo + n * r.stride}
  BY <1>4 DEF Named
<1>6. slice = SubSeq(V, a, b)
  OBVIOUS
<1>7. \A v \in Numeral : lo <= v =>
        (OnStride(v, r) <=> \E n \in 0..v : v = lo + n * r.stride)
  BY StrideMeans
<1> HIDE DEF V, D, lo, hi, a, b, S
<1>8. \A m, n \in 1..Len(V) : V[m] <= V[n] => m <= n
  <2> SUFFICES ASSUME NEW m \in 1..Len(V), NEW n \in 1..Len(V), V[m] <= V[n], ~(m <= n)
               PROVE  FALSE
    OBVIOUS
  <2>1. n < m
    BY <1>1
  <2>2. V[n] < V[m]
    BY <1>3, <2>1
  <2>3. V[n] \in Nat /\ V[m] \in Nat
    BY <1>3
  <2> QED BY <2>2, <2>3
<1>9. \A m, n \in 1..Len(V) : m <= n => V[m] <= V[n]
  <2> SUFFICES ASSUME NEW m \in 1..Len(V), NEW n \in 1..Len(V), m <= n
               PROVE  V[m] <= V[n]
    OBVIOUS
  <2>1. m = n \/ m < n
    BY <1>1
  <2>2. V[n] \in Nat /\ V[m] \in Nat
    BY <1>3
  <2> QED BY <1>3, <2>1, <2>2
<1>10. a \in Nat /\ b \in Nat /\ 1 <= a /\ a <= b /\ b <= Len(V) /\ k \in Nat /\ k >= 1
  <2>1. a <= b
    BY <1>2, <1>4, <1>8
  <2> QED BY <1>1, <1>2, <2>1
<1>11. /\ slice \in Seq(Numeral) /\ Len(slice) = k /\ DOMAIN slice = 1..k
       /\ \A n \in 1..k : slice[n] = V[a + n - 1] /\ a + n - 1 \in 1..Len(V)
  <2>1. \A i \in a..b : V[i] \in Numeral
    BY <1>3, <1>10
  <2>2. /\ SubSeq(V, a, b) \in Seq(Numeral)
        /\ Len(SubSeq(V, a, b)) = IF a <= b THEN b - a + 1 ELSE 0
        /\ \A i \in 1..(b - a + 1) : SubSeq(V, a, b)[i] = V[a + i - 1]
    BY <1>10, <2>1, SubSeqProperties
  <2>3. slice \in Seq(Numeral) /\ Len(slice) = k
    BY <1>6, <1>10, <2>2
  <2>4. \A n \in 1..k : slice[n] = V[a + n - 1] /\ a + n - 1 \in 1..Len(V)
    BY <1>1, <1>6, <1>10, <2>2
  <2> QED BY <2>3, <2>4
<1>12. /\ IsFiniteSet(P) /\ P \subseteq Nat /\ P \subseteq 1..k
       /\ \A n \in 1..k : n \in P <=> OnStride(slice[n], r)
  <2>1. IsFiniteSet(1..k)
    BY <1>10, FS_Interval
  <2>2. P \subseteq 1..k
    BY <1>11
  <2>3. IsFiniteSet(P)
    <3> HIDE DEF P, k
    <3>1. P \in SUBSET (1..k)
      BY <2>2
    <3> QED BY ONLY <2>1, <3>1, FS_Subset
  <2>4. P \subseteq Nat
    BY <1>10, <2>2
  <2> QED BY <1>11, <2>2, <2>3, <2>4
<1>13. at = Ascending(P)
  OBVIOUS
<1> HIDE DEF P, k
<1>14. /\ c \in Nat /\ at \in [1..c -> P]
       /\ \A m, n \in 1..c : m < n => at[m] < at[n]
       /\ \A e \in P : \E n \in 1..c : at[n] = e
  <2>1. IsFiniteSet(P) /\ P \subseteq Nat
    BY <1>12
  <2>2. /\ Cardinality(P) \in Nat
        /\ Ascending(P) \in [1..Cardinality(P) -> P]
        /\ \A m, n \in 1..Cardinality(P) : m < n => Ascending(P)[m] < Ascending(P)[n]
        /\ \A e \in P : \E n \in 1..Cardinality(P) : Ascending(P)[n] = e
    BY ONLY <2>1, AscendingParts
  <2> QED BY <1>13, <2>2
<1> HIDE DEF c
<1>15. ASSUME NEW n \in P PROVE slice[n] \in S /\ slice[n] \in Nat
  <2>1. n \in 1..k /\ OnStride(slice[n], r)
    BY <1>12
  <2> DEFINE m == a + n - 1
  <2>2. slice[n] = V[m] /\ m \in 1..Len(V) /\ a <= m /\ m <= b
    <3>1. n \in Nat /\ 1 <= n /\ n <= b - a + 1
      BY <1>10, <2>1 DEF k
    <3>2. a <= m /\ m <= b
      BY <1>10, <3>1
    <3> QED BY <1>11, <2>1, <3>2
  <2> HIDE DEF m
  <2>3. lo <= V[m] /\ V[m] <= hi
    BY <1>2, <1>9, <2>2
  <2>4. V[m] \in D /\ V[m] \in Numeral /\ V[m] \in Nat
    BY <1>3, <2>2
  <2> QED BY <1>5, <1>7, <2>1, <2>2, <2>3, <2>4
<1>16. DOMAIN at = 1..c /\ \A n \in 1..c : at[n] \in P /\ g[n] = slice[at[n]]
  BY <1>14
<1>17. g \in [1..c -> S] /\ g \in [1..c -> Nat]
  <2>1. g = [n \in 1..c |-> slice[at[n]]]
    BY <1>16
  <2> QED BY <1>15, <1>16, <2>1
<1>18. \A m, n \in 1..c : m < n => g[m] < g[n]
  <2> SUFFICES ASSUME NEW m \in 1..c, NEW n \in 1..c, m < n PROVE g[m] < g[n]
    OBVIOUS
  <2> DEFINE p == at[m]
             q == at[n]
  <2>1. p \in 1..k /\ q \in 1..k /\ p < q
    BY <1>12, <1>14, <1>16
  <2>2. g[m] = slice[p] /\ g[n] = slice[q]
    BY <1>16
  <2> HIDE DEF p, q, g
  <2>3. p \in Nat /\ q \in Nat
    BY <1>10, <2>1
  <2> DEFINE x == a + p - 1
             y == a + q - 1
  <2>4. slice[p] = V[x] /\ x \in 1..Len(V) /\ slice[q] = V[y] /\ y \in 1..Len(V)
    BY <1>11, <2>1
  <2>5. x < y
    BY <1>10, <2>1, <2>3
  <2> HIDE DEF x, y
  <2>6. V[x] < V[y]
    BY <1>3, <2>4, <2>5
  <2> QED BY <2>2, <2>4, <2>6, ZenonT(30)
<1>19. ASSUME NEW e \in S PROVE \E n \in 1..c : g[n] = e
  <2>1. e \in D /\ lo <= e /\ e <= hi /\ \E n \in 0..e : e = lo + n * r.stride
    BY <1>5
  <2>2. PICK m \in 1..Len(V) : e = V[m]
    BY <1>3, <2>1
  <2>3. a <= m /\ m <= b
    BY <1>2, <1>8, <2>1, <2>2
  <2> DEFINE n == m - a + 1
  <2>4. n \in 1..k /\ a + n - 1 = m
    BY <1>10, <2>3 DEF k
  <2> HIDE DEF n
  <2>5. slice[n] = e
    BY <1>11, <2>2, <2>4
  <2>6. n \in P
    <3>1. e \in Numeral
      BY <1>3, <2>2
    <3>2. OnStride(e, r)
      BY <1>7, <2>1, <3>1
    <3> QED BY <1>12, <2>4, <2>5, <3>2
  <2>7. PICK i \in 1..c : at[i] = n
    BY <1>14, <2>6
  <2>8. g[i] = e
    BY <1>16, <2>5, <2>7
  <2> QED BY <2>8
<1>20. S \subseteq Nat
  BY <1>1, <1>5
<1>21. S # {} /\ lo \in S
  <2>1. r.stride \in Nat
    OBVIOUS
  <2>2. 0 \in 0..lo /\ lo = lo + 0 * r.stride
    BY <1>4, <2>1
  <2>3. lo <= lo
    BY <1>4
  <2>4. lo \in S
    BY <1>4, <1>5, <2>2, <2>3
  <2> QED BY <2>4
<1> HIDE DEF g
<1>22. Ascending(S) = g
  <2>1. /\ c \in Nat /\ g \in [1..c -> S]
        /\ \A m, n \in 1..c : m < n => g[m] < g[n]
        /\ \A e \in S : \E n \in 1..c : g[n] = e
    BY <1>14, <1>17, <1>18, <1>19
  <2> QED BY ONLY <1>20, <2>1, AscendingIs
<1>23. g \in Seq(Nat) /\ Len(g) = c
  BY <1>14, <1>17, FunctionIsSeq
<1>24. g # <<>>
  <2>1. PICK n \in 1..c : g[n] = lo
    BY <1>19, <1>21
  <2>2. c # 0
    BY <1>14, <2>1
  <2> QED BY <1>23, <2>2
<1>25. slice \in Seq(Nat)
  <2>1. \A n \in 1..k : slice[n] \in Nat
    BY <1>3, <1>11
  <2>2. slice = [n \in 1..k |-> slice[n]]
    BY <1>11, LenProperties
  <2>3. k \in Nat /\ slice \in [1..k -> Nat]
    BY <1>10, <2>1, <2>2
  <2> QED BY <2>3, FunctionIsSeq
<1>26. a <= b
  BY <1>10
<1> QED BY <1>21, <1>22, <1>23, <1>24, <1>25, <1>26, Zenon DEF S, D, V, g, a, b, lo, hi

\* What a range of numbers selects from the array, or nothing.
LEMMA FilterMeans ==
  ASSUME NEW s \in Seq(Tokens), ~IsAuto(s)
  PROVE  LET S == RangeMeaning(s, Range(ValidValues), DefaultMin, DefaultMax)
         IN  /\ S = {} => FilterValues(s) = Null
             /\ S # {} => /\ FilterValues(s) = Ascending(S)
                          /\ FilterValues(s) # Null /\ FilterValues(s) # <<>>
<1> DEFINE D == Range(ValidValues)
           S == RangeMeaning(s, D, DefaultMin, DefaultMax)
           r == ParseRange(s, DefaultMin, DefaultMax, 1)
           slice == IF r = Null THEN Null ELSE Slice(ValidValues, r.min, r.max)
           at == Ascending({n \in DOMAIN slice : OnStride(slice[n], r)})
           g == [n \in DOMAIN at |-> slice[at[n]]]
<1>1. FilterValues(s) = IF slice = Null THEN Null ELSE g
  BY DEF FilterValues
<1>2. D \subseteq Numeral /\ DefaultMin \in Numeral /\ DefaultMax \in Numeral
  <2>1. D \subseteq Numeral
    BY ArrayTyped
  <2>2. {DefaultMin, DefaultMax} \subseteq D
    BY SweepAssumption
  <2> QED BY <2>1, <2>2
<1>3. S = IF r = Null THEN {} ELSE Named(r, D)
  <2> HIDE DEF D
  <2> QED BY <1>2, MeaningOfRange
<1>4. CASE r = Null
  BY <1>1, <1>3, <1>4
<1>5. CASE r # Null
  <2>1. r \in [min : Numeral, max : Numeral, stride : 1..(Modulus - 1)] /\ r.min <= r.max
    BY <1>2, <1>5, RangeTyped
  <2>2. slice = IF /\ r.min \in D /\ r.max \in D
                   /\ Find(ValidValues, r.min) <= Find(ValidValues, r.max)
                THEN SubSeq(ValidValues, Find(ValidValues, r.min), Find(ValidValues, r.max))
                ELSE Null
    BY <1>5 DEF Slice
  <2> HIDE DEF S, r, slice
  <2>3. CASE r.min \in D /\ r.max \in D
    <3> DEFINE sub == SubSeq(ValidValues, Find(ValidValues, r.min), Find(ValidValues, r.max))
               atsub == Ascending({n \in DOMAIN sub : OnStride(sub[n], r)})
               h == [n \in DOMAIN atsub |-> sub[atsub[n]]]
    <3> HIDE DEF sub, atsub
    <3>1. /\ Find(ValidValues, r.min) <= Find(ValidValues, r.max)
          /\ sub \in Seq(Nat)
          /\ h = Ascending(Named(r, D))
          /\ h \in Seq(Nat)
          /\ h # <<>>
          /\ Named(r, D) # {}
      BY <2>1, <2>3, SliceMeans DEF sub, atsub
    <3>2. slice = sub
      BY <2>2, <2>3, <3>1 DEF sub
    <3>3. at = atsub
      BY <3>2 DEF atsub
    <3>4. g = h
      <4> HIDE DEF at
      <4> QED BY <3>2, <3>3
    <3> HIDE DEF g, h
    <3>5. slice # Null /\ h # Null
      BY <3>1, <3>2, NullAssumption
    <3> QED BY <1>1, <1>3, <1>5, <3>1, <3>4, <3>5 DEF S
  <2>4. CASE ~(r.min \in D /\ r.max \in D)
    <3>1. slice = Null
      BY <2>2, <2>4
    <3>2. Named(r, D) = {}
      BY <2>4 DEF Named
    <3> HIDE DEF g
    <3> QED BY <1>1, <1>3, <1>5, <3>1, <3>2 DEF S
  <2> QED BY <2>3, <2>4
<1> QED BY <1>4, <1>5

-----------------------------------------------------------------------------
(* Ranges and lists of names.                                              *)

\* The names of the array, by their places.
LEMMA NamesTyped ==
  /\ ValidNames \in Seq(Tokens) /\ Range(ValidNames) \subseteq Tokens \ Signs
  /\ Len(ValidNames) \in Nat
  /\ \A n \in 1..Len(ValidNames) : ValidNames[n] \in Range(ValidNames)
  /\ \A m, n \in 1..Len(ValidNames) : ValidNames[m] = ValidNames[n] => m = n
  /\ NameMin \in Range(ValidNames) /\ NameMax \in Range(ValidNames)
  /\ Null \notin Range(ValidNames) /\ Null \notin Seq(Tokens) /\ Comma \notin Range(ValidNames)
<1>1. ValidNames \in Seq(Tokens \ Signs) /\ IsInjective(ValidNames)
  BY SweepAssumption
<1>2. Range(ValidNames) \subseteq Tokens \ Signs
  BY <1>1, RangeOfSeq
<1>3. /\ ValidNames \in Seq(Tokens) /\ Len(ValidNames) \in Nat
      /\ DOMAIN ValidNames = 1..Len(ValidNames)
  BY <1>1
<1>4. \A n \in 1..Len(ValidNames) : ValidNames[n] \in Range(ValidNames)
  BY <1>3 DEF Range
<1>5. \A m, n \in 1..Len(ValidNames) : ValidNames[m] = ValidNames[n] => m = n
  BY <1>1, <1>3 DEF IsInjective
<1>6. NameMin \in Range(ValidNames) /\ NameMax \in Range(ValidNames)
  BY SweepAssumption
<1>7. Null \notin Range(ValidNames) /\ Null \notin Seq(Tokens) /\ Comma \notin Range(ValidNames)
  BY <1>2, NullAssumption DEF Signs
<1> QED BY <1>2, <1>3, <1>4, <1>5, <1>6, <1>7

\* A part that is a name is that name, any other is none.
LEMMA NameMeans ==
  ASSUME NEW part \in Seq(Tokens), NEW default \in Range(ValidNames)
  PROVE  /\ part \in Part(Range(ValidNames)) =>
              NameOr(part, default) = MeansName(part, default)
         /\ NameOr(part, default) \in Range(ValidNames) => part \in Part(Range(ValidNames))
<1>1. CASE part = <<>>
  BY <1>1 DEF NameOr, MeansName, Part
<1>2. CASE part # <<>>
  <2>1. NameOr(part, default) = IF Len(part) = 1 THEN part[1] ELSE Null
    BY <1>2 DEF NameOr
  <2>2. MeansName(part, default) = part[1]
    BY <1>2 DEF MeansName
  <2>3. ASSUME part \in Part(Range(ValidNames)) PROVE Len(part) = 1
    <3>1. PICK a \in Range(ValidNames) : part = <<a>>
      BY <1>2, <2>3 DEF Part
    <3> QED BY <3>1
  <2>4. ASSUME NameOr(part, default) \in Range(ValidNames)
        PROVE  part \in Part(Range(ValidNames))
    <3>1. Len(part) = 1 /\ part[1] \in Range(ValidNames)
      BY <2>1, <2>4, NamesTyped
    <3>2. part = <<part[1]>>
      BY <3>1
    <3> QED BY <3>1, <3>2 DEF Part
  <2> QED BY <2>1, <2>2, <2>3, <2>4
<1> QED BY <1>1, <1>2

\* A stretch of the array between two names is found by them.
LEMMA StretchFound ==
  ASSUME NEW i \in 1..Len(ValidNames), NEW j \in 1..Len(ValidNames), i <= j
  PROVE  /\ Find(ValidNames, ValidNames[i]) = i /\ Find(ValidNames, ValidNames[j]) = j
         /\ SubSeq(ValidNames, i, j) \in Seq(Tokens) /\ SubSeq(ValidNames, i, j) # <<>>
         /\ SubSeq(ValidNames, i, j)[1] = ValidNames[i]
         /\ Last(SubSeq(ValidNames, i, j)) = ValidNames[j]
<1>1. /\ ValidNames \in Seq(Tokens) /\ Len(ValidNames) \in Nat
      /\ \A m, n \in 1..Len(ValidNames) : ValidNames[m] = ValidNames[n] => m = n
  BY NamesTyped
<1>2. ASSUME NEW n \in 1..Len(ValidNames) PROVE Find(ValidNames, ValidNames[n]) = n
  <2>1. n \in 1..(Len(ValidNames) + 1) /\ \A m \in 1..(n - 1) : ValidNames[m] # ValidNames[n]
    BY <1>1
  <2> QED BY <1>1, <2>1, FindIs
<1> DEFINE sub == SubSeq(ValidNames, i, j)
           k == j - i + 1
<1>3. k \in Nat /\ k >= 1 /\ i + k - 1 = j
  BY <1>1
<1>4. \A n \in i..j : ValidNames[n] \in Tokens
  BY <1>1
<1>5. /\ sub \in Seq(Tokens) /\ Len(sub) = IF i <= j THEN j - i + 1 ELSE 0
      /\ \A n \in 1..(j - i + 1) : sub[n] = ValidNames[i + n - 1]
  BY <1>1, <1>4, SubSeqProperties
<1> HIDE DEF sub
<1>6. Len(sub) = k /\ sub # <<>>
  BY <1>3, <1>5
<1>7. sub[1] = ValidNames[i]
  BY <1>1, <1>3, <1>5
<1>8. sub[k] = ValidNames[j]
  BY <1>1, <1>3, <1>5
<1> HIDE DEF k
<1>9. Last(sub) = ValidNames[j]
  BY <1>6, <1>8 DEF Last
<1> QED BY <1>2, <1>5, <1>6, <1>7, <1>9 DEF sub

\* A range of names is a stretch of the array that the option means, and an

\* option without a range means none.
LEMMA NamesFiltered ==
  ASSUME NEW s \in Seq(Tokens)
  PROVE  /\ FilterNames(s) # Null => FilterNames(s) \in NameRanges(s)
         /\ FilterNames(s) = Null => NameRanges(s) = {}
<1> DEFINE A == Range(ValidNames)
           parts == ParseMinMaxStride(s)
           lo == NameOr(parts.min, NameMin)
           hi == NameOr(parts.max, NameMax)
           a == Find(ValidNames, lo)
           b == Find(ValidNames, hi)
           M(p) == {r \in SubSeqs(ValidNames) :
                      /\ r # <<>> /\ r[1] = MeansName(p.min, NameMin)
                      /\ Last(r) = MeansName(Upper(p), NameMax) /\ p.stride = <<>>}
<1>1. NameRanges(s) = UNION {M(p) : p \in Readings(s, A)}
  BY DEF NameRanges
<1>2. FilterNames(s) = IF parts.stride = <<>> /\ lo \in A /\ hi \in A /\ a <= b
                       THEN SubSeq(ValidNames, a, b) ELSE Null
  BY DEF FilterNames, Slice
<1>3. parts.min \in Seq(Tokens) /\ parts.max \in Seq(Tokens) /\ parts.stride \in Seq(Tokens)
  BY PartsAreStrings
<1>4. A \subseteq Tokens \ Signs /\ NameMin \in A /\ NameMax \in A
  BY NamesTyped
<1>5. /\ parts.min \in Part(A) => lo = MeansName(parts.min, NameMin)
      /\ lo \in A => parts.min \in Part(A)
  <2> HIDE DEF parts
  <2> QED BY <1>3, <1>4, NameMeans
<1>6. /\ parts.max \in Part(A) => hi = MeansName(parts.max, NameMax)
      /\ hi \in A => parts.max \in Part(A)
  <2> HIDE DEF parts
  <2> QED BY <1>3, <1>4, NameMeans
<1>7. ASSUME NEW p \in Readings(s, A)
      PROVE  /\ p.min = parts.min /\ Upper(p) = parts.max /\ p.stride = parts.stride
             /\ parts.min \in Part(A) /\ parts.max \in Part(A)
  <2> HIDE DEF A
  <2> QED BY <1>4, ReadingParsed
<1>8. ASSUME NEW p \in Readings(s, A)
      PROVE  M(p) = {r \in SubSeqs(ValidNames) :
                       r # <<>> /\ r[1] = lo /\ Last(r) = hi /\ parts.stride = <<>>}
  <2> HIDE DEF parts
  <2> QED BY <1>5, <1>6, <1>7
<1>9. ASSUME parts.stride = <<>>, lo \in A, hi \in A, a <= b
      PROVE  /\ SubSeq(ValidNames, a, b) # Null
             /\ SubSeq(ValidNames, a, b) \in NameRanges(s)
  <2> DEFINE sub == SubSeq(ValidNames, a, b)
  <2>1. \E p \in Readings(s, A) : TRUE
    <3>1. parts.stride \in Part(A) /\ parts.min \in Part(A) /\ parts.max \in Part(A)
      BY <1>5, <1>6, <1>9 DEF Part
    <3> HIDE DEF A
    <3> QED BY <1>4, <3>1, ParsedReading
  <2>2. a \in 1..Len(ValidNames) /\ ValidNames[a] = lo
    <3> HIDE DEF lo
    <3> QED BY <1>9, NamesTyped, FoundInRange
  <2>3. b \in 1..Len(ValidNames) /\ ValidNames[b] = hi
    <3> HIDE DEF hi
    <3> QED BY <1>9, NamesTyped, FoundInRange
  <2> HIDE DEF a, b, lo, hi, A, parts
  <2>4. sub \in Seq(Tokens) /\ sub # <<>> /\ sub[1] = lo /\ Last(sub) = hi
    BY <1>9, <2>2, <2>3, StretchFound
  <2>5. sub \in SubSeqs(ValidNames)
    <3> DEFINE i == a - 1
    <3>1. i \in 0..Len(ValidNames) /\ b \in 0..Len(ValidNames) /\ i + 1 = a
      BY <2>2, <2>3, NamesTyped
    <3> HIDE DEF i
    <3>2. sub = SubSeq(ValidNames, i + 1, b)
      BY <3>1
    <3> HIDE DEF sub
    <3>3. \E m, n \in 0..Len(ValidNames) : sub = SubSeq(ValidNames, m + 1, n)
      BY <3>1, <3>2
    <3> QED BY <3>3 DEF SubSeqs
  <2> HIDE DEF sub
  <2>6. \A p \in Readings(s, A) : sub \in M(p)
    BY <1>8, <1>9, <2>4, <2>5
  <2> HIDE DEF M
  <2>7. sub \in NameRanges(s)
    BY <1>1, <2>1, <2>6
  <2>8. sub # Null
    BY <2>4, NamesTyped
  <2> QED BY <2>7, <2>8 DEF sub
<1>10. ASSUME NEW r \in NameRanges(s)
       PROVE  parts.stride = <<>> /\ lo \in A /\ hi \in A /\ a <= b
  <2> HIDE DEF M
  <2>1. PICK p \in Readings(s, A) : r \in M(p)
    BY <1>1, <1>10
  <2> HIDE DEF parts, lo, hi, a, b
  <2>2. /\ r \in SubSeqs(ValidNames) /\ r # <<>> /\ r[1] = lo /\ Last(r) = hi
        /\ parts.stride = <<>>
    BY <1>8, <2>1
  <2>3. PICK i \in 0..Len(ValidNames), j \in 0..Len(ValidNames) : r = SubSeq(ValidNames, i + 1, j)
    BY <2>2 DEF SubSeqs
  <2>4. i + 1 <= j
    <3> SUFFICES ASSUME i + 1 > j PROVE FALSE
      BY <2>3, NamesTyped
    <3>1. SubSeq(ValidNames, i + 1, j) = <<>>
      BY <2>3, NamesTyped, SubSeqEmpty
    <3> QED BY <2>2, <2>3, <3>1
  <2> DEFINE k == i + 1
  <2>5. k \in 1..Len(ValidNames) /\ j \in 1..Len(ValidNames) /\ k <= j
    BY <2>3, <2>4, NamesTyped
  <2>6. r = SubSeq(ValidNames, k, j)
    BY <2>3
  <2> HIDE DEF k
  <2>7. /\ Find(ValidNames, ValidNames[k]) = k /\ Find(ValidNames, ValidNames[j]) = j
        /\ r[1] = ValidNames[k] /\ Last(r) = ValidNames[j]
    BY <2>5, <2>6, StretchFound
  <2>8. lo = ValidNames[k] /\ hi = ValidNames[j]
    BY <2>2, <2>7
  <2>9. a = k /\ b = j
    BY <2>7, <2>8 DEF a, b
  <2>10. lo \in A /\ hi \in A
    BY <2>5, <2>8, NamesTyped
  <2> QED BY <2>2, <2>5, <2>9, <2>10
<1> HIDE DEF parts, lo, hi, a, b, A, M
<1>11. ASSUME FilterNames(s) # Null PROVE FilterNames(s) \in NameRanges(s)
  BY <1>2, <1>9, <1>11
<1>12. ASSUME FilterNames(s) = Null PROVE NameRanges(s) = {}
  BY <1>2, <1>9, <1>10, <1>12
<1> QED BY <1>11, <1>12

\* What the sweep of names makes of a list.
LEMMA NamesMean ==
  ASSUME NEW s \in Seq(Tokens)
  PROVE  Names(s) = IF IsNameList(s) THEN Atoms(s) ELSE Null
<1> DEFINE atoms == Atoms(s)
           list == ParseList(s)
           A == Range(ValidNames)
           C == IsListOf(s, atoms) /\ Range(atoms) \subseteq A
           f == [n \in DOMAIN list |-> ValidOrNull(NameOr(list[n], Null), ValidNames)]
<1>1. Names(s) = AllOrNull(f)
  BY DEF Names
<1>2. IsNameList(s) <=> C
  BY DEF IsNameList
<1>3. Null \notin A /\ Comma \notin A
  BY NamesTyped
<1>4. \A n \in DOMAIN list : f[n] = IF NameOr(list[n], Null) \in A
                                    THEN NameOr(list[n], Null) ELSE Null
  BY DEF ValidOrNull
<1>5. DOMAIN f = DOMAIN list
  OBVIOUS
<1>6. \A t : NameOr(t, Null) \in A => Len(t) = 1 /\ t[1] \in A
  BY <1>3 DEF NameOr
<1>7. \A n \in DOMAIN atoms : atoms[n] \in Range(atoms)
  BY DEF Range
<1>8. IsListOf(s, atoms) => atoms = Atoms(s) /\ IsListOf(s, atoms)
  OBVIOUS
<1>9. atoms = [n \in 1..((Len(s) + 1) \div 2) |-> s[2 * n - 1]]
  BY DEF Atoms
<1>10. f = [n \in DOMAIN f |-> f[n]] /\ atoms = [n \in DOMAIN atoms |-> atoms[n]]
  BY <1>9
<1> HIDE DEF atoms, f, A
<1>11. CASE C
  <2>1. \A n \in DOMAIN atoms : atoms[n] \in A /\ atoms[n] # Comma
    BY <1>3, <1>7, <1>11
  <2>2. DOMAIN list = DOMAIN atoms /\ \A n \in DOMAIN atoms : list[n] = <<atoms[n]>>
    BY <1>8, <1>11, <2>1, PiecesOfList
  <2>3. \A n \in DOMAIN atoms : NameOr(<<atoms[n]>>, Null) = atoms[n]
    BY DEF NameOr
  <2>4. \A n \in DOMAIN atoms : f[n] = atoms[n] /\ f[n] # Null
    BY <1>3, <1>4, <2>1, <2>2, <2>3
  <2>5. DOMAIN f = DOMAIN atoms
    BY <1>5, <2>2
  <2>6. f = atoms
    BY <1>10, <2>4, <2>5
  <2>7. Null \notin Range(f)
    BY <2>4, <2>5 DEF Range
  <2> HIDE DEF C
  <2> QED BY <1>1, <1>2, <1>11, <2>6, <2>7 DEF AllOrNull, atoms
<1>12. CASE ~C
  <2>1. Null \in Range(f)
    <3> SUFFICES ASSUME Null \notin Range(f) PROVE FALSE
      OBVIOUS
    <3>1. \A n \in DOMAIN list : f[n] # Null
      BY <1>5 DEF Range
    <3>2. \A n \in DOMAIN list : Len(list[n]) = 1 /\ list[n][1] \in A
      BY <1>4, <1>6, <3>1
    <3>3. /\ IsListOf(s, atoms) /\ DOMAIN list = DOMAIN atoms
          /\ \A n \in DOMAIN atoms : list[n] = <<atoms[n]>>
      BY <3>2, ListOfPieces DEF atoms
    <3>4. \A n \in DOMAIN atoms : atoms[n] \in A
      BY <3>2, <3>3
    <3>5. Range(atoms) \subseteq A
      BY <3>4 DEF Range
    <3> QED BY <1>12, <3>3, <3>5
  <2> HIDE DEF C
  <2> QED BY <1>1, <1>2, <1>12, <2>1 DEF AllOrNull
<1> QED BY <1>11, <1>12

-----------------------------------------------------------------------------
\* make_filtered_sweep runs just the values or names of its array that the
\* option means, for any option and any array.
THEOREM ArraysAsAsked == SweepSpec => []FilteredAsAsked
<1>1. ASSUME SweepInv, stage = "returned", kind = "filtered"
      PROVE  \/ opt \in Defaults /\ result = Ascending(Range(ValidValues))
             \/ /\ opt \notin Defaults
                /\ result = NumberMeaning(opt, Range(ValidValues), DefaultMin, DefaultMax)
  <2> DEFINE S == RangeMeaning(opt, Range(ValidValues), DefaultMin, DefaultMax)
  <2>1. opt \in Seq(Tokens)
    BY <1>1, SweepAssumption DEF SweepInv
  <2>2. result = FilteredSweep(opt)
    BY <1>1 DEF SweepInv, ResultInv
  <2>3. IsAuto(opt) <=> opt \in Defaults
    BY DEF IsAuto, Defaults
  <2>4. CASE IsAuto(opt)
    BY <2>2, <2>3, <2>4, ArrayIsAscending DEF FilteredSweep
  <2>5. CASE ~IsAuto(opt)
    <3>1. /\ S = {} => FilterValues(opt) = Null
          /\ S # {} => /\ FilterValues(opt) = Ascending(S)
                       /\ FilterValues(opt) # Null /\ FilterValues(opt) # <<>>
      BY <2>1, <2>5, FilterMeans
    <3>2. NumberMeaning(opt, Range(ValidValues), DefaultMin, DefaultMax) =
            IF S # {} THEN Ascending(S) ELSE ListMeaning(opt, Range(ValidValues))
      BY DEF NumberMeaning
    <3> HIDE DEF S
    <3>3. result = IF FilterValues(opt) # Null /\ FilterValues(opt) # <<>>
                   THEN FilterValues(opt) ELSE Values(opt)
      BY <2>2, <2>5 DEF FilteredSweep
    <3> QED BY <2>1, <2>3, <2>5, <3>1, <3>2, <3>3, ValuesMean
  <2> QED BY <2>4, <2>5
<1>2. ASSUME SweepInv, stage = "returned", kind = "names"
      PROVE  \/ opt \in Defaults /\ result = ValidNames
             \/ /\ opt \notin Defaults /\ NameRanges(opt) # {}
                /\ result \in NameRanges(opt)
             \/ /\ opt \notin Defaults /\ NameRanges(opt) = {}
                /\ result = IF IsNameList(opt) THEN Atoms(opt) ELSE Null
  <2>1. opt \in Seq(Tokens)
    BY <1>2, SweepAssumption DEF SweepInv
  <2>2. result = NameSweep(opt)
    BY <1>2 DEF SweepInv, ResultInv
  <2>3. IsAuto(opt) <=> opt \in Defaults
    BY DEF IsAuto, Defaults
  <2>4. /\ FilterNames(opt) # Null => FilterNames(opt) \in NameRanges(opt)
        /\ FilterNames(opt) = Null => NameRanges(opt) = {}
    BY <2>1, NamesFiltered
  <2>5. Names(opt) = IF IsNameList(opt) THEN Atoms(opt) ELSE Null
    BY <2>1, NamesMean
  <2>6. result = IF IsAuto(opt) THEN ValidNames
                 ELSE IF FilterNames(opt) # Null THEN FilterNames(opt) ELSE Names(opt)
    BY <2>2 DEF NameSweep
  <2> QED BY <2>3, <2>4, <2>5, <2>6
<1>3. SweepInv => FilteredAsAsked
  <2> SUFFICES ASSUME SweepInv PROVE FilteredAsAsked
    OBVIOUS
  <2>1. "filtered" # "names"
    OBVIOUS
  <2> QED BY <1>1, <1>2, <2>1 DEF FilteredAsAsked
<1> QED BY <1>3, SweepInvariance, PTL

=============================================================================
