---------------------------- MODULE HarnessProofs ----------------------------
(***************************************************************************)
(* Harness, for all variables, options and scores: the scores are in their *)
(* places, a failing run() leaves the last sweep complete, the statistics  *)
(* of a row make sense, and the calls are those of SweepPlan.              *)
(*                                                                         *)
(* The sums of the estimate and of a row are folds over finite sets.  What *)
(* is needed of them, and of the greatest and the least element of such a  *)
(* set, is proved by taking the least counterexample.                      *)
(***************************************************************************)
EXTENDS Harness, FiniteSetTheorems, WellFoundedInduction, TLAPS

\* Induction, in a form without an operator parameter: a set of numbers that
\* is not empty has a least element, so the least counterexample can be taken.
LEMMA LeastNat ==
  ASSUME NEW T, T \subseteq Nat, T # {}
  PROVE  \E n \in T : \A m \in Nat : m < n => m \notin T
  <1>1. PICK n \in T : \A m \in T : ~(<<m, n>> \in OpToRel(<, Nat))
    BY NatLessThanWellFounded, WFMin
  <1>2. \A m \in T : ~(m < n)
    BY <1>1 DEF OpToRel
  <1> QED BY <1>2

\* A sum over a finite set is what its recursion says: the element the
\* fold takes first, and the sum over the others.
Picked(s) == CHOOSE x \in s : TRUE
Rest(s) == s \ {Picked(s)}
SumOver(f, g, s) == IF s = {} THEN 0 ELSE f[Picked(s)] + g[Rest(s)]

LEMMA RestParts ==
  ASSUME NEW s, IsFiniteSet(s), s # {}
  PROVE  /\ Picked(s) \in s /\ Rest(s) \subseteq s /\ IsFiniteSet(Rest(s))
         /\ Cardinality(s) \in Nat \ {0} /\ Cardinality(Rest(s)) = Cardinality(s) - 1
  <1>1. Picked(s) \in s
    BY DEF Picked
  <1>2. Cardinality(s) \in Nat /\ Cardinality(s) # 0
    BY FS_CardinalityType, FS_EmptySet
  <1> QED BY <1>1, <1>2, FS_RemoveElement DEF Rest

LEMMA SumExists ==
  ASSUME NEW f, NEW S, IsFiniteSet(S)
  PROVE  \E g : g = [s \in SUBSET S |-> SumOver(f, g, s)]
  <1> DEFINE Upto(n, g) == \A s \in SUBSET S : Cardinality(s) <= n => g[s] = SumOver(f, g, s)
             T == {n \in Nat : ~\E g : Upto(n, g)}
  <1>1. \A s \in SUBSET S : /\ IsFiniteSet(s) /\ Cardinality(s) \in Nat
                            /\ Cardinality(s) <= Cardinality(S) /\ Cardinality(S) \in Nat
                            /\ (Cardinality(s) = 0 <=> s = {})
    BY FS_Subset, FS_CardinalityType, FS_EmptySet
  <1>2. T = {}
    <2> SUFFICES ASSUME T # {} PROVE FALSE
      OBVIOUS
    <2>1. PICK n \in T : \A m \in Nat : m < n => m \notin T
      <3> HIDE DEF T
      <3>1. T \subseteq Nat
        BY DEF T
      <3> QED BY <3>1, LeastNat
    <2>2. n \in Nat /\ ~\E g : Upto(n, g)
      OBVIOUS
    <2>3. n # 0
      <3> SUFFICES ASSUME n = 0 PROVE FALSE
        OBVIOUS
      <3> DEFINE g == [s \in SUBSET S |-> 0]
      <3>1. Upto(0, g)
        BY <1>1 DEF SumOver
      <3> QED BY <2>2, <3>1
    <2>4. PICK g : Upto(n - 1, g)
      BY <2>1, <2>2, <2>3
    <2> DEFINE h == [s \in SUBSET S |-> SumOver(f, g, s)]
    <2>5. ASSUME NEW s \in SUBSET S, Cardinality(s) <= n
          PROVE  h[s] = SumOver(f, h, s)
      <3>1. CASE s = {}
        BY <3>1 DEF SumOver
      <3>2. CASE s # {}
        <4>1. /\ Rest(s) \in SUBSET S /\ Cardinality(Rest(s)) <= n - 1
          BY <1>1, <2>2, <2>5, <3>2, RestParts
        <4>2. g[Rest(s)] = SumOver(f, g, Rest(s))
          BY <2>4, <4>1
        <4>3. h[Rest(s)] = g[Rest(s)]
          BY <4>1, <4>2
        <4>4. h[s] = f[Picked(s)] + g[Rest(s)]
          BY <3>2 DEF SumOver
        <4> QED BY <3>2, <4>3, <4>4 DEF SumOver
      <3> QED BY <3>1, <3>2
    <2> QED BY <2>2, <2>5
  <1>3. PICK g : Upto(Cardinality(S), g)
    <2>1. Cardinality(S) \in Nat
      BY FS_CardinalityType
    <2> QED BY <1>2, <2>1
  <1> DEFINE h == [s \in SUBSET S |-> g[s]]
  <1>4. \A s \in SUBSET S : h[s] = SumOver(f, h, s)
    <2> SUFFICES ASSUME NEW s \in SUBSET S PROVE h[s] = SumOver(f, h, s)
      OBVIOUS
    <2>1. g[s] = SumOver(f, g, s)
      BY <1>1, <1>3
    <2>2. s # {} => Rest(s) \in SUBSET S
      BY <1>1, RestParts
    <2> QED BY <2>1, <2>2 DEF SumOver
  <1>5. h = [s \in SUBSET S |-> SumOver(f, h, s)]
    <2> SUFFICES \A s \in SUBSET S : h[s] = SumOver(f, h, s)
      OBVIOUS
    <2> QED BY <1>4
  <1> QED BY <1>5

LEMMA SumRecursion ==
  ASSUME NEW f, NEW S, IsFiniteSet(S)
  PROVE  \E g : /\ SumFunctionOnSet(f, S) = g[S]
                /\ \A s \in SUBSET S : g[s] = SumOver(f, g, s)
  <1> DEFINE G == CHOOSE g : g = [s \in SUBSET S |-> SumOver(f, g, s)]
  <1>1. SumFunctionOnSet(f, S) = G[S]
    BY DEF SumFunctionOnSet, FoldFunctionOnSet, MapThenFoldSet, SumOver, Rest, Picked
  <1>2. G = [s \in SUBSET S |-> SumOver(f, G, s)]
    BY SumExists
  <1> HIDE DEF G
  <1>3. \A s \in SUBSET S : G[s] = SumOver(f, G, s)
    BY <1>2
  <1> QED BY <1>1, <1>3

\* A sum of numbers lies between the number of them times the least and the
\* number of them times the greatest.
LEMMA SumBounds ==
  ASSUME NEW f, NEW S, IsFiniteSet(S), NEW lo \in Int, NEW hi \in Int,
         \A x \in S : f[x] \in Int /\ lo <= f[x] /\ f[x] <= hi
  PROVE  /\ SumFunctionOnSet(f, S) \in Int
         /\ lo * Cardinality(S) <= SumFunctionOnSet(f, S)
         /\ SumFunctionOnSet(f, S) <= hi * Cardinality(S)
  <1>0. \E g : /\ SumFunctionOnSet(f, S) = g[S]
               /\ \A s \in SUBSET S : g[s] = SumOver(f, g, s)
    BY ONLY IsFiniteSet(S), SumRecursion
  <1>1. PICK g : /\ SumFunctionOnSet(f, S) = g[S]
                 /\ \A s \in SUBSET S : g[s] = SumOver(f, g, s)
    BY <1>0
  <1> DEFINE Holds(s) == /\ g[s] \in Int /\ lo * Cardinality(s) <= g[s]
                         /\ g[s] <= hi * Cardinality(s)
             T == {n \in Nat : \E s \in SUBSET S : Cardinality(s) = n /\ ~Holds(s)}
  <1>2. \A s \in SUBSET S : IsFiniteSet(s) /\ Cardinality(s) \in Nat
    BY FS_Subset, FS_CardinalityType
  <1>3. T = {}
    <2> SUFFICES ASSUME T # {} PROVE FALSE
      OBVIOUS
    <2>1. PICK n \in T : \A m \in Nat : m < n => m \notin T
      <3> HIDE DEF T
      <3>1. T \subseteq Nat
        BY DEF T
      <3> QED BY <3>1, LeastNat
    <2>2. PICK s \in SUBSET S : Cardinality(s) = n /\ ~Holds(s)
      OBVIOUS
    <2>3. CASE s = {}
      <3>1. Cardinality(s) = 0 /\ g[s] = 0
        BY <1>1, <2>3, FS_EmptySet DEF SumOver
      <3> QED BY <2>2, <3>1
    <2>4. CASE s # {}
      <3>1. /\ Picked(s) \in S /\ Rest(s) \in SUBSET S
            /\ Cardinality(Rest(s)) = n - 1 /\ n - 1 \in Nat /\ n \in Nat
        BY <1>2, <2>2, <2>4, RestParts
      <3>2. Holds(Rest(s))
        BY <2>1, <3>1
      <3>3. g[s] = f[Picked(s)] + g[Rest(s)]
        BY <1>1, <2>4 DEF SumOver
      <3>4. /\ f[Picked(s)] \in Int /\ lo <= f[Picked(s)] /\ f[Picked(s)] <= hi
        BY <3>1
      <3>5. /\ lo * n = lo * (n - 1) + lo /\ hi * n = hi * (n - 1) + hi
        BY <3>1
      <3>6. lo * (n - 1) \in Int /\ hi * (n - 1) \in Int
        BY <3>1
      <3>7. /\ g[Rest(s)] \in Int /\ lo * (n - 1) <= g[Rest(s)] /\ g[Rest(s)] <= hi * (n - 1)
        BY <3>1, <3>2
      <3>8. g[s] \in Int /\ lo * n <= g[s] /\ g[s] <= hi * n
        BY <3>3, <3>4, <3>5, <3>6, <3>7
      <3> QED BY <2>2, <3>8
    <2> QED BY <2>3, <2>4
  <1>4. Cardinality(S) \in Nat /\ S \in SUBSET S
    BY <1>2
  <1>5. Holds(S)
    BY <1>3, <1>4
  <1> QED BY <1>1, <1>5

\* A finite set of numbers that is not empty has a greatest and a least one.
LEMMA Extremes ==
  ASSUME NEW S, IsFiniteSet(S), S \subseteq Int, S # {}
  PROVE  /\ Max(S) \in S /\ \A x \in S : x <= Max(S)
         /\ Min(S) \in S /\ \A x \in S : Min(S) <= x
  <1> DEFINE Has(s) == /\ \E x \in s : \A y \in s : y <= x
                       /\ \E x \in s : \A y \in s : x <= y
             T == {n \in Nat : \E s \in SUBSET S : s # {} /\ Cardinality(s) = n /\ ~Has(s)}
  <1>2. \A s \in SUBSET S : IsFiniteSet(s) /\ Cardinality(s) \in Nat
    BY FS_Subset, FS_CardinalityType
  <1>3. T = {}
    <2> SUFFICES ASSUME T # {} PROVE FALSE
      OBVIOUS
    <2>1. PICK n \in T : \A m \in Nat : m < n => m \notin T
      <3> HIDE DEF T
      <3>1. T \subseteq Nat
        BY DEF T
      <3> QED BY <3>1, LeastNat
    <2>2. PICK s \in SUBSET S : s # {} /\ Cardinality(s) = n /\ ~Has(s)
      OBVIOUS
    <2>3. /\ Picked(s) \in s /\ Rest(s) \in SUBSET S /\ Rest(s) \subseteq s
          /\ Cardinality(Rest(s)) = n - 1 /\ n - 1 \in Nat /\ n \in Nat
          /\ \A y \in s : y = Picked(s) \/ y \in Rest(s)
      <3> HIDE DEF Has, T
      <3>1. s # {} /\ Cardinality(s) = n /\ IsFiniteSet(s)
        BY <1>2, <2>2
      <3>2. /\ Picked(s) \in s /\ Rest(s) \subseteq s
            /\ Cardinality(s) \in Nat \ {0} /\ Cardinality(Rest(s)) = Cardinality(s) - 1
        BY <3>1, RestParts
      <3>3. \A y \in s : y = Picked(s) \/ y \in Rest(s)
        BY DEF Rest
      <3>4. Rest(s) \in SUBSET S
        BY <3>2
      <3>5. n \in Nat \ {0} /\ Cardinality(Rest(s)) = n - 1
        BY <3>1, <3>2
      <3> QED BY <3>2, <3>3, <3>4, <3>5
    <2>4. CASE Rest(s) = {}
      <3>1. Picked(s) \in Int /\ \A y \in s : y = Picked(s)
        BY <2>3, <2>4
      <3>2. \A y \in s : y <= Picked(s) /\ Picked(s) <= y
        BY <3>1
      <3> QED BY <2>2, <2>3, <3>2
    <2>5. CASE Rest(s) # {}
      <3>1. Has(Rest(s))
        <4> HIDE DEF Has
        <4> QED BY <2>1, <2>3, <2>5
      <3>2. PICK x \in Rest(s) : \A y \in Rest(s) : y <= x
        BY <3>1
      <3>3. PICK z \in Rest(s) : \A y \in Rest(s) : z <= y
        BY <3>1
      <3>4. s \subseteq Int /\ Picked(s) \in Int /\ x \in Int /\ z \in Int /\ x \in s /\ z \in s
        BY <2>3
      <3>5. \E v \in s : \A y \in s : y <= v
        <4>1. CASE x <= Picked(s)
          <5>1. \A y \in s : y <= Picked(s)
            BY <2>3, <3>2, <3>4, <4>1
          <5> QED BY <2>3, <5>1
        <4>2. CASE Picked(s) < x
          <5>1. \A y \in s : y <= x
            BY <2>3, <3>2, <3>4, <4>2
          <5> QED BY <3>4, <5>1
        <4> QED BY <3>4, <4>1, <4>2
      <3>6. \E v \in s : \A y \in s : v <= y
        <4>1. CASE Picked(s) <= z
          <5>1. \A y \in s : Picked(s) <= y
            BY <2>3, <3>3, <3>4, <4>1
          <5> QED BY <2>3, <5>1
        <4>2. CASE z < Picked(s)
          <5>1. \A y \in s : z <= y
            BY <2>3, <3>3, <3>4, <4>2
          <5> QED BY <3>4, <5>1
        <4> QED BY <3>4, <4>1, <4>2
      <3> QED BY <2>2, <3>5, <3>6
    <2> QED BY <2>4, <2>5
  <1>4. Has(S)
    BY <1>2, <1>3
  <1>5. \E x \in S : \A y \in S : x >= y
    BY <1>4
  <1>6. Max(S) \in S /\ \A y \in S : Max(S) >= y
    BY <1>5 DEF Max
  <1>7. Min(S) \in S /\ \A y \in S : Min(S) <= y
    BY <1>4 DEF Min
  <1> QED BY <1>6, <1>7
-----------------------------------------------------------------------------
(* Types.                                                                  *)

LEMMA WrapNat == ASSUME NEW n \in Nat PROVE Wrap(n) \in Nat /\ Wrap(n) < Modulus
  BY HarnessAssumption DEF Wrap

LEMMA WrapSmall == ASSUME NEW n \in Nat, n < Modulus PROVE Wrap(n) = n
  BY HarnessAssumption DEF Wrap

LEMMA SeqElement == ASSUME NEW S, NEW s \in Seq(S), NEW x \in DOMAIN s PROVE s[x] \in S
  OBVIOUS

LEMMA AppendParts ==
  ASSUME NEW S, NEW s \in Seq(S), NEW e
  PROVE  /\ DOMAIN Append(s, e) = 1..(Len(s) + 1) /\ DOMAIN s = 1..Len(s)
         /\ Len(Append(s, e)) = Len(s) + 1 /\ Len(s) \in Nat
         /\ \A x \in DOMAIN s : Append(s, e)[x] = s[x]
         /\ Append(s, e)[Len(s) + 1] = e
  OBVIOUS

LEMMA OptionTypes ==
  OptionsSet => /\ wait_time_ms \in Nat /\ num_sub_runs \in Nat
                /\ var \in VarNames /\ opt_str \in OptStrings
  BY HarnessAssumption DEF OptionsSet

\* A variable that is found generates runs or nothing.
LEMMA GeneratedType ==
  ASSUME OptionsSet, Matching # {}, Generated # Null
  PROVE  Generated \in Seq(RunType)
  <1>1. Matching \subseteq Nat /\ Matching \subseteq DOMAIN HarnessVariables
    BY HarnessAssumption DEF Matching
  <1>2. PICK v \in Matching : \A w \in Nat : w < v => w \notin Matching
    BY <1>1, LeastNat
  <1>3. \A w \in Matching : v <= w
    BY <1>1, <1>2
  <1> DEFINE u == CHOOSE x \in Matching : \A w \in Matching : x <= w
  <1>4. u \in Matching
    BY <1>3
  <1>5. Chosen = HarnessVariables[u]
    BY DEF Chosen
  <1> HIDE DEF u
  <1>6. Chosen \in [name : VarNames, gen : [OptStrings -> Seq(RunType) \cup {Null}]]
    BY <1>1, <1>4, <1>5, SeqElement, HarnessAssumption
  <1>7. Chosen.gen[opt_str] \in Seq(RunType) \cup {Null}
    BY <1>6 DEF OptionsSet
  <1> QED BY <1>7 DEF Generated

LEMMA EstimatedNat ==
  ASSUME OptionsSet, NEW rs \in Seq(RunType)
  PROVE  Estimated(rs) \in Nat
  <1>1. wait_time_ms \in Nat /\ num_sub_runs \in Nat /\ Len(rs) \in Nat
    BY OptionTypes
  <1> DEFINE times == [v \in DOMAIN rs |-> Wrap(rs[v].est_runtime_s * num_sub_runs)]
  <1>2. \A v \in DOMAIN rs : times[v] \in Int /\ 0 <= times[v] /\ times[v] <= Modulus
    <2> SUFFICES ASSUME NEW v \in DOMAIN rs
                 PROVE  times[v] \in Int /\ 0 <= times[v] /\ times[v] <= Modulus
      OBVIOUS
    <2>1. rs[v].est_runtime_s \in Nat
      <3>1. rs[v] \in RunType
        BY SeqElement
      <3> QED BY <3>1 DEF RunType
    <2>2. rs[v].est_runtime_s * num_sub_runs \in Nat
      BY <1>1, <2>1
    <2>3. times[v] \in Nat /\ times[v] < Modulus
      BY <2>2, WrapNat
    <2> QED BY <2>3, HarnessAssumption
  <1>3. IsFiniteSet(DOMAIN rs) /\ Cardinality(DOMAIN rs) \in Nat
    <2>1. DOMAIN rs = 1..Len(rs)
      OBVIOUS
    <2> QED BY <1>1, <2>1, FS_Interval, FS_CardinalityType
  <1> HIDE DEF times
  <1>4. /\ SumFunctionOnSet(times, DOMAIN rs) \in Int
        /\ 0 * Cardinality(DOMAIN rs) <= SumFunctionOnSet(times, DOMAIN rs)
    <2>1. 0 \in Int /\ Modulus \in Int
      BY HarnessAssumption
    <2> QED BY ONLY <1>2, <1>3, <2>1, SumBounds
  <1>5. SumFunctionOnSet(times, DOMAIN rs) \in Nat
    BY <1>3, <1>4
  <1>6. Len(rs) * wait_time_ms \in Nat
    BY <1>1
  <1>7. (Len(rs) * wait_time_ms) \div 1000 \in Nat
    BY <1>6
  <1> QED BY <1>5, <1>7 DEF Estimated, times

LEMMA HmsType == ASSUME NEW n \in Nat PROVE FormatHms(n) \in Seq(Nat)
  <1>1. n \div 3600 \in Nat /\ n % 60 \in Nat /\ (n % 3600) \div 60 \in Nat
    OBVIOUS
  <1> QED BY <1>1 DEF FormatHms

\* The parts of a row: the results found are finitely many numbers, the
\* greatest is at least 0 and the least at most Huge.
LEMMA RowParts ==
  ASSUME NEW results \in Results
  PROVE  LET F == Found(results)
             S == ScoreSet(results)
         IN  /\ IsFiniteSet(F) /\ Cardinality(F) \in Nat
             /\ F \subseteq DOMAIN results /\ S \subseteq Scores
             /\ Max({0} \cup S) \in {0} \cup S /\ Max({0} \cup S) \in Nat
             /\ Least(results) \in {Huge} \cup S /\ Least(results) \in Int
             /\ \A v \in F : /\ results[v] \in Int
                             /\ Least(results) <= results[v]
                             /\ results[v] <= Max({0} \cup S)
  <1> DEFINE F == Found(results)
             S == ScoreSet(results)
  <1>1. F \subseteq DOMAIN results /\ DOMAIN results = 1..Len(results) /\ Len(results) \in Nat
    BY DEF Found, Results
  <1>2. IsFiniteSet(F) /\ Cardinality(F) \in Nat
    <2>1. IsFiniteSet(1..Len(results))
      BY <1>1, FS_Interval
    <2>2. F \in SUBSET (1..Len(results))
      BY <1>1
    <2> HIDE DEF F
    <2> QED BY <2>1, <2>2, FS_Subset, FS_CardinalityType
  <1>3. \A v \in F : results[v] \in Scores
    BY <1>1, SeqElement DEF Found, Results
  <1>4. S \subseteq Scores /\ \A v \in F : results[v] \in S
    BY <1>3 DEF ScoreSet
  <1>5. IsFiniteSet(S)
    <2> DEFINE score == [v \in F |-> results[v]]
    <2>1. score \in Surjection(F, S)
      BY DEF Surjection, ScoreSet
    <2> HIDE DEF score, F, S
    <2> QED BY <1>2, <2>1, FS_Surjection
  <1>6. Scores \subseteq Int /\ Huge \in Nat
    BY HarnessAssumption
  <1> HIDE DEF F, S
  <1>7. IsFiniteSet({0} \cup S) /\ IsFiniteSet({Huge} \cup S)
    <2>1. IsFiniteSet(S \cup {0}) /\ IsFiniteSet(S \cup {Huge})
      BY <1>5, FS_AddElement
    <2>2. S \cup {0} = {0} \cup S /\ S \cup {Huge} = {Huge} \cup S
      OBVIOUS
    <2> QED BY <2>1, <2>2
  <1>8. Max({0} \cup S) \in {0} \cup S /\ \A x \in {0} \cup S : x <= Max({0} \cup S)
    <2>1. {0} \cup S \subseteq Int /\ {0} \cup S # {}
      BY <1>4, <1>6
    <2> QED BY ONLY <1>7, <2>1, Extremes
  <1>9. Min({Huge} \cup S) \in {Huge} \cup S /\ \A x \in {Huge} \cup S : Min({Huge} \cup S) <= x
    <2>1. {Huge} \cup S \subseteq Int /\ {Huge} \cup S # {}
      BY <1>4, <1>6
    <2> QED BY ONLY <1>7, <2>1, Extremes
  <1>10. Least(results) = Min({Huge} \cup S)
    BY DEF Least, S
  <1>11. Max({0} \cup S) \in Nat /\ Min({Huge} \cup S) \in Int
    <2>1. \A x \in {0} \cup S : x \in Int
      BY <1>4, <1>6
    <2>2. \A x \in {Huge} \cup S : x \in Int
      BY <1>4, <1>6
    <2>3. Max({0} \cup S) \in Int /\ 0 <= Max({0} \cup S)
      BY <1>8, <2>1
    <2>4. Min({Huge} \cup S) \in Int
      BY <1>9, <2>2
    <2> QED BY <2>3, <2>4
  <1>12. \A v \in F : /\ results[v] \in Int
                      /\ Least(results) <= results[v]
                      /\ results[v] <= Max({0} \cup S)
    BY <1>3, <1>4, <1>6, <1>8, <1>9, <1>10
  <1> QED BY <1>1, <1>2, <1>4, <1>8, <1>9, <1>10, <1>11, <1>12 DEF F, S

LEMMA RowTyped ==
  ASSUME OptionsSet, NEW r \in RunRecord, Len(r.results) = num_sub_runs
  PROVE  Row(r) \in RowType
  <1> DEFINE F == Found(r.results)
             S == ScoreSet(r.results)
             total == SumFunctionOnSet(r.results, F)
  <1>1. r.results \in Results /\ r.name \in STRING /\ num_sub_runs \in Nat
    BY OptionTypes DEF RunRecord
  <1>2. /\ IsFiniteSet(F) /\ Cardinality(F) \in Nat
        /\ Max({0} \cup S) \in Nat /\ Least(r.results) \in Int
        /\ \A v \in F : /\ r.results[v] \in Int
                        /\ Least(r.results) <= r.results[v]
                        /\ r.results[v] <= Max({0} \cup S)
    BY <1>1, RowParts
  <1>3. total \in Int
    <2>1. Max({0} \cup S) \in Int
      BY <1>2
    <2> HIDE DEF F, S
    <2> QED BY ONLY <1>2, <2>1, SumBounds
  <1>4. [v \in 1..num_sub_runs |-> r.results[v]] \in Results
    <2>1. DOMAIN r.results = 1..num_sub_runs
      BY <1>1 DEF Results
    <2>2. \A v \in 1..num_sub_runs : r.results[v] \in Scores \cup {Null}
      BY <1>1, <2>1, SeqElement DEF Results
    <2> QED BY <1>1, <2>2 DEF Results
  <1> HIDE DEF total
  <1>5. Row(r) = [name |-> r.name,
                  scores |-> [v \in 1..num_sub_runs |-> r.results[v]],
                  mean |-> IF total >= Tiny THEN <<total, Cardinality(F)>> ELSE Null,
                  ratio |-> IF Max({0} \cup S) >= Tiny
                              THEN <<Max({0} \cup S), Least(r.results)>> ELSE Null]
    BY DEF Row, total
  <1> HIDE DEF F, S
  <1>6. /\ (IF total >= Tiny THEN <<total, Cardinality(F)>> ELSE Null) \in (Int \X Nat) \cup {Null}
        /\ (IF Max({0} \cup S) >= Tiny THEN <<Max({0} \cup S), Least(r.results)>> ELSE Null)
             \in (Int \X Int) \cup {Null}
    BY <1>2, <1>3
  <1> QED BY <1>1, <1>4, <1>5, <1>6 DEF RowType

LEMMA Runs0 ==
  ASSUME NEW rs \in Seq(RunType)
  PROVE  LET made == [v \in DOMAIN rs |->
                        [name |-> rs[v].name, est_runtime_s |-> rs[v].est_runtime_s,
                         results |-> <<>>]]
         IN  /\ made \in Seq(RunRecord) /\ Len(made) = Len(rs)
             /\ \A r \in DOMAIN made : Len(made[r].results) = 0 /\ made[r].results = <<>>
  <1> DEFINE made == [v \in DOMAIN rs |->
                        [name |-> rs[v].name, est_runtime_s |-> rs[v].est_runtime_s,
                         results |-> <<>>]]
  <1>1. DOMAIN rs = 1..Len(rs) /\ Len(rs) \in Nat
    OBVIOUS
  <1>2. \A v \in DOMAIN rs : made[v] \in RunRecord /\ made[v].results = <<>>
    <2> SUFFICES ASSUME NEW v \in DOMAIN rs
                 PROVE  made[v] \in RunRecord /\ made[v].results = <<>>
      OBVIOUS
    <2>1. rs[v] \in RunType
      BY SeqElement
    <2> QED BY <2>1 DEF RunType, RunRecord, Results
  <1>3. made \in Seq(RunRecord) /\ Len(made) = Len(rs)
    BY <1>1, <1>2
  <1> QED BY <1>1, <1>2, <1>3

\* results.resize(n): the type and the length, and what was there stays.
LEMMA ResizedParts ==
  ASSUME NEW results \in Results, NEW n \in Nat
  PROVE  /\ Resized(results, n) \in Results /\ Len(Resized(results, n)) = n
         /\ DOMAIN Resized(results, n) = 1..n
         /\ \A v \in 1..n : v \in DOMAIN results => Resized(results, n)[v] = results[v]
  <1>1. \A v \in 1..n : Resized(results, n)[v] \in Scores \cup {Null}
    <2> SUFFICES ASSUME NEW v \in 1..n PROVE Resized(results, n)[v] \in Scores \cup {Null}
      OBVIOUS
    <2>1. CASE v <= Len(results)
      <3>1. v \in DOMAIN results
        BY <2>1 DEF Results
      <3>2. results[v] \in Scores \cup {Null}
        BY <3>1, SeqElement DEF Results
      <3> QED BY <2>1, <3>2 DEF Resized
    <2>2. CASE ~(v <= Len(results))
      BY <2>2 DEF Resized
    <2> QED BY <2>1, <2>2
  <1>2. DOMAIN Resized(results, n) = 1..n
    BY DEF Resized
  <1>3. Resized(results, n) = [v \in 1..n |-> Resized(results, n)[v]]
    BY DEF Resized
  <1>4. Resized(results, n) \in Seq(Scores \cup {Null}) /\ Len(Resized(results, n)) = n
    BY <1>1, <1>2, <1>3
  <1> QED BY <1>2, <1>4 DEF Resized, Results

LEMMA SeqReplaced ==
  ASSUME NEW S, NEW s \in Seq(S), NEW x \in DOMAIN s, NEW e \in S
  PROVE  LET q == [s EXCEPT ![x] = e]
         IN  /\ q \in Seq(S) /\ Len(q) = Len(s) /\ DOMAIN q = DOMAIN s
             /\ q[x] = e /\ \A y \in DOMAIN s : y # x => q[y] = s[y]
  OBVIOUS

\* What a step does to the run at the cursor, and to the others.
LEMMA RunReplaced ==
  ASSUME runs \in Seq(RunRecord), run \in DOMAIN runs, NEW results \in Results,
         NEW rs, rs = [runs EXCEPT ![run].results = results]
  PROVE  /\ rs \in Seq(RunRecord) /\ Len(rs) = Len(runs) /\ DOMAIN rs = DOMAIN runs
         /\ rs[run].results = results
         /\ \A r \in DOMAIN runs : /\ r # run => rs[r] = runs[r]
                                   /\ rs[r].est_runtime_s = runs[r].est_runtime_s
  <1>1. runs[run] \in RunRecord
    BY SeqElement
  <1>2. rs = [runs EXCEPT ![run] = [runs[run] EXCEPT !.results = results]]
    OBVIOUS
  <1> DEFINE e == [runs[run] EXCEPT !.results = results]
  <1>3. e \in RunRecord /\ e.results = results /\ e.est_runtime_s = runs[run].est_runtime_s
    BY <1>1 DEF RunRecord
  <1> HIDE DEF e
  <1>4. /\ rs \in Seq(RunRecord) /\ Len(rs) = Len(runs) /\ DOMAIN rs = DOMAIN runs
        /\ rs[run] = e /\ \A r \in DOMAIN runs : r # run => rs[r] = runs[r]
    <2>1. rs = [runs EXCEPT ![run] = e]
      BY <1>2 DEF e
    <2>2. LET q == [runs EXCEPT ![run] = e]
          IN  /\ q \in Seq(RunRecord) /\ Len(q) = Len(runs) /\ DOMAIN q = DOMAIN runs
              /\ q[run] = e /\ \A y \in DOMAIN runs : y # run => q[y] = runs[y]
      BY <1>3, SeqReplaced
    <2> QED BY ONLY <2>1, <2>2
  <1> QED BY <1>3, <1>4

\* What Bench does to the runs.
LEMMA BenchParts ==
  ASSUME TypeOK, Bench
  PROVE  \E score \in Scores \cup {Null} :
           /\ log' = Append(log, [run |-> run, sub |-> i, score |-> score])
           /\ runs' \in Seq(RunRecord) /\ Len(runs') = Len(runs) /\ DOMAIN runs' = DOMAIN runs
           /\ \A r \in DOMAIN runs : r # run => runs'[r] = runs[r]
           /\ DOMAIN runs'[run].results = 1..num_sub_runs
           /\ Len(runs'[run].results) = num_sub_runs
           /\ runs'[run].results[i] = score
           /\ \A s \in 1..num_sub_runs : s # i => runs'[run].results[s] = runs[run].results[s]
  <1>1. PICK score \in Scores \cup {Null} :
          /\ runs' = Recorded(score)
          /\ log' = Append(log, [run |-> run, sub |-> i, score |-> score])
    BY DEF Bench
  <1>2. /\ runs \in Seq(RunRecord) /\ run \in DOMAIN runs /\ num_sub_runs \in Nat
        /\ Len(runs[run].results) = num_sub_runs /\ i \in 1..num_sub_runs
    BY OptionTypes DEF TypeOK, Bench, SubRunsLeft
  <1>3. runs[run].results \in Seq(Scores \cup {Null})
    <2>1. runs[run] \in RunRecord
      BY <1>2, SeqElement
    <2> QED BY <2>1 DEF RunRecord, Results
  <1> DEFINE results == [runs[run].results EXCEPT ![i] = score]
  <1>4. /\ results \in Results /\ Len(results) = num_sub_runs
        /\ DOMAIN results = 1..num_sub_runs /\ results[i] = score
        /\ \A s \in 1..num_sub_runs : s # i => results[s] = runs[run].results[s]
    BY <1>2, <1>3 DEF Results
  <1>5. runs' = [runs EXCEPT ![run].results = results]
    BY <1>1 DEF Recorded
  <1> HIDE DEF results
  <1>6. /\ runs' \in Seq(RunRecord) /\ Len(runs') = Len(runs) /\ DOMAIN runs' = DOMAIN runs
        /\ runs'[run].results = results
        /\ \A r \in DOMAIN runs : r # run => runs'[r] = runs[r]
    BY <1>2, <1>4, <1>5, RunReplaced
  <1> QED BY <1>1, <1>4, <1>6

\* What BeginRun does to the runs.
LEMMA BeginParts ==
  ASSUME TypeOK, BeginRun
  PROVE  /\ runs' \in Seq(RunRecord) /\ Len(runs') = Len(runs) /\ DOMAIN runs' = DOMAIN runs
         /\ run \in DOMAIN runs
         /\ \A r \in DOMAIN runs : r # run => runs'[r] = runs[r]
         /\ DOMAIN runs'[run].results = 1..num_sub_runs
         /\ Len(runs'[run].results) = num_sub_runs
  <1>1. /\ runs \in Seq(RunRecord) /\ run \in DOMAIN runs /\ num_sub_runs \in Nat
    BY OptionTypes DEF TypeOK, BeginRun
  <1>2. runs[run].results \in Results
    <2>1. runs[run] \in RunRecord
      BY <1>1, SeqElement
    <2> QED BY <2>1 DEF RunRecord
  <1> DEFINE results == Resized(runs[run].results, num_sub_runs)
  <1>3. results \in Results /\ Len(results) = num_sub_runs /\ DOMAIN results = 1..num_sub_runs
    BY <1>1, <1>2, ResizedParts
  <1>4. runs' = [runs EXCEPT ![run].results = results]
    BY DEF BeginRun
  <1> HIDE DEF results
  <1>5. /\ runs' \in Seq(RunRecord) /\ Len(runs') = Len(runs) /\ DOMAIN runs' = DOMAIN runs
        /\ runs'[run].results = results
        /\ \A r \in DOMAIN runs : r # run => runs'[r] = runs[r]
    BY <1>1, <1>3, <1>4, RunReplaced
  <1> QED BY <1>1, <1>3, <1>5

\* The part of TypeOK about the cursors inside a run.
CursorsTyped ==
  pc \in {"bench", "pause"} =>
    /\ run \in DOMAIN runs /\ Len(runs[run].results) = num_sub_runs
    /\ i \in 1..(num_sub_runs + 1) /\ (pc = "pause" => i <= num_sub_runs)

\* When the table is printed, every run has all its results.
LEMMA AllFilled ==
  ASSUME TypeOK, CursorInv, pc = "table"
  PROVE  \A r \in DOMAIN runs : Len(runs[r].results) = num_sub_runs
  <1>1. DOMAIN runs = 1..Len(runs) /\ Len(runs) \in Nat /\ run = Len(runs) + 1
    BY DEF TypeOK, CursorInv, Sweeping
  <1>2. \A r \in DOMAIN runs : Begun(r)
    BY <1>1 DEF Begun
  <1> QED BY <1>2 DEF CursorInv, Sweeping

LEMMA TypeStep == TypeOK /\ CursorInv /\ [Next]_vars => TypeOK'
  <1> SUFFICES ASSUME TypeOK, CursorInv, [Next]_vars PROVE TypeOK'
    OBVIOUS
  <1> USE DEF Results
  <1>0. /\ OptionsSet /\ num_sub_runs \in Nat /\ wait_time_ms \in Nat
        /\ run \in Nat \ {0} /\ i \in Nat \ {0}
        /\ runs \in Seq(RunRecord) /\ table \in Seq(RowType)
    BY OptionTypes DEF TypeOK
  <1>1. CASE Call
    <2>1. /\ pc' = "select" /\ calls' \in 0..MaxCalls /\ OptionsSet'
          /\ UNCHANGED <<runs, announced, total_runs, run, i, sub_run, table, log, waited_ms>>
      BY <1>1, HarnessAssumption DEF Call, TypeOK, OptionsSet, estimate, history
    <2> QED BY <2>1 DEF TypeOK
  <1>2. ASSUME UNCHANGED <<options, runs, calls, estimate, run, i, sub_run, table, history>>,
               pc \in {"select", "run", "table"}, pc' \in {"idle", "table"}
        PROVE  TypeOK'
    BY <1>2 DEF TypeOK, OptionsSet, options, estimate, history
  <1>3. CASE UnknownVar
    BY <1>2, <1>3 DEF UnknownVar
  <1>4. CASE GenFails
    BY <1>2, <1>4 DEF GenFails
  <1>5. CASE Generate
    <2>1. Generated \in Seq(RunType)
      BY <1>0, <1>5, GeneratedType DEF Generate
    <2>2. runs' \in Seq(RunRecord)
      BY <1>5, <2>1, Runs0 DEF Generate
    <2>3. Estimated(Generated) \in Nat
      BY <1>0, <2>1, EstimatedNat
    <2>4. announced' \in Seq(Nat)
      BY <1>5, <2>3, HmsType DEF Generate
    <2>5. total_runs' \in Nat
      <3>1. Len(Generated) * num_sub_runs \in Nat
        BY <1>0, <2>1
      <3> QED BY <1>5, <3>1, WrapNat DEF Generate, TotalRuns
    <2>6. /\ pc' = "run" /\ run' = 1 /\ sub_run' = 0 /\ table' = <<>> /\ log' = <<>>
          /\ waited_ms' = 0 /\ UNCHANGED <<wait_time_ms, num_sub_runs, var, opt_str, calls, i>>
      BY <1>5 DEF Generate, options
    <2> QED BY <2>2, <2>4, <2>5, <2>6 DEF TypeOK, OptionsSet
  <1>6. CASE BeginRun
    <2>1. /\ runs' \in Seq(RunRecord) /\ run \in DOMAIN runs'
          /\ Len(runs'[run].results) = num_sub_runs
      BY <1>6, BeginParts
    <2>2. /\ pc' = "bench" /\ i' = 1
          /\ UNCHANGED <<wait_time_ms, num_sub_runs, var, opt_str, calls, announced, total_runs,
                         run, sub_run, table, log, waited_ms>>
      BY <1>6 DEF BeginRun, options, estimate, history
    <2>3. CursorsTyped'
      BY <1>0, <2>1, <2>2 DEF CursorsTyped
    <2> QED BY <2>1, <2>2, <2>3 DEF TypeOK, OptionsSet, CursorsTyped
  <1>7. CASE Bench
    <2>1. PICK score \in Scores \cup {Null} :
            /\ log' = Append(log, [run |-> run, sub |-> i, score |-> score])
            /\ runs' \in Seq(RunRecord) /\ DOMAIN runs' = DOMAIN runs
            /\ Len(runs'[run].results) = num_sub_runs
      BY <1>7, BenchParts
    <2>2. /\ pc = "bench" /\ pc' = "pause" /\ i <= num_sub_runs
          /\ UNCHANGED <<wait_time_ms, num_sub_runs, var, opt_str, calls, announced, total_runs,
                         run, i, sub_run, table, waited_ms>>
      BY <1>7 DEF Bench, SubRunsLeft, options, estimate
    <2>3. log' \in Seq([run : Nat \ {0}, sub : Nat \ {0}, score : Scores \cup {Null}])
      <3>1. [run |-> run, sub |-> i, score |-> score]
              \in [run : Nat \ {0}, sub : Nat \ {0}, score : Scores \cup {Null}]
        BY <1>0
      <3> QED BY <2>1, <3>1 DEF TypeOK
    <2>4. CursorsTyped'
      BY <1>0, <2>1, <2>2 DEF CursorsTyped, TypeOK
    <2> QED BY <2>1, <2>2, <2>3, <2>4 DEF TypeOK, OptionsSet, CursorsTyped
  <1>8. CASE Pause
    <2>1. /\ pc = "pause" /\ pc' = "bench" /\ i' = i + 1
          /\ sub_run' = Wrap(sub_run + 1) /\ waited_ms' = waited_ms + wait_time_ms
          /\ UNCHANGED <<wait_time_ms, num_sub_runs, var, opt_str, runs, calls, announced,
                         total_runs, run, table, log>>
      BY <1>8 DEF Pause, SleepTime, options, estimate
    <2>2. sub_run' \in Nat /\ waited_ms' \in Nat
      BY <1>0, <2>1, WrapNat DEF TypeOK
    <2>3. CursorsTyped'
      BY <1>0, <2>1 DEF CursorsTyped, TypeOK
    <2> QED BY <1>0, <2>1, <2>2, <2>3 DEF TypeOK, OptionsSet, CursorsTyped
  <1>9. CASE EndRun
    BY <1>0, <1>9 DEF EndRun, NextRun, TypeOK, OptionsSet, options, estimate, history
  <1>10. CASE RunsDone
    BY <1>2, <1>10 DEF RunsDone
  <1>11. CASE PrintRow
    <2>1. /\ Len(table) < Len(runs) /\ table' = Append(table, Row(runs[Len(table) + 1]))
          /\ UNCHANGED <<wait_time_ms, num_sub_runs, var, opt_str, runs, pc, calls, announced,
                         total_runs, run, i, sub_run, log, waited_ms>>
      BY <1>11 DEF PrintRow, options, estimate, history
    <2>2. Len(table) + 1 \in DOMAIN runs /\ pc = "table"
      BY <1>0, <1>11, <2>1 DEF PrintRow
    <2>3. runs[Len(table) + 1] \in RunRecord
      BY <1>0, <2>2, SeqElement
    <2>4. Row(runs[Len(table) + 1]) \in RowType
      BY <1>0, <2>2, <2>3, AllFilled, RowTyped
    <2>5. table' \in Seq(RowType)
      BY <1>0, <2>1, <2>4
    <2> QED BY <2>1, <2>2, <2>5 DEF TypeOK, OptionsSet
  <1>12. CASE Return
    BY <1>2, <1>12 DEF Return
  <1>13. CASE UNCHANGED vars
    BY <1>13 DEF TypeOK, OptionsSet, vars, options, estimate, history
  <1> QED BY <1>1, <1>3, <1>4, <1>5, <1>6, <1>7, <1>8, <1>9, <1>10, <1>11, <1>12, <1>13
          DEF Next, Step, Stopped

-----------------------------------------------------------------------------
(* The cursors, the log and the progress.                                  *)

LEMMA Product ==
  ASSUME NEW n \in Nat \ {0}, NEW m \in Nat
  PROVE  (n - 1) * m \in Nat /\ n * m \in Nat /\ n * m = (n - 1) * m + m
  OBVIOUS

\* The state a step starts from, and the calls that its phase says were made.
LEMMA Facts ==
  TypeOK => /\ num_sub_runs \in Nat /\ run \in Nat \ {0} /\ i \in Nat \ {0}
            /\ runs \in Seq(RunRecord) /\ DOMAIN runs = 1..Len(runs) /\ Len(runs) \in Nat
            /\ DOMAIN log = 1..Len(log) /\ Len(log) \in Nat
            /\ (run - 1) * num_sub_runs \in Nat /\ Len(runs) * num_sub_runs \in Nat
            /\ CallsMade \in Nat
            /\ pc = "bench" => CallsMade = (run - 1) * num_sub_runs + i - 1
            /\ pc = "pause" => CallsMade = (run - 1) * num_sub_runs + i
            /\ pc \notin {"bench", "pause"} => CallsMade = (run - 1) * num_sub_runs
  <1> SUFFICES ASSUME TypeOK
               PROVE  /\ num_sub_runs \in Nat /\ run \in Nat \ {0} /\ i \in Nat \ {0}
                      /\ runs \in Seq(RunRecord) /\ DOMAIN runs = 1..Len(runs)
                      /\ Len(runs) \in Nat
                      /\ DOMAIN log = 1..Len(log) /\ Len(log) \in Nat
                      /\ (run - 1) * num_sub_runs \in Nat /\ Len(runs) * num_sub_runs \in Nat
                      /\ CallsMade \in Nat
                      /\ (pc = "bench" => CallsMade = (run - 1) * num_sub_runs + i - 1)
                      /\ (pc = "pause" => CallsMade = (run - 1) * num_sub_runs + i)
                      /\ (pc \notin {"bench", "pause"} => CallsMade = (run - 1) * num_sub_runs)
    OBVIOUS
  <1>1. /\ num_sub_runs \in Nat /\ run \in Nat \ {0} /\ i \in Nat \ {0}
        /\ runs \in Seq(RunRecord) /\ DOMAIN runs = 1..Len(runs) /\ Len(runs) \in Nat
        /\ DOMAIN log = 1..Len(log) /\ Len(log) \in Nat
    BY OptionTypes DEF TypeOK
  <1>2. (run - 1) * num_sub_runs \in Nat
    BY <1>1, Product
  <1>3. Len(runs) * num_sub_runs \in Nat
    BY <1>1
  <1> QED BY <1>1, <1>2, <1>3 DEF CallsMade

LEMMA CursorStep == TypeOK /\ CursorInv /\ [Next]_vars => CursorInv'
  <1> SUFFICES ASSUME TypeOK, CursorInv, [Next]_vars PROVE CursorInv'
    OBVIOUS
  <1>0. /\ num_sub_runs \in Nat /\ run \in Nat \ {0} /\ i \in Nat \ {0}
        /\ runs \in Seq(RunRecord) /\ DOMAIN runs = 1..Len(runs) /\ Len(runs) \in Nat
        /\ Len(log) \in Nat /\ (run - 1) * num_sub_runs \in Nat
        /\ pc = "bench" => CallsMade = (run - 1) * num_sub_runs + i - 1
        /\ pc = "pause" => CallsMade = (run - 1) * num_sub_runs + i
        /\ pc \notin {"bench", "pause"} => CallsMade = (run - 1) * num_sub_runs
    BY Facts
  <1>1. ASSUME pc' \in {"select", "idle"} PROVE CursorInv'
    BY <1>1 DEF CursorInv, Sweeping
  <1>2. CASE Call \/ UnknownVar \/ GenFails \/ Return
    BY <1>1, <1>2 DEF Call, UnknownVar, GenFails, Return
  <1>3. CASE Generate
    <2>1. Generated \in Seq(RunType) /\ num_sub_runs' = num_sub_runs
          /\ pc' = "run" /\ run' = 1 /\ log' = <<>>
      BY <1>3, GeneratedType DEF Generate, TypeOK, options
    <2>2. /\ Len(runs') \in Nat /\ DOMAIN runs' = 1..Len(runs')
          /\ \A r \in DOMAIN runs' : Len(runs'[r].results) = 0
      <3>1. /\ runs' \in Seq(RunRecord)
            /\ \A r \in DOMAIN runs' : Len(runs'[r].results) = 0
        BY <1>3, <2>1, Runs0 DEF Generate
      <3> QED BY <3>1
    <2>3. CallsMade' = 0
      BY <1>0, <2>1 DEF CallsMade
    <2> QED BY <2>1, <2>2, <2>3 DEF CursorInv, Begun
  <1>4. CASE BeginRun
    <2>1. /\ pc = "run" /\ pc' = "bench" /\ i' = 1 /\ run <= Len(runs)
          /\ UNCHANGED <<run, log, num_sub_runs>>
      BY <1>4 DEF BeginRun, options, history
    <2>2. /\ Len(runs') = Len(runs) /\ DOMAIN runs' = DOMAIN runs /\ run \in DOMAIN runs
          /\ \A r \in DOMAIN runs : r # run => runs'[r] = runs[r]
          /\ Len(runs'[run].results) = num_sub_runs
      BY <1>4, BeginParts
    <2>3. Len(log) = (run - 1) * num_sub_runs
      BY <1>0, <2>1 DEF CursorInv, Sweeping
    <2>4. CallsMade' = (run - 1) * num_sub_runs
      BY <1>0, <2>1 DEF CallsMade
    <2>5. \A r \in DOMAIN runs :
            Len(runs'[r].results) = IF r < run \/ r = run THEN num_sub_runs ELSE 0
      BY <1>0, <2>1, <2>2 DEF CursorInv, Sweeping, Begun
    <2> QED BY <1>0, <2>1, <2>2, <2>3, <2>4, <2>5 DEF CursorInv, Begun
  <1>5. CASE Bench
    <2>1. /\ pc = "bench" /\ pc' = "pause" /\ UNCHANGED <<i, run, num_sub_runs>>
      BY <1>5 DEF Bench, options
    <2>2. /\ Len(log') = Len(log) + 1
          /\ Len(runs') = Len(runs) /\ DOMAIN runs' = DOMAIN runs
          /\ \A r \in DOMAIN runs : r # run => runs'[r] = runs[r]
          /\ Len(runs'[run].results) = num_sub_runs
      <3>1. PICK score : log' = Append(log, [run |-> run, sub |-> i, score |-> score])
        BY <1>5 DEF Bench
      <3>2. Len(log') = Len(log) + 1
        BY <3>1 DEF TypeOK
      <3> QED BY <1>5, <3>2, BenchParts
    <2>3. Len(log) = (run - 1) * num_sub_runs + i - 1
      BY <1>0, <2>1 DEF CursorInv, Sweeping
    <2>4. CallsMade' = (run - 1) * num_sub_runs + i
      BY <1>0, <2>1 DEF CallsMade
    <2>5. \A r \in DOMAIN runs :
            Len(runs'[r].results) = IF r < run \/ r = run THEN num_sub_runs ELSE 0
      BY <1>0, <2>1, <2>2 DEF CursorInv, Sweeping, Begun
    <2>6. run <= Len(runs) + 1
      BY <2>1 DEF CursorInv, Sweeping
    <2> QED BY <1>0, <2>1, <2>2, <2>3, <2>4, <2>5, <2>6 DEF CursorInv, Begun
  <1>6. CASE Pause
    <2>1. /\ pc = "pause" /\ pc' = "bench" /\ i' = i + 1
          /\ UNCHANGED <<run, runs, log, num_sub_runs>>
      BY <1>6 DEF Pause, options
    <2>2. CallsMade' = CallsMade
      BY <1>0, <2>1 DEF CallsMade
    <2> QED BY <1>0, <2>1, <2>2 DEF CursorInv, Sweeping, Begun
  <1>7. CASE EndRun
    <2>1. /\ pc = "bench" /\ pc' = "run" /\ run' = run + 1 /\ ~(i <= num_sub_runs)
          /\ UNCHANGED <<runs, log, num_sub_runs>>
      BY <1>7 DEF EndRun, NextRun, SubRunsLeft, options, history
    <2>2. run \in DOMAIN runs /\ i = num_sub_runs + 1
      BY <1>0, <2>1 DEF TypeOK
    <2>3. Len(log) = (run - 1) * num_sub_runs + num_sub_runs
      BY <1>0, <2>1, <2>2 DEF CursorInv, Sweeping
    <2>4. CallsMade' = run * num_sub_runs
      <3>1. run * num_sub_runs \in Nat
        BY <1>0, Product
      <3> QED BY <1>0, <2>1, <3>1 DEF CallsMade
    <2>5. run * num_sub_runs = (run - 1) * num_sub_runs + num_sub_runs
      BY <1>0, Product
    <2>6. \A r \in DOMAIN runs :
            Len(runs[r].results) = IF r < run + 1 THEN num_sub_runs ELSE 0
      BY <1>0, <2>1 DEF CursorInv, Sweeping, Begun
    <2> QED BY <1>0, <2>1, <2>2, <2>3, <2>4, <2>5, <2>6 DEF CursorInv, Begun
  <1>8. CASE RunsDone
    <2>1. /\ pc = "run" /\ pc' = "table" /\ run > Len(runs)
          /\ UNCHANGED <<runs, run, i, log, num_sub_runs>>
      BY <1>8 DEF RunsDone, options, history
    <2>2. CallsMade' = CallsMade
      BY <2>1 DEF CallsMade
    <2> QED BY <1>0, <2>1, <2>2 DEF CursorInv, Sweeping, Begun
  <1>9. CASE PrintRow \/ UNCHANGED vars
    <2>1. UNCHANGED <<pc, runs, run, i, log, num_sub_runs>>
      BY <1>9 DEF PrintRow, vars, options, history
    <2> QED BY <2>1 DEF CursorInv, Sweeping, Begun, CallsMade
  <1> QED BY <1>2, <1>3, <1>4, <1>5, <1>6, <1>7, <1>8, <1>9 DEF Next, Step, Stopped

LEMMA LogStep == TypeOK /\ CursorInv /\ LogInv /\ [Next]_vars => LogInv'
  <1> SUFFICES ASSUME TypeOK, CursorInv, LogInv, [Next]_vars PROVE LogInv'
    OBVIOUS
  <1> DEFINE Placed(c, rs) == /\ log[c].run \in DOMAIN rs /\ log[c].sub \in 1..num_sub_runs
                              /\ c = (log[c].run - 1) * num_sub_runs + log[c].sub
                              /\ log[c].sub \in DOMAIN rs[log[c].run].results
                              /\ rs[log[c].run].results[log[c].sub] = log[c].score
  <1>0. /\ num_sub_runs \in Nat /\ run \in Nat \ {0} /\ i \in Nat \ {0}
        /\ runs \in Seq(RunRecord) /\ DOMAIN runs = 1..Len(runs) /\ Len(runs) \in Nat
        /\ DOMAIN log = 1..Len(log) /\ Len(log) \in Nat
        /\ (run - 1) * num_sub_runs \in Nat
        /\ pc = "bench" => CallsMade = (run - 1) * num_sub_runs + i - 1
        /\ pc = "run" => CallsMade = (run - 1) * num_sub_runs
    BY Facts
  <1>1. ASSUME pc' \in {"select", "idle"} PROVE LogInv'
    BY <1>1 DEF LogInv, Sweeping
  <1>2. CASE Call \/ UnknownVar \/ GenFails \/ Return
    BY <1>1, <1>2 DEF Call, UnknownVar, GenFails, Return
  <1>3. CASE Generate
    BY <1>3 DEF Generate, LogInv
  <1>4. ASSUME Sweeping, NEW c \in DOMAIN log PROVE Placed(c, runs)
    BY <1>4 DEF LogInv
  \* A call before those of the run at the cursor is one of another run.
  <1>5. ASSUME Sweeping, NEW c \in DOMAIN log, c <= (run - 1) * num_sub_runs
        PROVE  log[c].run # run
    BY <1>0, <1>4, <1>5
  <1>6. CASE BeginRun
    <2>1. /\ pc = "run" /\ UNCHANGED <<log, num_sub_runs>>
      BY <1>6 DEF BeginRun, options, history
    <2>2. /\ DOMAIN runs' = DOMAIN runs
          /\ \A r \in DOMAIN runs : r # run => runs'[r] = runs[r]
      BY <1>6, BeginParts
    <2>3. Len(log) = (run - 1) * num_sub_runs
      BY <1>0, <2>1 DEF CursorInv, Sweeping
    <2>4. ASSUME NEW c \in DOMAIN log PROVE Placed(c, runs')
      <3>1. Placed(c, runs) /\ log[c].run # run
        BY <1>0, <1>4, <1>5, <2>1, <2>3 DEF Sweeping
      <3> QED BY <2>2, <3>1
    <2> QED BY <2>1, <2>4 DEF LogInv
  <1>7. CASE Bench
    <2>1. /\ pc = "bench" /\ i <= num_sub_runs /\ run \in DOMAIN runs
          /\ num_sub_runs' = num_sub_runs
      BY <1>7 DEF Bench, SubRunsLeft, TypeOK, options
    <2>2. PICK score \in Scores \cup {Null} :
            /\ log' = Append(log, [run |-> run, sub |-> i, score |-> score])
            /\ DOMAIN runs' = DOMAIN runs
            /\ \A r \in DOMAIN runs : r # run => runs'[r] = runs[r]
            /\ DOMAIN runs'[run].results = 1..num_sub_runs
            /\ runs'[run].results[i] = score
            /\ \A s \in 1..num_sub_runs :
                 s # i => runs'[run].results[s] = runs[run].results[s]
      BY <1>7, BenchParts
    <2>3. Len(log) = (run - 1) * num_sub_runs + i - 1
      BY <1>0, <2>1 DEF CursorInv, Sweeping
    <2>4. /\ DOMAIN log' = 1..(Len(log) + 1)
          /\ \A c \in DOMAIN log : log'[c] = log[c]
          /\ log'[Len(log) + 1] = [run |-> run, sub |-> i, score |-> score]
      <3>1. log \in Seq([run : Nat \ {0}, sub : Nat \ {0}, score : Scores \cup {Null}])
        BY DEF TypeOK
      <3> QED BY <2>2, <3>1, AppendParts
    <2>5. ASSUME NEW c \in DOMAIN log PROVE Placed(c, runs')
      <3>1. Placed(c, runs)
        BY <1>4, <2>1 DEF Sweeping
      <3>2. log[c].run = run => log[c].sub # i
        BY <1>0, <2>3, <3>1
      <3>3. CASE log[c].run = run
        BY <2>2, <3>1, <3>2, <3>3
      <3>4. CASE log[c].run # run
        BY <2>2, <3>1, <3>4
      <3> QED BY <3>3, <3>4
    <2>6. ASSUME NEW c \in DOMAIN log'
          PROVE  /\ log'[c].run \in DOMAIN runs' /\ log'[c].sub \in 1..num_sub_runs
                 /\ c = (log'[c].run - 1) * num_sub_runs + log'[c].sub
                 /\ log'[c].sub \in DOMAIN runs'[log'[c].run].results
                 /\ runs'[log'[c].run].results[log'[c].sub] = log'[c].score
      <3>1. CASE c \in DOMAIN log
        BY <2>4, <2>5, <3>1
      <3>2. CASE c = Len(log) + 1
        <4>1. log'[c].run = run /\ log'[c].sub = i /\ log'[c].score = runs'[run].results[i]
          BY <2>2, <2>4, <3>2
        <4>2. c = (run - 1) * num_sub_runs + i /\ i \in 1..num_sub_runs
          BY <1>0, <2>1, <2>3, <3>2
        <4> QED BY <2>1, <2>2, <4>1, <4>2
      <3> QED BY <1>0, <2>4, <3>1, <3>2
    <2> HIDE DEF Placed
    <2> QED BY <2>1, <2>6 DEF LogInv
  <1>8. CASE Pause \/ EndRun \/ RunsDone \/ PrintRow \/ UNCHANGED vars
    <2>1. UNCHANGED <<runs, log, num_sub_runs>> /\ (Sweeping' => Sweeping)
      BY <1>8 DEF Pause, EndRun, RunsDone, PrintRow, vars, options, history, Sweeping
    <2> QED BY <2>1 DEF LogInv
  <1> QED BY <1>2, <1>3, <1>6, <1>7, <1>8 DEF Next, Step, Stopped

\* Here and in the refinement: what ends before the next call has no wrapping
\* count where the total has none.
LEMMA Multiples ==
  ASSUME NEW m \in Nat, NEW n \in Nat, NEW r \in Nat \ {0}, r <= n
  PROVE  /\ (r - 1) * m \in Nat /\ r * m \in Nat /\ n * m \in Nat
         /\ r * m = (r - 1) * m + m /\ r * m <= n * m
  <1>1. (r - 1) * m \in Nat /\ r * m \in Nat /\ n * m \in Nat /\ (n - r) * m \in Nat
    OBVIOUS
  <1>2. r * m = (r - 1) * m + m /\ n * m = r * m + (n - r) * m
    OBVIOUS
  <1> QED BY <1>1, <1>2

LEMMA ProgressStep == TypeOK /\ CursorInv /\ ProgressInv /\ [Next]_vars => ProgressInv'
  <1> SUFFICES ASSUME TypeOK, CursorInv, ProgressInv, [Next]_vars PROVE ProgressInv'
    OBVIOUS
  <1>0. /\ num_sub_runs \in Nat /\ run \in Nat \ {0} /\ i \in Nat \ {0}
        /\ Len(runs) \in Nat /\ DOMAIN runs = 1..Len(runs)
        /\ (run - 1) * num_sub_runs \in Nat /\ Len(runs) * num_sub_runs \in Nat
        /\ CallsMade \in Nat
        /\ pc = "bench" => CallsMade = (run - 1) * num_sub_runs + i - 1
        /\ pc = "pause" => CallsMade = (run - 1) * num_sub_runs + i
        /\ pc \notin {"bench", "pause"} => CallsMade = (run - 1) * num_sub_runs
    BY Facts
  <1>1. CASE Call \/ UnknownVar \/ GenFails \/ Return
    BY <1>1 DEF Call, UnknownVar, GenFails, Return, ProgressInv, Sweeping
  <1>2. CASE Generate
    <2>1. Generated \in Seq(RunType) /\ num_sub_runs' = num_sub_runs
          /\ pc' = "run" /\ run' = 1 /\ sub_run' = 0
          /\ total_runs' = Wrap(Len(Generated) * num_sub_runs)
      BY <1>2, GeneratedType DEF Generate, TypeOK, options, TotalRuns
    <2>2. Len(runs') = Len(Generated) /\ Len(Generated) * num_sub_runs \in Nat
      <3>1. Len(runs') = Len(Generated)
        BY <1>2, <2>1, Runs0 DEF Generate
      <3> QED BY <1>0, <2>1, <3>1
    <2>3. CallsEnded' = 0
      BY <1>0, <2>1 DEF CallsEnded, CallsMade
    <2>4. Len(runs') * num_sub_runs < Modulus => total_runs' = Len(runs') * num_sub_runs
      BY <2>1, <2>2, WrapSmall
    <2> QED BY <2>1, <2>3, <2>4 DEF ProgressInv
  <1>3. ASSUME UNCHANGED <<num_sub_runs, total_runs, sub_run>>, Len(runs') = Len(runs),
               CallsEnded' = CallsEnded, Sweeping
        PROVE  ProgressInv'
    BY <1>3 DEF ProgressInv
  <1>4. CASE BeginRun
    <2>1. /\ pc = "run" /\ pc' = "bench" /\ i' = 1
          /\ UNCHANGED <<run, num_sub_runs, total_runs, sub_run>>
      BY <1>4 DEF BeginRun, options, estimate
    <2>2. CallsEnded' = CallsEnded
      BY <1>0, <2>1 DEF CallsEnded, CallsMade
    <2> QED BY <1>3, <1>4, <2>1, <2>2, BeginParts DEF Sweeping
  <1>5. CASE Bench
    <2>1. /\ pc = "bench" /\ pc' = "pause"
          /\ UNCHANGED <<run, i, num_sub_runs, total_runs, sub_run>>
      BY <1>5 DEF Bench, options, estimate
    <2>2. CallsEnded' = CallsEnded
      BY <1>0, <2>1 DEF CallsEnded, CallsMade
    <2> QED BY <1>3, <1>5, <2>1, <2>2, BenchParts DEF Sweeping
  <1>6. CASE Pause
    <2>1. /\ pc = "pause" /\ pc' = "bench" /\ i' = i + 1
          /\ sub_run' = Wrap(sub_run + 1)
          /\ UNCHANGED <<run, runs, num_sub_runs, total_runs>>
      BY <1>6 DEF Pause, options, estimate
    <2>2. CallsEnded = (run - 1) * num_sub_runs + i - 1
          /\ CallsEnded' = (run - 1) * num_sub_runs + i
      BY <1>0, <2>1 DEF CallsEnded, CallsMade
    <2>3. run <= Len(runs) /\ i <= num_sub_runs
      BY <1>0, <2>1 DEF TypeOK
    <2>4. (run - 1) * num_sub_runs + i <= Len(runs) * num_sub_runs
      <3>1. /\ run * num_sub_runs = (run - 1) * num_sub_runs + num_sub_runs
            /\ run * num_sub_runs <= Len(runs) * num_sub_runs
            /\ run * num_sub_runs \in Nat
        BY <1>0, <2>3, Multiples
      <3> QED BY <1>0, <2>3, <3>1
    <2>5. ASSUME Len(runs) * num_sub_runs < Modulus
          PROVE  total_runs = Len(runs) * num_sub_runs /\ sub_run' = CallsEnded'
      <3>1. total_runs = Len(runs) * num_sub_runs /\ sub_run = CallsEnded
        BY <2>1, <2>5 DEF ProgressInv, Sweeping
      <3>2. sub_run + 1 \in Nat /\ sub_run + 1 < Modulus
        BY <1>0, <2>2, <2>4, <2>5, <3>1, HarnessAssumption
      <3>3. Wrap(sub_run + 1) = sub_run + 1
        BY <3>2, WrapSmall
      <3> QED BY <1>0, <2>1, <2>2, <3>1, <3>3
    <2> QED BY <2>1, <2>5 DEF ProgressInv
  <1>7. CASE EndRun
    <2>1. /\ pc = "bench" /\ pc' = "run" /\ run' = run + 1 /\ ~(i <= num_sub_runs)
          /\ UNCHANGED <<runs, num_sub_runs, total_runs, sub_run>>
      BY <1>7 DEF EndRun, NextRun, SubRunsLeft, options, estimate
    <2>2. i = num_sub_runs + 1
      BY <1>0, <2>1 DEF TypeOK
    <2>3. run * num_sub_runs = (run - 1) * num_sub_runs + num_sub_runs
          /\ run * num_sub_runs \in Nat
      BY <1>0, Product
    <2>4. CallsEnded' = CallsEnded
      BY <1>0, <2>1, <2>2, <2>3 DEF CallsEnded, CallsMade
    <2> QED BY <1>3, <2>1, <2>4 DEF Sweeping
  <1>8. CASE RunsDone
    <2>1. /\ pc = "run" /\ pc' = "table"
          /\ UNCHANGED <<runs, run, num_sub_runs, total_runs, sub_run>>
      BY <1>8 DEF RunsDone, options, estimate
    <2>2. CallsEnded' = CallsEnded
      BY <2>1 DEF CallsEnded, CallsMade
    <2> QED BY <1>3, <2>1, <2>2 DEF Sweeping
  <1>9. CASE PrintRow \/ UNCHANGED vars
    <2>1. UNCHANGED <<pc, runs, run, i, num_sub_runs, total_runs, sub_run>>
      BY <1>9 DEF PrintRow, vars, options, estimate
    <2> QED BY <2>1 DEF ProgressInv, Sweeping, CallsEnded, CallsMade
  <1> QED BY <1>1, <1>2, <1>4, <1>5, <1>6, <1>7, <1>8, <1>9 DEF Next, Step, Stopped

-----------------------------------------------------------------------------
(* The results of a sweep that is over, and the rows.                      *)

LEMMA TableComplete ==
  ASSUME TypeOK, CursorInv, LogInv, pc = "table"
  PROVE  \A r \in DOMAIN runs : \A s \in DOMAIN runs[r].results :
           \E c \in DOMAIN log :
             log[c] = [run |-> r, sub |-> s, score |-> runs[r].results[s]]
  <1> SUFFICES ASSUME NEW r \in DOMAIN runs, NEW s \in DOMAIN runs[r].results
               PROVE  \E c \in DOMAIN log :
                        log[c] = [run |-> r, sub |-> s, score |-> runs[r].results[s]]
    OBVIOUS
  <1>1. /\ num_sub_runs \in Nat /\ Len(runs) \in Nat /\ r \in Nat \ {0} /\ r <= Len(runs)
        /\ DOMAIN log = 1..Len(log)
        /\ Len(log) = (run - 1) * num_sub_runs /\ run = Len(runs) + 1
    BY Facts DEF CursorInv, Sweeping
  <1>2. s \in 1..num_sub_runs
    <2>1. runs[r] \in RunRecord
      BY SeqElement DEF TypeOK
    <2>2. runs[r].results \in Seq(Scores \cup {Null})
      BY <2>1 DEF RunRecord, Results
    <2>3. Len(runs[r].results) = num_sub_runs
      BY AllFilled
    <2> QED BY <2>2, <2>3
  <1> DEFINE c == (r - 1) * num_sub_runs + s
  <1>3. c \in DOMAIN log
    <2>1. /\ (r - 1) * num_sub_runs \in Nat /\ r * num_sub_runs \in Nat
          /\ Len(runs) * num_sub_runs \in Nat
          /\ r * num_sub_runs = (r - 1) * num_sub_runs + num_sub_runs
          /\ r * num_sub_runs <= Len(runs) * num_sub_runs
      BY <1>1, Multiples
    <2>2. Len(log) = Len(runs) * num_sub_runs
      BY <1>1
    <2> DEFINE before == (r - 1) * num_sub_runs
               after  == r * num_sub_runs
    <2>3. before \in Nat /\ after = before + num_sub_runs /\ after <= Len(log)
      BY <2>1, <2>2
    <2>4. Len(log) \in Nat /\ c = before + s
      BY <2>1, <2>2
    <2> HIDE DEF before, after, c
    <2>5. c \in 1..Len(log)
      BY ONLY <1>1, <1>2, <2>3, <2>4
    <2> QED BY <1>1, <2>5
  <1> HIDE DEF c
  <1>4. /\ log[c].run \in DOMAIN runs /\ log[c].sub \in 1..num_sub_runs
        /\ c = (log[c].run - 1) * num_sub_runs + log[c].sub
        /\ runs[log[c].run].results[log[c].sub] = log[c].score
    BY <1>3 DEF LogInv, Sweeping
  <1>5. log[c] \in [run : Nat \ {0}, sub : Nat \ {0}, score : Scores \cup {Null}]
    BY <1>3, SeqElement DEF TypeOK
  <1>6. log[c].run \in Nat \ {0}
    BY <1>5
  <1>7. log[c].run = r /\ log[c].sub = s
    <2> DEFINE q == log[c].run
               a == log[c].sub
    <2>1. (q - 1) * num_sub_runs + a = (r - 1) * num_sub_runs + s
      BY <1>4 DEF c
    <2>2. /\ q \in Nat \ {0} /\ a \in 1..num_sub_runs
          /\ num_sub_runs \in Nat /\ r \in Nat \ {0}
      BY <1>1, <1>4, <1>6
    <2> HIDE DEF q, a
    <2>3. q = r /\ a = s
      BY ONLY <1>2, <2>1, <2>2
    <2> QED BY <2>3 DEF q, a
  <1>8. log[c] = [run |-> r, sub |-> s, score |-> runs[r].results[s]]
    BY <1>4, <1>5, <1>7
  <1> QED BY <1>3, <1>8

LEMMA CompleteStep ==
  TypeOK /\ CursorInv /\ LogInv /\ ResultsComplete /\ [Next]_vars => ResultsComplete'
  <1> SUFFICES ASSUME TypeOK, CursorInv, LogInv, ResultsComplete, [Next]_vars
               PROVE  ResultsComplete'
    OBVIOUS
  <1>1. CASE Call \/ UnknownVar \/ GenFails \/ UNCHANGED vars
    <2>1. UNCHANGED <<runs, log>> /\ (pc' \in {"idle", "select"} => pc \in {"idle", "select"})
      BY <1>1 DEF Call, UnknownVar, GenFails, vars, history
    <2> QED BY <2>1 DEF ResultsComplete
  <1>2. CASE Return
    <2>1. UNCHANGED <<runs, log>> /\ pc = "table"
      BY <1>2 DEF Return, history
    <2> QED BY <2>1, TableComplete DEF ResultsComplete
  <1>3. ASSUME pc' \in {"run", "bench", "pause", "table"} PROVE ResultsComplete'
    BY <1>3 DEF ResultsComplete
  <1>4. CASE Generate \/ BeginRun \/ Bench \/ Pause \/ EndRun \/ RunsDone \/ PrintRow
    <2>1. pc' \in {"run", "bench", "pause", "table"}
      BY <1>4 DEF Generate, BeginRun, Bench, Pause, EndRun, RunsDone, PrintRow
    <2> QED BY <1>3, <2>1
  <1> QED BY <1>1, <1>2, <1>4 DEF Next, Step, Stopped

\* What RowsSound says of one row.
Sound(row) ==
  LET there == Range(row.scores) \ {Null}
  IN  /\ row.ratio # Null =>
           /\ row.ratio[1] \in there
           /\ \A s \in there : row.ratio[2] <= s /\ s <= row.ratio[1]
           /\ (\A s \in Scores : s <= Huge) => row.ratio[2] \in there
      /\ row.mean # Null => /\ row.mean[2] > 0
                            /\ row.mean[1] >= Tiny * row.mean[2] => row.ratio # Null
      /\ row.mean # Null /\ row.ratio # Null =>
           /\ row.ratio[2] * row.mean[2] <= row.mean[1]
           /\ row.mean[1] <= row.ratio[1] * row.mean[2]

\* Multiplying by a natural number keeps an order.
LEMMA TimesMonotone ==
  ASSUME NEW a \in Int, NEW b \in Int, a <= b, NEW n \in Nat PROVE a * n <= b * n
  <1>1. (b - a) * n >= 0 /\ (b - a) * n = b * n - a * n
    OBVIOUS
  <1> QED BY <1>1

\* The row of a run that has all its results is sound.
LEMMA RowSound ==
  ASSUME OptionsSet, NEW r \in RunRecord, Len(r.results) = num_sub_runs
  PROVE  Sound(Row(r))
  <1> DEFINE F == Found(r.results)
             S == ScoreSet(r.results)
             max == Max({0} \cup S)
             min == Least(r.results)
             total == SumFunctionOnSet(r.results, F)
             completed == Cardinality(F)
             scores == [v \in 1..num_sub_runs |-> r.results[v]]
  <1>1. r.results \in Results /\ num_sub_runs \in Nat
        /\ DOMAIN r.results = 1..num_sub_runs
    BY OptionTypes DEF RunRecord, Results
  <1>2. /\ IsFiniteSet(F) /\ completed \in Nat /\ F \subseteq DOMAIN r.results
        /\ S \subseteq Scores /\ max \in {0} \cup S /\ max \in Nat
        /\ min \in {Huge} \cup S /\ min \in Int
        /\ \A v \in F : r.results[v] \in Int /\ min <= r.results[v] /\ r.results[v] <= max
    BY <1>1, RowParts
  <1>3. S = Range(scores) \ {Null}
    <2>1. \A v \in F : r.results[v] \in Range(scores) /\ r.results[v] # Null
      BY <1>1, <1>2 DEF Range, Found
    <2>2. \A x \in Range(scores) \ {Null} : x \in S
      BY <1>1 DEF Range, ScoreSet, Found
    <2>3. S \subseteq Range(scores) \ {Null}
      BY <2>1 DEF ScoreSet
    <2> QED BY <2>2, <2>3
  <1>4. \A x \in S : min <= x /\ x <= max
    BY <1>2 DEF ScoreSet
  <1>5. total \in Int /\ min * completed <= total /\ total <= max * completed
    <2>1. max \in Int
      BY <1>2
    <2> HIDE DEF F, S, max, min
    <2> QED BY ONLY <1>2, <2>1, SumBounds
  <1>6. Row(r) = [name |-> r.name, scores |-> scores,
                  mean |-> IF total >= Tiny THEN <<total, completed>> ELSE Null,
                  ratio |-> IF max >= Tiny THEN <<max, min>> ELSE Null]
    BY DEF Row
  <1> DEFINE row == Row(r)
  <1> HIDE DEF F, S, max, min, total, completed, scores
  <1>7. /\ row.scores = scores
        /\ row.mean = IF total >= Tiny THEN <<total, completed>> ELSE Null
        /\ row.ratio = IF max >= Tiny THEN <<max, min>> ELSE Null
    BY <1>6
  <1> HIDE DEF row
  <1>8. <<max, min>> # Null
    <2>1. <<max, min>> \in Int \X Int
      BY <1>2
    <2> QED BY <2>1, HarnessAssumption
  <1>9. Tiny \in Nat /\ Tiny > 0
    BY HarnessAssumption
  <1>10. ASSUME row.ratio # Null
         PROVE  /\ row.ratio = <<max, min>> /\ max \in S
                /\ (\A s \in Scores : s <= Huge) => min \in S
    <2>1. max >= Tiny /\ row.ratio = <<max, min>>
      BY <1>7, <1>10
    <2>2. max \in S
      BY <1>2, <1>9, <2>1
    <2>3. ASSUME \A s \in Scores : s <= Huge PROVE min \in S
      <3>1. min <= max /\ max <= Huge /\ max \in Int /\ Huge \in Int
        BY <1>2, <1>4, <2>2, <2>3, HarnessAssumption
      <3>2. min = Huge => max = Huge
        BY <3>1
      <3> QED BY <1>2, <2>2, <3>2
    <2> QED BY <2>1, <2>2, <2>3
  <1>11. ASSUME row.mean # Null
         PROVE  /\ row.mean[1] = total /\ row.mean[2] = completed /\ completed > 0
                /\ total >= Tiny * completed => row.ratio # Null
    <2>1. total >= Tiny /\ row.mean[1] = total /\ row.mean[2] = completed
      BY <1>7, <1>11
    <2>2. completed > 0
      <3>1. CASE completed = 0
        <4>1. max * completed = 0
          BY <1>2, <3>1
        <4> QED BY <1>5, <1>9, <2>1, <4>1
      <3> QED BY <1>2, <3>1
    <2>3. ASSUME total >= Tiny * completed PROVE row.ratio # Null
      <3>1. max >= Tiny
        <4>1. Tiny * completed <= max * completed
          <5>1. Tiny * completed \in Int /\ max * completed \in Int
            BY <1>2, <1>9
          <5> QED BY <1>5, <2>3, <5>1
        <4>2. CASE max + 1 <= Tiny
          <5>1. (max + 1) * completed <= Tiny * completed
            BY <1>2, <1>9, <2>2, <4>2, TimesMonotone
          <5>2. (max + 1) * completed = max * completed + completed
            BY <1>2
          <5>3. max * completed \in Int /\ Tiny * completed \in Int
            BY <1>2, <1>9
          <5> QED BY <1>2, <2>2, <4>1, <5>1, <5>2, <5>3
        <4> QED BY <1>2, <1>9, <4>2
      <3> QED BY <1>7, <1>8, <3>1
    <2> QED BY <2>1, <2>2, <2>3
  <1>12. /\ row.ratio # Null =>
              /\ row.ratio[1] \in S
              /\ \A s \in S : row.ratio[2] <= s /\ s <= row.ratio[1]
              /\ (\A s \in Scores : s <= Huge) => row.ratio[2] \in S
         /\ row.mean # Null => /\ row.mean[2] > 0
                               /\ row.mean[1] >= Tiny * row.mean[2] => row.ratio # Null
    BY <1>4, <1>10, <1>11
  <1>13. row.mean # Null /\ row.ratio # Null =>
           /\ row.ratio[2] * row.mean[2] <= row.mean[1]
           /\ row.mean[1] <= row.ratio[1] * row.mean[2]
    BY <1>5, <1>10, <1>11
  <1> QED BY <1>3, <1>7, <1>12, <1>13 DEF Sound, row

LEMMA RowsStep == TypeOK /\ CursorInv /\ RowsSound /\ [Next]_vars => RowsSound'
  <1> SUFFICES ASSUME TypeOK, CursorInv, RowsSound, [Next]_vars PROVE RowsSound'
    OBVIOUS
  <1>1. \A r \in DOMAIN table : Sound(table[r])
    BY DEF RowsSound, Sound
  <1>2. ASSUME \A r \in DOMAIN table' : Sound(table'[r]) PROVE RowsSound'
    BY <1>2 DEF RowsSound, Sound
  <1>3. CASE PrintRow
    <2>1. /\ table \in Seq(RowType) /\ runs \in Seq(RunRecord) /\ OptionsSet
          /\ Len(table) < Len(runs) /\ pc = "table"
          /\ table' = Append(table, Row(runs[Len(table) + 1]))
      BY <1>3 DEF PrintRow, TypeOK
    <2>2. Len(table) + 1 \in DOMAIN runs
      BY <2>1
    <2>3. runs[Len(table) + 1] \in RunRecord
      BY <2>1, <2>2, SeqElement
    <2>4. Len(runs[Len(table) + 1].results) = num_sub_runs
      BY <2>1, <2>2, AllFilled
    <2>5. Sound(Row(runs[Len(table) + 1]))
      BY <2>1, <2>3, <2>4, RowSound
    <2>6. \A r \in DOMAIN table' : \/ r \in DOMAIN table /\ table'[r] = table[r]
                                   \/ table'[r] = Row(runs[Len(table) + 1])
      BY <2>1, AppendParts
    <2>7. \A r \in DOMAIN table' : Sound(table'[r])
      BY <1>1, <2>5, <2>6
    <2> QED BY <1>2, <2>7
  <1>4. CASE table' = table
    BY <1>1, <1>2, <1>4
  <1>5. CASE table' = <<>>
    BY <1>2, <1>5
  <1>6. PrintRow \/ table' = table \/ table' = <<>>
    BY DEF Next, Step, Call, UnknownVar, GenFails, Generate, BeginRun, Bench, Pause, EndRun,
           RunsDone, Return, Stopped, vars
  <1> QED BY <1>3, <1>4, <1>5, <1>6

-----------------------------------------------------------------------------
(* The invariant and what follows from it.                                 *)

LEMMA InitInv == Init => TypeOK /\ HarnessInv
  <1> SUFFICES ASSUME Init PROVE TypeOK /\ HarnessInv
    OBVIOUS
  <1>1. TypeOK
    BY HarnessAssumption DEF Init, TypeOK
  <1>2. HarnessInv
    BY DEF Init, HarnessInv, CursorInv, LogInv, ProgressInv, Sweeping, ResultsComplete, RowsSound
  <1> QED BY <1>1, <1>2

LEMMA InvStep == TypeOK /\ HarnessInv /\ [Next]_vars => (TypeOK /\ HarnessInv)'
  BY TypeStep, CursorStep, LogStep, ProgressStep, CompleteStep, RowsStep DEF HarnessInv

\* The invariant holds for all variables, options, scores and calls of run().
THEOREM Invariance == Spec => [](TypeOK /\ HarnessInv)
  BY InitInv, InvStep, PTL DEF Spec

\* The members and cursors of run() keep their types and ranges.
THEOREM TypeCorrect == Spec => []TypeOK
  BY Invariance, PTL

\* No score is lost, moved or overwritten, and no call is left out or made
\* twice.
THEOREM ScoresKept == Spec => []ScoresInPlace
  <1>1. TypeOK /\ HarnessInv => ScoresInPlace
    <2> SUFFICES ASSUME TypeOK, HarnessInv, Sweeping
                 PROVE  /\ pc = "table" =>
                             /\ Len(log) = Len(runs) * num_sub_runs
                             /\ \A r \in DOMAIN runs : Len(runs[r].results) = num_sub_runs
                        /\ \A c \in DOMAIN log :
                             /\ log[c].run \in DOMAIN runs
                             /\ log[c].sub \in DOMAIN runs[log[c].run].results
                             /\ runs[log[c].run].results[log[c].sub] = log[c].score
                        /\ \A c, d \in DOMAIN log :
                             log[c].run = log[d].run /\ log[c].sub = log[d].sub => c = d
      BY DEF ScoresInPlace
    <2>1. ASSUME pc = "table"
          PROVE  /\ Len(log) = Len(runs) * num_sub_runs
                 /\ \A r \in DOMAIN runs : Len(runs[r].results) = num_sub_runs
      <3>1. Len(log) = (run - 1) * num_sub_runs /\ run = Len(runs) + 1 /\ Len(runs) \in Nat
        BY <2>1, Facts DEF HarnessInv, CursorInv
      <3> QED BY <2>1, <3>1, AllFilled DEF HarnessInv
    <2>2. \A c \in DOMAIN log :
            /\ log[c].run \in DOMAIN runs
            /\ c = (log[c].run - 1) * num_sub_runs + log[c].sub
            /\ log[c].sub \in DOMAIN runs[log[c].run].results
            /\ runs[log[c].run].results[log[c].sub] = log[c].score
      BY DEF HarnessInv, LogInv
    <2> QED BY <2>1, <2>2
  <1> QED BY <1>1, Invariance, PTL

\* A run() that fails keeps the sweep before it whole.
THEOREM ResultsKept == Spec => []ResultsComplete
  BY Invariance, PTL DEF HarnessInv

\* For any scores a row's ratio is of its greatest score to its least, and its
\* mean divides by a number of scores and lies between those two.
THEOREM StatisticsSound == Spec => []RowsSound
  BY Invariance, PTL DEF HarnessInv

-----------------------------------------------------------------------------
(* A sweep makes the calls of SweepPlan.  The step to see is Bench: the    *)
(* call it makes is the next of the plan, because its number, less one, is *)
(* run - 1 times the sub runs and i - 1 more.                              *)

LEMMA Quotient ==
  ASSUME NEW m \in Nat, NEW q \in Nat \ {0}, NEW a \in 1..m,
         NEW c, c = (q - 1) * m + a
  PROVE  ((c - 1) \div m) + 1 = q /\ ((c - 1) % m) + 1 = a
  <1>1. m \in Nat \ {0} /\ q - 1 \in Nat /\ a - 1 \in 0..(m - 1)
    OBVIOUS
  <1>2. (q - 1) * m \in Nat
    BY <1>1
  <1>3. c - 1 = (q - 1) * m + (a - 1)
    BY <1>2
  <1> DEFINE p == q - 1
             b == a - 1
  <1>4. c - 1 = p * m + b /\ p \in Nat /\ b \in 0..(m - 1)
    BY <1>1, <1>3
  <1> HIDE DEF p, b
  <1>5. (p * m + b) \div m = p /\ (p * m + b) % m = b
    BY ONLY <1>1, <1>4
  <1>6. (c - 1) \div m = p /\ (c - 1) % m = b
    BY <1>4, <1>5
  <1> QED BY <1>6 DEF p, b

LEMMA PlanCall ==
  ASSUME NEW n \in Nat, NEW m \in Nat, NEW q \in Nat \ {0}, NEW a \in 1..m,
         (q - 1) * m + a \in 1..(n * m)
  PROVE  Calls(n, m)[(q - 1) * m + a] = <<q, a>>
  <1> DEFINE c == (q - 1) * m + a
  <1>1. c = (q - 1) * m + a
    OBVIOUS
  <1> HIDE DEF c
  <1>2. ((c - 1) \div m) + 1 = q /\ ((c - 1) % m) + 1 = a
    BY <1>1, Quotient
  <1>3. Calls(n, m)[c] = <<((c - 1) \div m) + 1, ((c - 1) % m) + 1>>
    BY <1>1 DEF Calls
  <1> QED BY <1>1, <1>2, <1>3

\* Every generated sweep is one of those SweepsFit speaks of.
FitInv == Sweeping => Len(runs) * num_sub_runs < Modulus

LEMMA FitStep ==
  ASSUME SweepsFit
  PROVE  TypeOK /\ FitInv /\ [Next]_vars => FitInv'
  <1> SUFFICES ASSUME TypeOK, FitInv, [Next]_vars PROVE FitInv'
    OBVIOUS
  <1>1. CASE Generate
    <2>1. /\ Generated \in Seq(RunType) /\ Generated # Null /\ Matching # {}
          /\ num_sub_runs' = num_sub_runs /\ num_sub_runs \in SubRuns /\ opt_str \in OptStrings
      BY <1>1, GeneratedType DEF Generate, TypeOK, options, OptionsSet
    <2>2. Len(runs') = Len(Generated)
      BY <1>1, <2>1, Runs0 DEF Generate
    <2>3. \E v \in DOMAIN HarnessVariables : Chosen = HarnessVariables[v]
      <3>1. Matching \subseteq Nat /\ Matching \subseteq DOMAIN HarnessVariables
        BY HarnessAssumption DEF Matching
      <3>2. PICK v \in Matching : \A w \in Nat : w < v => w \notin Matching
        BY <2>1, <3>1, LeastNat
      <3>3. \E x \in Matching : \A w \in Matching : x <= w
        BY <3>1, <3>2
      <3> DEFINE u == CHOOSE x \in Matching : \A w \in Matching : x <= w
      <3>4. u \in Matching
        BY <3>3
      <3>5. Chosen = HarnessVariables[u]
        BY DEF Chosen
      <3> HIDE DEF u
      <3> QED BY <3>1, <3>4, <3>5
    <2>4. Len(Generated) * num_sub_runs < Modulus
      BY <2>1, <2>3 DEF SweepsFit, Generated
    <2> QED BY <2>1, <2>2, <2>4 DEF FitInv
  <1>2. CASE Call \/ UnknownVar \/ GenFails \/ Return
    BY <1>2 DEF Call, UnknownVar, GenFails, Return, FitInv, Sweeping
  <1>3. CASE BeginRun
    BY <1>3, BeginParts DEF BeginRun, FitInv, Sweeping, options
  <1>4. CASE Bench
    BY <1>4, BenchParts DEF Bench, FitInv, Sweeping, options
  <1>5. CASE Pause \/ EndRun \/ RunsDone \/ PrintRow \/ UNCHANGED vars
    BY <1>5 DEF Pause, EndRun, RunsDone, PrintRow, vars, FitInv, Sweeping, options
  <1> QED BY <1>1, <1>2, <1>3, <1>4, <1>5 DEF Next, Step, Stopped

\* The mapping of a state inside a sweep.
LEMMA SweepMapped ==
  ASSUME TypeOK, HarnessInv, FitInv, Sweeping
  PROVE  /\ PlannedCalls = Calls(Len(runs), num_sub_runs)
         /\ PlannedCalls \in Seq(Nat \X Nat)
         /\ DOMAIN PlannedCalls = 1..(Len(runs) * num_sub_runs)
         /\ Len(PlannedCalls) = Len(runs) * num_sub_runs
         /\ CallsLogged \in Seq(Nat \X Nat) /\ DOMAIN CallsLogged = 1..Len(log)
         /\ Len(CallsLogged) = Len(log)
         /\ \A c \in 1..Len(log) : CallsLogged[c] = <<log[c].run, log[c].sub>>
         /\ CallsTotal = Len(PlannedCalls) /\ CallsCounted = CallsEnded
         /\ Len(log) = CallsMade
  <1>1. /\ num_sub_runs \in Nat /\ Len(runs) * num_sub_runs \in Nat
        /\ DOMAIN log = 1..Len(log) /\ Len(log) \in Nat
    BY Facts
  <1>2. \A c \in 1..Len(log) : <<log[c].run, log[c].sub>> \in Nat \X Nat
    <2> SUFFICES ASSUME NEW c \in 1..Len(log) PROVE <<log[c].run, log[c].sub>> \in Nat \X Nat
      OBVIOUS
    <2>1. log[c] \in [run : Nat \ {0}, sub : Nat \ {0}, score : Scores \cup {Null}]
      BY <1>1, SeqElement DEF TypeOK
    <2> QED BY <2>1
  <1>3. CallsLogged = [c \in 1..Len(log) |-> <<log[c].run, log[c].sub>>]
    BY <1>1 DEF CallsLogged
  <1>4. /\ CallsLogged \in Seq(Nat \X Nat) /\ DOMAIN CallsLogged = 1..Len(log)
        /\ Len(CallsLogged) = Len(log)
        /\ \A c \in 1..Len(log) : CallsLogged[c] = <<log[c].run, log[c].sub>>
    BY <1>1, <1>2, <1>3
  <1>5. PlannedCalls = Calls(Len(runs), num_sub_runs)
    BY DEF PlannedCalls
  <1> DEFINE n == Len(runs) * num_sub_runs
             m == num_sub_runs
  <1>6. PlannedCalls = [c \in 1..n |-> <<((c - 1) \div m) + 1, ((c - 1) % m) + 1>>]
    BY <1>5 DEF Calls
  <1>7. \A c \in 1..n : <<((c - 1) \div m) + 1, ((c - 1) % m) + 1>> \in Nat \X Nat
    <2> SUFFICES ASSUME NEW c \in 1..n
                 PROVE  ((c - 1) \div m) + 1 \in Nat /\ ((c - 1) % m) + 1 \in Nat
      OBVIOUS
    <2>1. m # 0
      <3>1. m = 0 => n = 0
        BY Facts
      <3> QED BY <1>1, <3>1
    <2>2. m \in Nat \ {0} /\ c - 1 \in Nat
      BY <1>1, <2>1
    <2> HIDE DEF m, n
    <2>3. (c - 1) \div m \in Nat /\ (c - 1) % m \in Nat
      BY ONLY <2>2
    <2> QED BY <2>3
  <1> HIDE DEF m
  <1>8. n \in Nat
    BY <1>1
  <1> HIDE DEF n
  <1>9. /\ PlannedCalls \in Seq(Nat \X Nat) /\ DOMAIN PlannedCalls = 1..n
        /\ Len(PlannedCalls) = n
    BY <1>6, <1>7, <1>8
  <1>10. total_runs = Len(runs) * num_sub_runs /\ sub_run = CallsEnded
    BY DEF FitInv, HarnessInv, ProgressInv
  <1>11. Len(log) = CallsMade
    BY DEF HarnessInv, CursorInv
  <1> QED BY <1>4, <1>5, <1>9, <1>10, <1>11 DEF CallsTotal, CallsCounted, n

LEMMA PlanLength ==
  ASSUME NEW n \in Nat, NEW m \in Nat
  PROVE  Len(Calls(n, m)) = n * m
  <1> DEFINE k == n * m
  <1>1. k \in Nat
    OBVIOUS
  <1>2. Calls(n, m) = [c \in 1..k |-> <<((c - 1) \div m) + 1, ((c - 1) % m) + 1>>]
    BY DEF Calls
  <1> HIDE DEF k
  <1>3. Len(Calls(n, m)) = k
    BY <1>1, <1>2
  <1> QED BY <1>3 DEF k

LEMMA NotMapped ==
  ~Sweeping => /\ PlannedCalls = <<>> /\ CallsLogged = <<>>
               /\ CallsCounted = 0 /\ CallsTotal = 0
  BY DEF PlannedCalls, CallsLogged, CallsCounted, CallsTotal

LEMMA InitMapped == Init => Plan!Idle
  BY NotMapped DEF Init, Plan!Idle, Sweeping

LEMMA StepMapped ==
  /\ TypeOK /\ HarnessInv /\ FitInv
  /\ TypeOK' /\ HarnessInv' /\ FitInv'
  /\ [Next]_vars
  => [Plan!Next]_(Plan!plan_vars)
  <1> SUFFICES ASSUME TypeOK, HarnessInv, FitInv, TypeOK', HarnessInv', FitInv', [Next]_vars
               PROVE  [Plan!Next]_(Plan!plan_vars)
    OBVIOUS
  <1>0. /\ num_sub_runs \in Nat /\ run \in Nat \ {0} /\ i \in Nat \ {0}
        /\ DOMAIN runs = 1..Len(runs) /\ Len(runs) \in Nat
        /\ DOMAIN log = 1..Len(log) /\ Len(log) \in Nat
        /\ (run - 1) * num_sub_runs \in Nat /\ Len(runs) * num_sub_runs \in Nat
        /\ pc = "bench" => CallsMade = (run - 1) * num_sub_runs + i - 1
        /\ pc = "pause" => CallsMade = (run - 1) * num_sub_runs + i
        /\ pc \notin {"bench", "pause"} => CallsMade = (run - 1) * num_sub_runs
    BY Facts
  \* A step that changes neither the plan nor the calls is a stutter.
  <1>1. ASSUME Sweeping' = Sweeping, Len(runs') = Len(runs),
               UNCHANGED <<num_sub_runs, log, sub_run, total_runs>>
        PROVE  UNCHANGED Plan!plan_vars
    BY <1>1 DEF Plan!plan_vars, PlannedCalls, CallsLogged, CallsCounted, CallsTotal, Calls
  <1>2. CASE Call \/ UnknownVar \/ GenFails
    <2>1. ~Sweeping /\ ~Sweeping'
      BY <1>2 DEF Call, UnknownVar, GenFails, Sweeping
    <2>2. UNCHANGED <<PlannedCalls, CallsLogged, CallsCounted, CallsTotal>>
      BY <2>1 DEF PlannedCalls, CallsLogged, CallsCounted, CallsTotal
    <2>3. Sweeping' = Sweeping
      BY <2>1 DEF Sweeping
    <2> QED BY <2>2, <2>3 DEF Plan!plan_vars
  <1>3. CASE Generate
    <2>1. ~Sweeping /\ Sweeping' /\ log' = <<>> /\ sub_run' = 0
      BY <1>3 DEF Generate, Sweeping
    <2>2. CallsLogged' = <<>> /\ CallsCounted' = 0
      BY <2>1 DEF CallsLogged, CallsCounted
    <2>3. CallsTotal' = Len(PlannedCalls')
      <3>1. CallsTotal' = Len(runs') * num_sub_runs'
        BY <2>1 DEF CallsTotal, FitInv, HarnessInv, ProgressInv
      <3>2. PlannedCalls' = Calls(Len(runs'), num_sub_runs')
        BY <2>1 DEF PlannedCalls, Calls
      <3>3. Len(runs') \in Nat /\ num_sub_runs' \in Nat
        <4>1. runs' \in Seq(RunRecord) /\ num_sub_runs' \in SubRuns
          BY DEF TypeOK, OptionsSet
        <4> QED BY <4>1, HarnessAssumption
      <3> QED BY <3>1, <3>2, <3>3, PlanLength
    <2>4. Plan!Begin
      BY <2>1, <2>2, <2>3 DEF Plan!Begin
    <2> QED BY <2>4 DEF Plan!Next
  <1>4. CASE BeginRun
    <2>1. Len(runs') = Len(runs)
      BY <1>4, BeginParts
    <2> QED BY <1>1, <1>4, <2>1 DEF BeginRun, Sweeping, options, estimate, history
  <1>5. CASE Bench
    <2>1. /\ pc = "bench" /\ pc' = "pause" /\ i <= num_sub_runs
          /\ UNCHANGED <<run, i, num_sub_runs, sub_run, total_runs>>
          /\ run \in DOMAIN runs /\ Sweeping /\ Sweeping'
      BY <1>5 DEF Bench, SubRunsLeft, TypeOK, Sweeping, options, estimate
    <2>2. PICK score : log' = Append(log, [run |-> run, sub |-> i, score |-> score])
      BY <1>5 DEF Bench
    <2>3. Len(runs') = Len(runs)
      BY <1>5, BenchParts
    <2>4. PlannedCalls' = PlannedCalls /\ CallsCounted' = CallsCounted
          /\ CallsTotal' = CallsTotal
      BY <2>1, <2>3 DEF PlannedCalls, CallsCounted, CallsTotal, Calls
    <2>5. /\ Len(log) = (run - 1) * num_sub_runs + i - 1
          /\ CallsCounted = Len(log) /\ Len(CallsLogged) = Len(log)
          /\ CallsLogged \in Seq(Nat \X Nat)
          /\ Len(PlannedCalls) = Len(runs) * num_sub_runs
          /\ DOMAIN PlannedCalls = 1..(Len(runs) * num_sub_runs)
          /\ PlannedCalls = Calls(Len(runs), num_sub_runs)
      BY <1>0, <2>1, SweepMapped DEF CallsEnded
    <2>6. Len(log) + 1 <= Len(runs) * num_sub_runs
      <3>1. /\ run * num_sub_runs = (run - 1) * num_sub_runs + num_sub_runs
            /\ run * num_sub_runs <= Len(runs) * num_sub_runs
            /\ run * num_sub_runs \in Nat
        BY <1>0, <2>1, Multiples
      <3> QED BY <1>0, <2>1, <2>5, <3>1
    <2>7. PlannedCalls[Len(log) + 1] = <<run, i>>
      <3>1. Len(log) + 1 = (run - 1) * num_sub_runs + i /\ i \in 1..num_sub_runs
        BY <1>0, <2>1, <2>5
      <3>2. (run - 1) * num_sub_runs + i \in 1..(Len(runs) * num_sub_runs)
        BY <1>0, <2>6, <3>1
      <3>3. Calls(Len(runs), num_sub_runs)[(run - 1) * num_sub_runs + i] = <<run, i>>
        <4>1. /\ Len(runs) \in Nat /\ num_sub_runs \in Nat /\ run \in Nat \ {0}
              /\ i \in 1..num_sub_runs
          BY <1>0, <3>1
        <4> QED BY ONLY <4>1, <3>2, PlanCall, Zenon
      <3> QED BY <2>5, <3>1, <3>3
    <2>8. CallsLogged' = Append(CallsLogged, <<run, i>>)
      <3>1. /\ DOMAIN log' = 1..(Len(log) + 1) /\ Len(log') = Len(log) + 1
            /\ \A c \in 1..Len(log) : log'[c] = log[c]
            /\ log'[Len(log) + 1] = [run |-> run, sub |-> i, score |-> score]
        <4>1. log \in Seq([run : Nat \ {0}, sub : Nat \ {0}, score : Scores \cup {Null}])
          BY DEF TypeOK
        <4> QED BY <2>2, <4>1, AppendParts
      <3>2. CallsLogged' = [c \in 1..(Len(log) + 1) |-> <<log'[c].run, log'[c].sub>>]
        BY <2>1, <3>1 DEF CallsLogged
      <3>3. CallsLogged = [c \in 1..Len(log) |-> <<log[c].run, log[c].sub>>]
        BY <1>0, <2>1 DEF CallsLogged
      <3>4. \A c \in 1..Len(log) : CallsLogged'[c] = CallsLogged[c]
        BY <1>0, <3>1, <3>2, <3>3
      <3>5. CallsLogged'[Len(log) + 1] = <<run, i>> /\ DOMAIN CallsLogged' = 1..(Len(log) + 1)
        BY <1>0, <3>1, <3>2
      <3> DEFINE s == CallsLogged
                 q == CallsLogged'
      <3>6. s \in Seq(Nat \X Nat) /\ Len(s) = Len(log) /\ Len(log) \in Nat
        BY <1>0, <2>5
      <3>7. q = [c \in 1..(Len(s) + 1) |-> IF c <= Len(s) THEN s[c] ELSE <<run, i>>]
        <4>1. q = [c \in 1..(Len(log) + 1) |-> q[c]]
          BY <3>2
        <4>2. ASSUME NEW c \in 1..(Len(log) + 1)
              PROVE  q[c] = IF c <= Len(log) THEN s[c] ELSE <<run, i>>
          <5>1. CASE c <= Len(log)
            <6>1. c \in 1..Len(log)
              BY <1>0, <5>1
            <6>2. q[c] = s[c]
              BY <3>4, <6>1
            <6> QED BY <5>1, <6>2
          <5>2. CASE ~(c <= Len(log))
            <6>1. c = Len(log) + 1
              BY <1>0, <5>2
            <6> QED BY <3>5, <5>2, <6>1
          <5> QED BY <5>1, <5>2
        <4> HIDE DEF q, s
        <4> QED BY <3>6, <4>1, <4>2
      <3> HIDE DEF q, s
      <3>8. q = Append(s, <<run, i>>)
        BY <3>6, <3>7
      <3> QED BY <3>8 DEF q, s
    <2>9. Plan!MakeCall
      <3>1. Sweeping' = Sweeping
        BY <2>1 DEF Sweeping
      <3>2. Len(CallsLogged) < Len(PlannedCalls)
        BY <1>0, <2>5, <2>6
      <3>3. CallsLogged' = Append(CallsLogged, PlannedCalls[Len(CallsLogged) + 1])
        BY <2>5, <2>7, <2>8
      <3> QED BY <2>1, <2>4, <2>5, <3>1, <3>2, <3>3 DEF Plan!MakeCall
    <2> QED BY <2>9 DEF Plan!Next
  <1>6. CASE Pause
    <2>1. /\ pc = "pause" /\ pc' = "bench" /\ i' = i + 1 /\ Sweeping /\ Sweeping'
          /\ UNCHANGED <<run, runs, num_sub_runs, total_runs, log>>
      BY <1>6 DEF Pause, Sweeping, options, estimate
    <2>2. PlannedCalls' = PlannedCalls /\ CallsLogged' = CallsLogged /\ CallsTotal' = CallsTotal
      BY <2>1 DEF PlannedCalls, CallsLogged, CallsTotal, Calls
    <2>3. CallsCounted = Len(log) - 1 /\ Len(CallsLogged) = Len(log)
      BY <2>1, SweepMapped DEF CallsEnded
    <2>4. CallsCounted' = Len(log)
      <3>1. CallsCounted' = CallsEnded' /\ Len(log') = CallsMade'
        BY <2>1 DEF CallsCounted, FitInv, HarnessInv, ProgressInv, CursorInv
      <3>2. CallsEnded' = CallsMade'
        BY <2>1 DEF CallsEnded
      <3> QED BY <2>1, <3>1, <3>2
    <2>5. Plan!CountCall
      BY <1>0, <2>1, <2>2, <2>3, <2>4 DEF Plan!CountCall
    <2> QED BY <2>5 DEF Plan!Next
  <1>7. CASE EndRun \/ RunsDone \/ PrintRow \/ UNCHANGED vars
    BY <1>1, <1>7 DEF EndRun, RunsDone, PrintRow, vars, Sweeping, options, estimate, history
  <1>8. CASE Return
    <2>1. pc = "table" /\ Sweeping /\ ~Sweeping'
      BY <1>8 DEF Return, Sweeping
    <2>2. Len(log) = Len(runs) * num_sub_runs
      BY <1>0, <2>1 DEF HarnessInv, CursorInv
    <2>3. /\ PlannedCalls = Calls(Len(runs), num_sub_runs)
          /\ CallsTotal = Len(runs) * num_sub_runs /\ CallsCounted = Len(log)
      BY <2>1, SweepMapped DEF CallsEnded
    <2>4. CallsLogged = PlannedCalls
      <3>1. \A c \in 1..Len(log) :
              Calls(Len(runs), num_sub_runs)[c] = <<log[c].run, log[c].sub>>
        <4> SUFFICES ASSUME NEW c \in 1..Len(log)
                     PROVE  Calls(Len(runs), num_sub_runs)[c] = <<log[c].run, log[c].sub>>
          OBVIOUS
        <4>1. /\ log[c].sub \in 1..num_sub_runs
              /\ c = (log[c].run - 1) * num_sub_runs + log[c].sub
          BY <1>0, <2>1 DEF HarnessInv, LogInv
        <4>2. log[c].run \in Nat \ {0}
          <5>1. log[c] \in [run : Nat \ {0}, sub : Nat \ {0}, score : Scores \cup {Null}]
            BY <1>0, SeqElement DEF TypeOK
          <5> QED BY <5>1
        <4> DEFINE q == log[c].run
                   a == log[c].sub
        <4>3. /\ q \in Nat \ {0} /\ a \in 1..num_sub_runs /\ c = (q - 1) * num_sub_runs + a
              /\ (q - 1) * num_sub_runs + a \in 1..(Len(runs) * num_sub_runs)
          BY <2>2, <4>1, <4>2
        <4> HIDE DEF q, a
        <4>4. Calls(Len(runs), num_sub_runs)[(q - 1) * num_sub_runs + a] = <<q, a>>
          <5>1. Len(runs) \in Nat /\ num_sub_runs \in Nat
            BY <1>0
          <5> QED BY ONLY <5>1, <4>3, PlanCall, Zenon
        <4> QED BY <4>3, <4>4 DEF q, a
      <3>2. CallsLogged = [c \in 1..Len(log) |-> <<log[c].run, log[c].sub>>]
        BY <1>0, <2>1 DEF CallsLogged
      <3> QED BY <2>2, <2>3, <3>1, <3>2 DEF Calls
    <2>5. ~Sweeping' /\ PlannedCalls' = <<>> /\ CallsLogged' = <<>>
          /\ CallsCounted' = 0 /\ CallsTotal' = 0
      BY <2>1 DEF PlannedCalls, CallsLogged, CallsCounted, CallsTotal
    <2>6. Plan!End
      BY <2>1, <2>2, <2>3, <2>4, <2>5 DEF Plan!End
    <2> QED BY <2>6 DEF Plan!Next
  <1> QED BY <1>2, <1>3, <1>4, <1>5, <1>6, <1>7, <1>8 DEF Next, Step, Stopped

\* Where a uint32_t holds the sub runs of every sweep, the harness makes and
\* counts the calls as SweepPlan has them.
THEOREM FollowsPlan ==
  ASSUME SweepsFit
  PROVE  Spec => Plan!Safety
  <1>1. Init => FitInv
    BY DEF Init, FitInv, Sweeping
  <1>2. TypeOK /\ FitInv /\ [Next]_vars => FitInv'
    BY FitStep
  <1>3. Spec => [](TypeOK /\ HarnessInv)
    BY Invariance
  <1> QED BY <1>1, <1>2, <1>3, InitMapped, StepMapped, PTL DEF Spec, Plan!Safety
=============================================================================
