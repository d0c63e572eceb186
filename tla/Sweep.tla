-------------------------------- MODULE Sweep --------------------------------
(***************************************************************************)
(* The sweep helpers of bench_box/harness/harness_helpers.h and parse.h:   *)
(* how the option string of a harness variable selects the values to run.  *)
(* An option is tried as a range "min-max:stride", then as a list "a,b,c"; *)
(* "" and "auto" select the default sweep.                                 *)
(*                                                                         *)
(* A string is a sequence of tokens: "-", ":", "," and atoms, the          *)
(* characters between them.  Value gives the number of the atoms that      *)
(* parse_int accepts for T; the rest are names or no number of T.          *)
(*                                                                         *)
(* The values of a range of numbers come from the loop of ExpandRange,     *)
(* which this module runs step by step; the loop may also be called alone. *)
(***************************************************************************)
EXTENDS ExpandRange, SequencesExt

CONSTANTS
  Tokens,       \* what strings are made of
  Strings,      \* the option strings tried
  Value,        \* atom -> number
  Null,         \* std::nullopt
  Begin, End,   \* make_numeric_sweep's default range
  ValidValues, DefaultMin, DefaultMax,  \* make_filtered_sweep, numbers
  ValidNames, NameMin, NameMax          \* make_filtered_sweep, strings

Numeral == 0..(Modulus - 1)  \* the values of T
Comma   == ","
Signs   == {"-", ":", Comma}

\* The numbers are of the type T, those of the array in ascending order, like
\* the ones the tests pass; names are atoms, each once in its array.
ASSUME SweepAssumption ==
  /\ Signs \subseteq Tokens /\ Strings \subseteq Seq(Tokens)
  /\ DOMAIN Value \subseteq Tokens \ Signs
  /\ \A a \in DOMAIN Value : Value[a] \in Numeral
  /\ {Begin, End} \subseteq Numeral /\ Begin < End
  /\ ValidValues \in Seq(Numeral)
  /\ \A m, n \in DOMAIN ValidValues : m < n => ValidValues[m] < ValidValues[n]
  /\ ValidNames \in Seq(Tokens \ Signs) /\ IsInjective(ValidNames)
  /\ {DefaultMin, DefaultMax} \subseteq Range(ValidValues)
  /\ {NameMin, NameMax} \subseteq Range(ValidNames)

ASSUME NullAssumption ==
  /\ Null \notin Nat /\ Null \notin Tokens
  /\ Null \notin Seq(Nat) /\ Null \notin Seq(Tokens)
  /\ Null \notin [min : Nat, max : Nat, stride : Nat]

VARIABLES kind, opt, result, stage

sweepVars == <<kind, opt, result, stage>>

-----------------------------------------------------------------------------
(* Parsing.                                                                *)

\* find: the place of the first token tok, one past the end if there is none.
Find(s, tok) == Min({Len(s) + 1} \cup {n \in DOMAIN s : s[n] = tok})

Before(s, n) == SubSeq(s, 1, n - 1)
After(s, n)  == SubSeq(s, n + 1, Len(s))

\* parse_int: the whole string is one number of the type, or nothing.
ParseInt(s) ==
  IF Len(s) = 1 /\ s[1] \in DOMAIN Value THEN Value[s[1]] ELSE Null

ParseMinMaxStride(s) ==
  LET ends == Before(s, Find(s, ":"))
      dash == Find(ends, "-")
  IN  [min    |-> Before(ends, dash),
       max    |-> IF dash > Len(ends) THEN ends ELSE After(ends, dash),
       stride |-> After(s, Find(s, ":"))]

\* A part left empty keeps its default.
ValueOr(part, default) == IF part = <<>> THEN default ELSE ParseInt(part)

IsAuto(s) == s = <<>> \/ s = <<"auto">>

ParseRange(s, min, max, stride) ==
  LET parts == ParseMinMaxStride(s)
      r     == [min    |-> ValueOr(parts.min, min),
                max    |-> ValueOr(parts.max, max),
                stride |-> ValueOr(parts.stride, stride)]
  IN  IF IsAuto(s) THEN [min |-> min, max |-> max, stride |-> stride]
      ELSE IF Null \in {r.min, r.max, r.stride} \/ r.min > r.max \/ r.stride = 0
           THEN Null ELSE r

\* The progression from r.min to r.max.
Expanded(r) ==
  [n \in 1..((r.max - r.min) \div r.stride + 1) |-> r.min + (n - 1) * r.stride]

\* The numbers of a set, the smaller before the greater.
Ascending(numbers) ==
  [n \in 1..Cardinality(numbers) |->
     CHOOSE v \in numbers : Cardinality({w \in numbers : w < v}) = n - 1]

\* parse_list: the strings between the commas, which may be empty.
Ends(s) == {0, Len(s) + 1} \cup {n \in DOMAIN s : s[n] = Comma}

ParseList(s) ==
  LET ends == Ascending(Ends(s))
  IN  [n \in 1..(Len(ends) - 1) |-> SubSeq(s, ends[n] + 1, ends[n + 1] - 1)]

-----------------------------------------------------------------------------
(* Filtering the values of an array.                                       *)

\* Fault: the end is left out.
SliceToEnd(values, lo, hi) ==
  IF {lo, hi} \subseteq Range(values) /\ Find(values, lo) <= Find(values, hi)
  THEN SubSeq(values, Find(values, lo), Find(values, hi) - 1) ELSE Null
\* values[Find(lo)..Find(hi)], if both are there and in this order.
Slice(values, lo, hi) ==
  IF {lo, hi} \subseteq Range(values) /\ Find(values, lo) <= Find(values, hi)
  THEN SubSeq(values, Find(values, lo), Find(values, hi)) ELSE Null

OnStride(v, r) == ((v - r.min) % Modulus) % r.stride = 0

FilterValues(s) ==
  LET r     == ParseRange(s, DefaultMin, DefaultMax, 1)
      slice == IF r = Null THEN Null ELSE Slice(ValidValues, r.min, r.max)
      at    == Ascending({n \in DOMAIN slice : OnStride(slice[n], r)})
  IN  IF slice = Null THEN Null ELSE [n \in DOMAIN at |-> slice[at[n]]]

\* A name is one atom; a longer string is no name.
NameOr(part, default) ==
  IF part = <<>> THEN default ELSE IF Len(part) = 1 THEN part[1] ELSE Null

FilterNames(s) ==
  LET parts == ParseMinMaxStride(s)
      names == Slice(ValidNames, NameOr(parts.min, NameMin),
                                 NameOr(parts.max, NameMax))
  IN  IF parts.stride # <<>> THEN Null ELSE names

-----------------------------------------------------------------------------
(* The other sweeps, as the values the runs are created for.               *)

\* A list of which every element is accepted, or nothing.
\* Fault: what is not accepted is left out.
OnlyAccepted(values) == SelectSeq(values, LAMBDA v : v # Null)
AllOrNull(values) == IF Null \in Range(values) THEN Null ELSE values

ValidOrNull(v, valid) == IF v \in Range(valid) THEN v ELSE Null

\* The option as a list of numbers, of values and of names.
Numbers(s) == LET list == ParseList(s)
              IN  AllOrNull([n \in DOMAIN list |-> ParseInt(list[n])])
Values(s) == LET list == ParseList(s)
             IN  AllOrNull([n \in DOMAIN list |->
                   ValidOrNull(ParseInt(list[n]), ValidValues)])
Names(s) == LET list == ParseList(s)
            IN  AllOrNull([n \in DOMAIN list |->
                  ValidOrNull(NameOr(list[n], Null), ValidNames)])

FilteredSweep(s) ==
  IF IsAuto(s) THEN ValidValues
  ELSE IF FilterValues(s) # Null /\ FilterValues(s) # <<>> THEN FilterValues(s)
  ELSE Values(s)

NameSweep(s) ==
  IF IsAuto(s) THEN ValidNames
  ELSE IF FilterNames(s) # Null THEN FilterNames(s)
  ELSE Names(s)

\* The loop before it is called.
LoopIdle ==
  /\ range = [min |-> 0, max |-> 0, stride |-> 1]
  /\ val = 0 /\ out = <<>> /\ pc = "loop"

SweepInit ==
  /\ result = Null
  /\ \/ /\ kind \in {"numeric", "filtered", "names"} /\ opt \in Strings
        /\ stage = "called" /\ LoopIdle
     \/ kind = "range" /\ opt = <<>> /\ stage = "expanding" /\ Init

\* make_filtered_sweep, of numbers and of names.
MakeFiltered ==
  /\ stage = "called" /\ kind \in {"filtered", "names"}
  /\ result' = IF kind = "filtered" THEN FilteredSweep(opt) ELSE NameSweep(opt)
  /\ stage' = "returned"
  /\ UNCHANGED <<kind, opt, vars>>

\* make_numeric_sweep: the default values, a range to expand, or a list.
Option == ParseRange(opt, Begin, End, 1)

MakeDefault ==
  /\ stage = "called" /\ kind = "numeric" /\ IsAuto(opt)
  /\ result' = [n \in 1..(End - Begin) |-> Begin + n - 1]
  /\ stage' = "returned"
  /\ UNCHANGED <<kind, opt, vars>>

MakeRange ==
  /\ stage = "called" /\ kind = "numeric" /\ ~IsAuto(opt) /\ Option # Null
  /\ range' = Option /\ val' = Option.min
  /\ stage' = "expanding"
  /\ UNCHANGED <<kind, opt, result, out, pc>>

MakeList ==
  /\ stage = "called" /\ kind = "numeric" /\ ~IsAuto(opt) /\ Option = Null
  /\ result' = Numbers(opt) /\ stage' = "returned"
  /\ UNCHANGED <<kind, opt, vars>>

Expand == /\ stage = "expanding" /\ (Exit \/ Stop \/ Iterate)
          /\ UNCHANGED sweepVars

\* expand_range returns; an empty range of an option is tried as a list.
RangeExpanded ==
  /\ stage = "expanding" /\ pc = "done"
  /\ result' = IF kind = "range" \/ out # <<>> THEN out ELSE Numbers(opt)
  /\ stage' = "returned"
  /\ UNCHANGED <<kind, opt, vars>>

SweepReturned == stage = "returned" /\ UNCHANGED <<sweepVars, vars>>

SweepNext == \/ MakeFiltered \/ MakeDefault \/ MakeRange \/ MakeList
             \/ Expand \/ RangeExpanded \/ SweepReturned

SweepSpec == SweepInit /\ [][SweepNext]_<<sweepVars, vars>>

-----------------------------------------------------------------------------
(* Properties: what an option means, by its grammar and not by its parser. *)

Parts(s, atoms) == {<<>>} \cup {<<a>> : a \in atoms \cap Range(s)}

\* Readings of an option as a range: the ways to write it as min-max:stride
\* with any part left out, or as a single value with a stride.
Readings(s, atoms) ==
  {p \in [min : Parts(s, atoms), dash : {<<>>, <<"-">>}, max : Parts(s, atoms),
          colon : {<<>>, <<":">>}, stride : Parts(s, atoms)] :
     /\ p.dash = <<>> => p.max = <<>>
     /\ p.colon = <<>> => p.stride = <<>>
     /\ s = p.min \o p.dash \o p.max \o p.colon \o p.stride}

\* Where a range ends: a single value is a range of its own.
Upper(p) == IF p.dash = <<>> THEN p.min ELSE p.max

MeansValue(part, default) == IF part = <<>> THEN default ELSE Value[part[1]]
MeansName(part, default)  == IF part = <<>> THEN default ELSE part[1]

\* The values an option selects from the numbers in Domain when read as a
\* range with the given defaults.
RangeMeaning(s, domain, min, max) ==
  UNION {LET lo == MeansValue(p.min, min)
             hi == MeansValue(Upper(p), max)
             st == MeansValue(p.stride, 1)
         IN  {v \in domain : st > 0 /\ lo <= v /\ v <= hi
                             /\ {lo, hi} \subseteq domain
                             /\ \E n \in 0..v : v = lo + n * st} :
         p \in Readings(s, DOMAIN Value)}

\* s is the list of the atoms: they and the commas between them.
IsListOf(s, atoms) ==
  /\ Len(s) = 2 * Len(atoms) - 1 /\ atoms # <<>>
  /\ \A n \in DOMAIN atoms : s[2 * n - 1] = atoms[n]
  /\ \A n \in 1..(Len(atoms) - 1) : s[2 * n] = Comma

Atoms(s) == [n \in 1..((Len(s) + 1) \div 2) |-> s[2 * n - 1]]

\* The numbers a list option selects, Null if it is no list of values.
ListMeaning(s, domain) ==
  IF /\ IsListOf(s, Atoms(s)) /\ Range(Atoms(s)) \subseteq DOMAIN Value
     /\ {Value[a] : a \in Range(Atoms(s))} \subseteq domain
  THEN [n \in DOMAIN Atoms(s) |-> Value[Atoms(s)[n]]] ELSE Null

Defaults == {<<>>, <<"auto">>}

NumberMeaning(s, domain, min, max) ==
  IF RangeMeaning(s, domain, min, max) # {}
  THEN Ascending(RangeMeaning(s, domain, min, max))
  ELSE ListMeaning(s, domain)

\* An option other than "" and "auto" gives just the values it names, a range
\* in ascending order with both ends included, a list in its own order, and
\* nothing when any part of it is wrong: it never gives the default sweep by
\* mistake, nor a part of what was asked; "" and "auto" give the whole
\* default sweep (make_numeric_sweep).
NumericAsAsked ==
  stage = "returned" /\ kind = "numeric" =>
    result = IF opt \in Defaults THEN Ascending(Begin..(End - 1))
             ELSE NumberMeaning(opt, Numeral, Begin, End)

\* The stretches of the array an option reads as a range of names.
NameRanges(s) ==
  UNION {LET lo == MeansName(p.min, NameMin)
             hi == MeansName(Upper(p), NameMax)
         IN  {r \in SubSeqs(ValidNames) :
                r # <<>> /\ r[1] = lo /\ Last(r) = hi /\ p.stride = <<>>} :
         p \in Readings(s, Range(ValidNames))}

IsNameList(s) ==
  IsListOf(s, Atoms(s)) /\ Range(Atoms(s)) \subseteq Range(ValidNames)

\* The same of make_filtered_sweep on an array, sorted if of numbers: only
\* values of the array, its ends included.  Of names, a range gives a stretch of
\* the array in the array's order and takes no stride, a list gives its own
\* names, anything else nothing; "" and "auto" give the whole array.
FilteredAsAsked ==
  stage = "returned" /\ kind \in {"filtered", "names"} =>
    \/ opt \in Defaults /\ result = IF kind = "names" THEN ValidNames
                                     ELSE Ascending(Range(ValidValues))
    \/ /\ opt \notin Defaults /\ kind = "filtered"
       /\ result = NumberMeaning(opt, Range(ValidValues), DefaultMin, DefaultMax)
    \/ /\ opt \notin Defaults /\ kind = "names" /\ NameRanges(opt) # {}
       /\ result \in NameRanges(opt)
    \/ /\ opt \notin Defaults /\ kind = "names" /\ NameRanges(opt) = {}
       /\ result = IF IsNameList(opt) THEN Atoms(opt) ELSE Null

=============================================================================
