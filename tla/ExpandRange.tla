----------------------------- MODULE ExpandRange -----------------------------
(***************************************************************************)
(* expand_range of bench_box/harness/harness_helpers.h: the values min,    *)
(* min + stride, ... up to max, in an unsigned type whose arithmetic wraps *)
(* at Modulus.  One step is one iteration of the loop.                     *)
(***************************************************************************)
EXTENDS Naturals, Sequences

CONSTANTS Modulus,  \* 2^w for a type T of w bits
          Ranges    \* the ranges to expand

\* The stride is not zero: parse_range rejects 0, and the sweeps' default
\* stride is 1.
ASSUME RangesAssumption ==
  /\ Modulus \in Nat \ {0}
  /\ Ranges \subseteq [min : 0..(Modulus - 1), max : 0..(Modulus - 1),
                       stride : 1..(Modulus - 1)]

VARIABLES range, val, out, pc

vars == <<range, val, out, pc>>

\* val += stride
Plus(a, b) == (a + b) % Modulus

\* The next value would be beyond max.  Fault: no such test.
NeverPasses == FALSE
WouldPass == range.stride > range.max - val

Init == range \in Ranges /\ val = range.min /\ out = <<>> /\ pc = "loop"

\* The loop's test fails before the first iteration, or after a val += stride.
Exit ==
  /\ pc = "loop" /\ val > range.max
  /\ pc' = "done"
  /\ UNCHANGED <<range, val, out>>

\* The next step would pass max, and might wrap: stop instead.
Stop ==
  /\ pc = "loop" /\ val <= range.max
  /\ WouldPass
  /\ out' = Append(out, val) /\ pc' = "done"
  /\ UNCHANGED <<range, val>>

Iterate ==
  /\ pc = "loop" /\ val <= range.max
  /\ ~WouldPass
  /\ out' = Append(out, val) /\ val' = Plus(val, range.stride)
  /\ UNCHANGED <<range, pc>>

Returned == pc = "done" /\ UNCHANGED vars

Next == Exit \/ Stop \/ Iterate \/ Returned

Spec == Init /\ [][Next]_vars

-----------------------------------------------------------------------------
\* The loop variable and the values so far are of the unsigned type, and the
\* loop goes on only from the next value of the progression.
TypeOK ==
  /\ range \in [min : 0..(Modulus - 1), max : 0..(Modulus - 1),
                stride : 1..(Modulus - 1)]
  /\ val \in 0..(Modulus - 1)
  /\ out \in Seq(0..(Modulus - 1))
  /\ pc \in {"loop", "done"}

\* The result is exactly the progression from min by stride: no value is
\* skipped, repeated or beyond max, and the first one left out is beyond max,
\* also when adding the stride once more would wrap around.
Progression ==
  /\ \A n \in DOMAIN out :
       out[n] = range.min + (n - 1) * range.stride /\ out[n] <= range.max
  /\ pc = "done" => range.min + Len(out) * range.stride > range.max

\* val += stride never wraps around to a smaller value.
NeverWraps == [][val' >= val]_vars

\* The inductive invariant of the proofs.
Inv ==
  /\ TypeOK /\ Progression
  /\ pc = "loop" => val = range.min + Len(out) * range.stride

=============================================================================
