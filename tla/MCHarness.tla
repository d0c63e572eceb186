------------------------------ MODULE MCHarness ------------------------------
(* Harness with two variables, one of them listed twice: the second "size" *)
(* is never reached.  The option "bad" is one gen rejects.                 *)
EXTENDS Harness

R(n, est) == [name |-> n, est_runtime_s |-> est]

SizeVar == [name |-> "size", gen |-> [o \in {"auto", "bad"} |->
              IF o = "bad" THEN Null ELSE <<R("4", 1), R("5", 2)>>]]
Shadowed == [name |-> "size", gen |-> [o \in {"auto", "bad"} |-> <<R("9", 9)>>]]
NoneVar == [name |-> "none", gen |-> [o \in {"auto", "bad"} |->
              IF o = "bad" THEN <<>> ELSE <<R("none", 1)>>]]

MCVariables == <<SizeVar, NoneVar, Shadowed>>
MCVarNames  == {"size", "none", "typo"}
MCOptions   == {"auto", "bad"}
MCSubRuns   == {0, 1, 2}
MCWaits     == {500, 2000}
OneWait     == {2000}
\* 1 is too small for a ratio, and two of it are enough for a mean.
MCScores    == {-1, 0, 1, 3}
=============================================================================
