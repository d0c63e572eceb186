------------------------------- MODULE MCSweep -------------------------------
(* Sweep on every option of up to five tokens in which no two atoms stand  *)
(* side by side (they would be one), with numbers of no, one and two valid *)
(* values between them, zero and an atom that is neither number nor name;  *)
(* expand_range alone on every range of a 4-bit type, reversed ones too.   *)
EXTENDS Sweep

MCValue == [a \in {"0", "2", "4", "5", "7"} |->
              CASE a = "0" -> 0 [] a = "2" -> 2 [] a = "4" -> 4
                [] a = "5" -> 5 [] a = "7" -> 7]
MCAtoms == DOMAIN MCValue \cup {"x", "auto"}
MCTokens == MCAtoms \cup Signs

Apart(s) == \A n \in 1..(Len(s) - 1) : s[n] \in Signs \/ s[n + 1] \in Signs

MCStrings == {s \in UNION {[1..n -> MCTokens] : n \in 0..5} : Apart(s)}

MCModulus == 16
MCRanges  == [min : 0..15, max : 0..15, stride : 1..15]

MCValid == <<4, 5, 7, 11>>
MCNames == <<"7", "2", "x", "4">>
=============================================================================
