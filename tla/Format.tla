-------------------------------- MODULE Format --------------------------------
(***************************************************************************)
(* bench_box/format.cpp: a count or a number of bytes in the unit that     *)
(* suits it, and a time in hours, minutes and seconds.  A double is taken  *)
(* for the rational number it stands for; a number is shown as what is     *)
(* printed of it, in hundredths where decimals are printed.                *)
(***************************************************************************)
EXTENDS Integers

TopUnit == 6  \* the last of "", K, M, G, T, P, E

\* The units of a base, each that many times the one before.
Scale(base) ==
  LET scale[u \in 0..TopUnit] == IF u = 0 THEN 1 ELSE base * scale[u - 1]
  IN  scale

\* The unit left by the loop that divides by base while it can.
\* Fault: a number that just fills a unit stays in the one below.
UnitLate(val, base) ==
  LET unit[u \in 0..TopUnit] ==
        IF u < TopUnit /\ val > Scale(base)[u + 1] THEN unit[u + 1] ELSE u
  IN  unit[0]
UnitOf(val, base) ==
  LET unit[u \in 0..TopUnit] ==
        IF u < TopUnit /\ val >= Scale(base)[u + 1] THEN unit[u + 1] ELSE u
  IN  unit[0]

\* {:.2f} of val / by, in hundredths: to the nearest, a tie to the even one.
ToHundredths(val, by) ==
  LET low  == (100 * val) \div by
      rest == (100 * val) % by
  IN  IF 2 * rest > by \/ (2 * rest = by /\ low % 2 = 1) THEN low + 1 ELSE low

InUnits(val, base) ==
  LET unit == UnitOf(val, base)
  IN  [unit |-> unit,
       hundredths |-> IF unit = 0 THEN 100 * val ELSE ToHundredths(val, Scale(base)[unit])]

FormatUint64(val) == InUnits(val, 1000)
FormatBytes(bytes) == InUnits(bytes, 1024)

\* format_hms_flex: leading parts that are 0 are left out.
FormatHms(total_seconds) ==
  LET hours   == total_seconds \div 3600
      minutes == (total_seconds % 3600) \div 60
      seconds == total_seconds % 60
  IN  CASE hours > 0 -> <<hours, minutes, seconds>>
        [] hours = 0 /\ minutes > 0 -> <<minutes, seconds>>
        [] OTHER -> <<seconds>>

=============================================================================
