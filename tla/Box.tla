--------------------------------- MODULE Box ---------------------------------
(***************************************************************************)
(* What a program is told of the box it runs on: the processor's features  *)
(* and clock (Cpuid), the timers (TimerSource), and the memory there is,   *)
(* from get_available_mem (memory/memory.cpp), shown by format_bytes.      *)
(*                                                                         *)
(* External: machine.meminfo, the lines of /proc/meminfo (no file is no    *)
(* line), each with its label and its number, which may be missing, and    *)
(* machine.avail_phys, what GlobalMemoryStatusEx tells.                    *)
(***************************************************************************)
EXTENDS TimerSource, Format, Sequences, FiniteSetsExt

CONSTANT Null  \* what is missing

\* n < 2^64, in parts that TLC can compute.
IsUint64(n) == n \in Nat /\ (n \div 1073741824) \div 1024 < 16777216

\* There is less memory than a uint64_t can count in bytes.
ASSUME MemoryAssumption ==
  \A m \in Machines :
    /\ m.meminfo \in Seq([label : STRING, kb : Nat \cup {Null}])
    /\ \A l \in DOMAIN m.meminfo :
         m.meminfo[l].kb # Null => IsUint64(m.meminfo[l].kb * 1024)
    /\ m.avail_phys # Null => IsUint64(m.avail_phys)

VARIABLES available, shown  \* the bytes told, and as shown

vars == <<cpu, timers, available, shown>>

\* The number of the first line of that label; 0 without one or without digits.
FirstKb(label) ==
  LET there == {l \in DOMAIN machine.meminfo : machine.meminfo[l].label = label}
      kb    == machine.meminfo[Min(there)].kb
  IN  IF there = {} THEN 0 ELSE IF kb = Null THEN 0 ELSE kb

AvailableMem ==
  CASE platform = "linux"   -> FirstKb("MemAvailable") * 1024
    [] platform = "windows" -> IF machine.avail_phys = Null THEN 0 ELSE machine.avail_phys
    [] platform = "other"   -> 0

ShowMemory ==
  /\ available' = AvailableMem
  /\ shown' = FormatBytes(available')
  /\ UNCHANGED <<cpu, timers>>

-----------------------------------------------------------------------------
Init == CpuidInit /\ TimerInit /\ available = 0 /\ shown = InUnits(0, 1024)

TimerStep == /\ CreateFastTimer \/ CreateCoarseTimer
             /\ UNCHANGED <<cpu, available, shown>>

Next == \/ TimerStep
        \/ AskFeatures /\ UNCHANGED <<timers, available, shown>>
        \/ ShowMemory

Spec == Init /\ [][Next]_vars

-----------------------------------------------------------------------------
\* The amount shown is the memory there is to within half of its last digit,
\* in a unit it fills and whose next it does not: 1.00 at least, and 1024.00
\* at most, which what lies just under the next unit is rounded up to.
MemoryShown ==
  LET by    == Scale(1024)[shown.unit]
      error == shown.hundredths * by - 100 * available
  IN  /\ -by <= 2 * error /\ 2 * error <= by
      /\ shown.unit = 0 => error = 0 /\ available < 1024
      /\ shown.unit > 0 => 100 <= shown.hundredths /\ shown.hundredths <= 102400

=============================================================================
