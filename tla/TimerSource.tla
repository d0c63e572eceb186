------------------------------ MODULE TimerSource ------------------------------
(***************************************************************************)
(* What bench_box/timer.cpp makes of the clocks it finds: the source of    *)
(* the fast timer, from the name of the kernel's clock source (Linux) or   *)
(* from the frequency of the performance counter (Windows), the frequency  *)
(* of the time stamp counter, from the CPUID leaves (Cpuid), and the       *)
(* resolution under the coarse timer.                                      *)
(*                                                                         *)
(* A machine is what CPUID and the system say of it; tsc_hz is how fast    *)
(* its counter really runs, which nothing reads.  A resolution that        *)
(* clock_getres will not tell is 0.                                        *)
(***************************************************************************)
EXTENDS Cpuid

Platforms == {"linux", "windows", "other"}

\* No clock ticks slower than once a second, and the resolution Windows tells
\* is not 0.
ASSUME ClockAssumption ==
  \A m \in Machines :
    /\ \A ns \in {m.raw_ns, m.coarse_ns} : ns \in Nat /\ ns <= 1000000000
    /\ m.nt_tells => m.nt_resolution \in Nat \ {0}

VARIABLES platform, fast, coarse

timers == <<platform, fast, coarse>>

TscSource == IF TscClockInfo.is_invariant_tsc THEN "INVARIANT_TSC" ELSE "TSC"

-----------------------------------------------------------------------------
(* The source.                                                             *)

PitFrequency     == 1193182
RtcFrequency     == 32000000
AcpiKhz          == 3579
HpetMinThreshold == 10000000
HpetMaxThreshold == 100000000
TypicalHpet(hz) == 143100000 < hz /\ hz < 143300000

\* detect_timer_source_from_freq
SourceFromFrequency(hz) ==
  IF ~machine.x86 THEN "UNKNOWN" ELSE
  CASE hz = PitFrequency -> "PIT"
    [] hz = RtcFrequency -> "RTC"
    [] hz # PitFrequency /\ hz \div 1000 = AcpiKhz -> "ACPI_PM"
    [] TypicalHpet(hz) -> "HPET"
    [] hz >= HpetMaxThreshold /\ ~TypicalHpet(hz) -> "TSC"
    [] hz = HpetMinThreshold -> TscSource
    [] HpetMinThreshold < hz /\ hz < HpetMaxThreshold /\ hz # RtcFrequency ->
         IF TscHz = 0 THEN "UNKNOWN"
         ELSE IF TscHz = hz THEN TscSource ELSE "HPET"
    [] OTHER -> "UNKNOWN"

\* detect_linux_underlying_clock
SourceFromName(name) ==
  IF ~machine.x86 THEN "UNKNOWN" ELSE
  CASE name = "tsc"     -> TscSource
    [] name = "hpet"    -> "HPET"
    [] name = "acpi_pm" -> "ACPI_PM"
    [] name = "pit"     -> "PIT"
    [] OTHER            -> "UNKNOWN"   \* another clock, or no such file

\* get_linux_clk_frequency_for: a clock without a resolution ticks every ms.
ClockFrequency(ns) == IF ns > 0 THEN 1000000000 \div ns ELSE 1000

\* get_nt_timer_resolution, in units of 100 ns, and its fallback where there
\* is no NtQueryTimerResolution or it fails.  Its answer is not checked.
NtFrequency ==
  IF machine.nt_tells THEN 10000000 \div machine.nt_resolution
  ELSE IF machine.nt_increment > 0 THEN 10000000 \div machine.nt_increment
  ELSE 0

\* Is the time stamp counter the clock, and its frequency known?
\* Fault: the counter's frequency for every clock source.
TscKnown(source) == TscHz # 0
TscUnderneath(source) ==
  source \in {"TSC", "INVARIANT_TSC"} /\ TscHz # 0

NoTimer == [report_frequency |-> 0, underlying_frequency |-> 0,
            source |-> "UNKNOWN"]

\* The branches of create_fast_timer.
LinuxFast ==
  LET source == SourceFromName(machine.clocksource)
  IN  [report_frequency |-> 1000000000, source |-> source,
       underlying_frequency |->
         IF TscUnderneath(source) THEN TscHz ELSE ClockFrequency(machine.raw_ns)]

WindowsFast ==
  [report_frequency |-> machine.counter_hz,
   underlying_frequency |-> machine.counter_hz,
   source |-> SourceFromFrequency(machine.counter_hz)]

OtherFast == [NoTimer EXCEPT !.report_frequency = 1000000000]

TimerInit == platform \in Platforms /\ fast = NoTimer /\ coarse = NoTimer

CreateFastTimer ==
  /\ fast' = CASE platform = "linux"   -> LinuxFast
              [] platform = "windows" -> WindowsFast
              [] platform = "other"   -> OtherFast
  /\ UNCHANGED <<platform, coarse>>

CreateCoarseTimer ==
  /\ coarse' = [report_frequency |-> 1000, source |-> "UNKNOWN",
                underlying_frequency |->
                  CASE platform = "linux"   -> ClockFrequency(machine.coarse_ns)
                    [] platform = "windows" -> NtFrequency
                    [] platform = "other"   -> 0]
  /\ UNCHANGED <<platform, fast>>

-----------------------------------------------------------------------------
(* Properties.                                                             *)

\* Where the kernel runs on another clock than the time stamp counter, the
\* underlying frequency is that clock's and not the counter's, though CPUID
\* would give one; and no timer made on Linux has a frequency of 0, by which
\* a caller would divide.
UnderlyingIsTheClocks ==
  platform = "linux" =>
    /\ fast # NoTimer /\ machine.clocksource # "tsc" =>
         fast.underlying_frequency = ClockFrequency(machine.raw_ns)
    /\ fast # NoTimer => fast.underlying_frequency > 0
    /\ coarse # NoTimer => coarse.underlying_frequency > 0

\* "way too high to be hpet -> TSC" (timer.cpp:44): a counter of 100 MHz or
\* more is not taken for an HPET.
TooHighForHpet ==
  fast # NoTimer /\ platform = "windows" /\ fast.report_frequency >= HpetMaxThreshold
    => fast.source # "HPET"

\* tsc_frequency_hz (cpuid.h:88) is in Hz: where the timer on a time stamp
\* counter has its frequency from CPUID, it is the counter's, to the MHz.
TscFrequencyInHz ==
  fast # NoTimer /\ platform = "linux" /\ TscUnderneath(fast.source) =>
    fast.underlying_frequency \div 1000000 = machine.tsc_hz \div 1000000

=============================================================================
