-------------------------------- MODULE Timer --------------------------------
(***************************************************************************)
(* Measuring with a timer of bench_box/timer.cpp: a program asks whether   *)
(* the counter will overflow, reads it at the start and after every lap,   *)
(* and turns differences of readings into durations.                       *)
(*                                                                         *)
(* External: the clock.  Its count since boot is exact here; a reading of  *)
(* it is a signed integer of the type, which has wrapped around when the   *)
(* count is beyond the largest.  (Signed overflow is undefined in C++:     *)
(* the properties are about what comes before.)                            *)
(***************************************************************************)
EXTENDS Integers, Sequences

CONSTANTS
  Top,          \* the largest int64_t
  Frequencies,  \* report_frequency: ticks per second; 0 for an empty timer
  Units,        \* units per second of the Duration asked for
  Windows,      \* seconds asked of will_overflow_within
  Null,
  MaxTime,      \* bound on the count
  MaxMarks      \* bound on the readings of one measurement

ASSUME TimerAssumption ==
  /\ Top \in Nat \ {0} /\ MaxTime \in Nat /\ MaxMarks \in Nat \ {0}
  /\ Frequencies \subseteq Nat /\ Units \subseteq Nat \ {0}
  /\ Windows \subseteq Nat /\ Null \notin [at : Nat, seconds : Nat, answer : BOOLEAN]

VARIABLES
  frequency, units,  \* the timer and the unit in use
  count,             \* exact ticks since boot
  asked,             \* the last question about overflow
  marks,             \* history: the exact counts at the readings
  readings,          \* start, and after every lap
  laps, total        \* durations of the laps, and from start to the last

vars == <<frequency, units, count, asked, marks, readings, laps, total>>

-----------------------------------------------------------------------------
Modulus == 2 * (Top + 1)
Wrap(n) == ((n + Top + 1) % Modulus) - (Top + 1)

\* Division and remainder of C++ truncate towards zero.
Quotient(a, b) == IF a >= 0 THEN a \div b ELSE -((-a) \div b)
Remainder(a, b) == a - b * Quotient(a, b)

\* ticks_to_duration.  Faults: ticks times units first; a result too wide for
\* the type.
MultipliedFirst(start, end) ==
  IF frequency <= 0 THEN 0
  ELSE Quotient(Wrap(Wrap(end - start) * units), frequency)
TooWide(start, end) ==
  IF frequency <= 0 THEN 0 ELSE Quotient((end - start) * units, frequency)
TicksToDuration(start, end) ==
  LET delta == Wrap(end - start)
  IN  IF frequency <= 0 THEN 0
      ELSE Wrap(Wrap(Quotient(delta, frequency) * units)
                + Quotient(Wrap(Remainder(delta, frequency) * units), frequency))

\* Fault: as if the counter were at its start.
SecondsFromStart(now) == IF frequency <= 0 THEN Top ELSE Quotient(Top, frequency)
SecondsUntilOverflow(now) ==
  IF frequency <= 0 THEN Top ELSE Quotient(Wrap(Top - now), frequency)

WillOverflowWithin(now, seconds) == SecondsUntilOverflow(now) <= seconds

Now == Wrap(count)

-----------------------------------------------------------------------------
Init ==
  /\ frequency \in Frequencies /\ units \in Units
  /\ count \in 0..Top
  /\ asked = Null /\ marks = <<>> /\ readings = <<>> /\ laps = <<>> /\ total = 0

\* Time goes by.
Tick ==
  /\ count < MaxTime /\ count' = count + 1
  /\ UNCHANGED <<frequency, units, asked, marks, readings, laps, total>>

Ask ==
  /\ \E s \in Windows :
       asked' = [at |-> count, seconds |-> s,
                 answer |-> WillOverflowWithin(Now, s)]
  /\ UNCHANGED <<frequency, units, count, marks, readings, laps, total>>

Start ==
  /\ marks' = <<count>> /\ readings' = <<Now>> /\ laps' = <<>> /\ total' = 0
  /\ UNCHANGED <<frequency, units, count, asked>>

Lap ==
  /\ Len(readings) \in 1..(MaxMarks - 1)
  /\ marks' = Append(marks, count) /\ readings' = Append(readings, Now)
  /\ laps' = Append(laps, TicksToDuration(readings[Len(readings)], Now))
  /\ total' = TicksToDuration(readings[1], Now)
  /\ UNCHANGED <<frequency, units, count, asked>>

Next == Tick \/ Ask \/ Start \/ Lap

Spec == Init /\ [][Next]_vars

-----------------------------------------------------------------------------
(* Properties.                                                             *)

Int64 == (-Top - 1)..Top

\* Readings and durations are of the integer type.
TypeOK ==
  /\ frequency \in Frequencies /\ units \in Units /\ count \in Nat
  /\ asked \in [at : Nat, seconds : Windows, answer : BOOLEAN] \cup {Null}
  /\ marks \in Seq(Nat) /\ readings \in Seq(Int64)
  /\ Len(marks) = Len(readings) /\ Len(marks) <= MaxMarks
  /\ laps \in Seq(Int64) /\ total \in Int64

\* When will_overflow_within has answered no, no reading wraps around in all
\* the seconds asked for (asked of a counter that has not wrapped before).
\* When it has answered yes, the counter overflows in these seconds or in the
\* one after: the answer is not needlessly cautious.
OverflowForeseen ==
  asked # Null /\ frequency > 0 /\ asked.at <= Top =>
    /\ ~asked.answer /\ count <= asked.at + asked.seconds * frequency
         => Now = count
    /\ asked.answer => asked.at + (asked.seconds + 1) * frequency > Top

\* The duration from count a to b, rounded down, and whether int64_t can hold
\* it and the product of a second's ticks and units.
Exact(a, b) == ((b - a) * units) \div frequency
Holdable(a, b) == b <= Top /\ Exact(a, b) <= Top /\ frequency * units <= Top

\* A duration is exact, rounded down, whenever the type can hold it, also
\* where ticks times units would overflow.
DurationExact ==
  frequency > 0 /\ Len(marks) > 1 =>
    LET last == Len(marks)
    IN  /\ Holdable(marks[1], marks[last]) => total = Exact(marks[1], marks[last])
        /\ Holdable(marks[last - 1], marks[last]) =>
             laps[last - 1] = Exact(marks[last - 1], marks[last])

-----------------------------------------------------------------------------
(* The inductive invariant of the proofs.                                  *)

\* The readings are those of the marks, which never go back.
ReadingsFollow ==
  /\ \A k \in 1..Len(marks) : readings[k] = Wrap(marks[k]) /\ marks[k] <= count
  /\ \A j, k \in 1..Len(marks) : j <= k => marks[j] <= marks[k]

\* The durations are those between the readings.
DurationsFollow ==
  Len(marks) > 0 =>
    /\ Len(laps) = Len(marks) - 1
    /\ \A k \in 1..(Len(marks) - 1) :
         laps[k] = TicksToDuration(readings[k], readings[k + 1])
    /\ Len(marks) > 1 => total = TicksToDuration(readings[1], readings[Len(marks)])

\* The answer is to the question, asked at that reading.
AnswerFollows ==
  asked # Null =>
    (asked.answer <=> WillOverflowWithin(Wrap(asked.at), asked.seconds))

TimerInv == TypeOK /\ ReadingsFollow /\ DurationsFollow /\ AnswerFollows

=============================================================================
