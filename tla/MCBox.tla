-------------------------------- MODULE MCBox --------------------------------
(* Box on two families of machines: clocks of every kind on processors     *)
(* with both, one or none of the leaves of the clock, and processors of    *)
(* every generation, told and masked by the system or not, with memory     *)
(* around the limits of the units.                                         *)
EXTENDS Box

Regs(a, b, c) == [eax |-> a, ebx |-> b, ecx |-> c]
Zeros == Regs(0, 0, 0)

\* An older CPU, one that does not tell its crystal, and one that does.
Old     == [max_basic |-> 13, leaf15 |-> Zeros, leaf16 |-> Zeros, tsc_hz |-> 1800000000]
Skylake == [max_basic |-> 22, leaf15 |-> Regs(2, 150, 0),
            leaf16 |-> Regs(65536 + 1800, 2000, 100), tsc_hz |-> 1800000000]
Atom    == [max_basic |-> 22, leaf15 |-> Regs(2, 78, 19200000),
            leaf16 |-> Regs(748, 900, 100), tsc_hz |-> 748800000]
Slow    == [max_basic |-> 21, leaf15 |-> Regs(1, 4, 10000000),
            leaf16 |-> Zeros, tsc_hz |-> 40000000]

Names    == {"tsc", "hpet", "acpi_pm", "pit", "jiffies", "none"}
Counters == {32768, 1193182, 3579545, 9999999, 10000000, 14318180, 24000000,
             32000000, 99999999, 100000000, 143200000, 748800000}

Machine(c, x, bits, name, ns, hz, max_ext, repeats, xcr0, mem) ==
  [max_basic |-> c.max_basic, leaf15 |-> c.leaf15, leaf16 |-> c.leaf16,
   tsc_hz |-> c.tsc_hz, x86 |-> x, clocksource |-> name, raw_ns |-> ns,
   coarse_ns |-> 4 * ns, nt_tells |-> ns = 1, nt_resolution |-> ns, nt_increment |-> ns \div 2,
   counter_hz |-> hz, max_ext |-> max_ext, repeats_last |-> repeats,
   bits |-> bits, xcr0 |-> xcr0, avx10_version |-> 1,
   meminfo |-> mem, avail_phys |-> IF mem = <<>> THEN Null ELSE 1024 * mem[1].kb + 1023]

ClockMachines ==
  {Machine(c, x, IF i THEN {<<Ext + 7, 0, "edx", 8>>} ELSE {}, n, r, hz, Ext + 8,
           FALSE, {}, <<>>) :
     c \in {Old, Skylake, Atom, Slow}, x, i \in BOOLEAN, n \in Names,
     r \in {0, 1, 1000000}, hz \in Counters}

\* The bits of a generation, each with the ones before it.
Cells(table) == {SubSeq(row, 1, 4) : row \in table}
Sse    == Cells(BasicTable) \cup {<<1, 0, "ecx", 27>>, <<7, 0, "ebx", 2>>}  \* and SGX
Avx    == Sse \cup {<<1, 0, "ecx", 28>>} \cup Cells(Leaf7Table \cup AvxTable)
Avx512 == Avx \cup Cells(Avx512Table)
Avx10(length) == Avx512 \cup Cells(Avx10Table)
                 \cup (IF length = 0 THEN {} ELSE {<<36, 0, "ebx", length>>})
\* Registers of a last leaf that look like features of leaf 7 and 0x80000001.
LastOf(n) == {<<n, 0, "ebx", 3>>, <<n, 0, "ecx", 24>>, <<n, 0, "edx", 7>>, <<n, 0, "ecx", 5>>}

Generations ==
  {[bits |-> b, max_basic |-> m] :
     b \in {{}, Sse, Avx, Avx512} \cup {Avx10(l) : l \in {0, 16, 17, 18}},
     m \in {1, 5, 7, 22, 36}}
Saved == {{}, {1}, {1, 2}, {5, 6, 7}, {1, 2, 5, 6}, {1, 2, 5, 6, 7}}
Line(label, kb) == [label |-> label, kb |-> kb]
\* Bytes around the limits of the units, a file without the line, and two.
Memories ==
  {<<Line("MemAvailable", kb)>> : kb \in {0, 1, 3, 1022, 1023, 1024, 1535, 20000}}
  \cup {<<>>}

FeatureMachines ==
  {Machine([Old EXCEPT !.max_basic = g.max_basic], TRUE,
           g.bits \cup LastOf(g.max_basic) \cup e.bits,
           "tsc", 1, 24000000, e.max, r, s, <<>>) :
     g \in Generations, s \in Saved, r \in BOOLEAN,
     e \in {[max |-> 0, bits |-> {}], [max |-> Ext + 4, bits |-> Cells(ExtTable)]}}
MemoryMachines ==
  {Machine(Old, TRUE, Sse, "tsc", 1, 24000000, Ext + 8, FALSE, {}, mem) :
     mem \in Memories \cup
       {<<Line("MemFree", 7), Line("MemAvailable", Null), Line("MemAvailable", 9)>>}}

MCMachines == ClockMachines \cup FeatureMachines \cup MemoryMachines
=============================================================================
