-------------------------------- MODULE Cpuid --------------------------------
(***************************************************************************)
(* isa/x86/cpuid.cpp: what the processor is asked with CPUID and XGETBV,   *)
(* the features reported from the answers (get_cpu_supported_isas), the    *)
(* names of them that are shown (get_cpu_isa_string), the brand            *)
(* (get_cpu_brand_string) and the clock (get_tsc_clock_info).              *)
(*                                                                         *)
(* External: the processor.  A leaf it does not have answers zeros, or on  *)
(* some the registers of the highest basic leaf.  Leaves are signed 32-bit *)
(* integers as in the code, so that extended leaves, from 0x80000000 on,   *)
(* are negative.  A register is the set of its bits, where bits matter.    *)
(***************************************************************************)
EXTENDS Integers, Sequences

CONSTANT
  Machines  \* what CPUID and the system say of a machine

\* A processor with CPUID has leaf 1, and its registers are unsigned.
ASSUME ProcessorAssumption ==
  \A m \in Machines :
    /\ m.max_basic \in Nat \ {0} /\ m.max_ext \in Int
    /\ {m.leaf15.eax, m.leaf15.ebx, m.leaf15.ecx, m.leaf16.eax} \subseteq Nat

VARIABLES
  machine,
  features, isa, brand  \* what the program was told

Ext == -2147483647 - 1  \* 0x80000000

HasLeaf(n) == IF n < 0 THEN machine.max_ext < 0 /\ n <= machine.max_ext
                       ELSE n <= machine.max_basic

\* Bit b of a register of leaf n, sub-leaf s.
Bit(n, s, reg, b) ==
  \/ HasLeaf(n) /\ <<n, s, reg, b>> \in machine.bits
  \/ /\ ~HasLeaf(n) /\ machine.repeats_last
     /\ <<machine.max_basic, 0, reg, b>> \in machine.bits

-----------------------------------------------------------------------------
(* get_cpu_supported_isas: the bit of each feature, by what it asks of the *)
(* operating system.                                                       *)

BasicTable ==
  {<<1, 0, "edx", 23, "mmx">>, <<1, 0, "edx", 25, "sse">>, <<1, 0, "edx", 26, "sse2">>,
   <<1, 0, "ecx", 0, "sse3">>, <<1, 0, "ecx", 9, "ssse3">>, <<1, 0, "ecx", 19, "sse4_1">>,
   <<1, 0, "ecx", 20, "sse4_2">>, <<1, 0, "ecx", 23, "popcnt">>, <<1, 0, "ecx", 25, "aes">>,
   <<1, 0, "ecx", 12, "fma">>, <<1, 0, "ecx", 30, "rdrand">>}
Leaf7Table ==
  {<<7, 0, "ebx", 3, "bmi1">>, <<7, 0, "ebx", 8, "bmi2">>, <<7, 0, "ecx", 22, "rdpid">>,
   <<7, 0, "ecx", 23, "clflushopt">>, <<7, 0, "ecx", 24, "clwb">>, <<7, 0, "ecx", 29, "sha">>,
   <<7, 0, "ecx", 5, "waitpkg">>, <<7, 0, "ecx", 27, "movdiri">>, <<7, 0, "ecx", 28, "movdir64b">>,
   <<7, 0, "ecx", 16, "tsxldtrk">>, <<7, 0, "ecx", 3, "pku">>, <<7, 0, "ecx", 4, "ospke">>,
   <<7, 0, "edx", 24, "amx_tile">>, <<7, 0, "edx", 25, "amx_int8">>, <<7, 0, "edx", 22, "amx_bf16">>,
   <<7, 0, "edx", 23, "amx_fp16">>, <<7, 0, "edx", 20, "ibt">>, <<7, 0, "edx", 7, "shstk">>,
   <<7, 0, "edx", 4, "fsrm">>, <<7, 0, "edx", 22, "hreset">>, <<7, 0, "edx", 5, "uintr">>,
   <<7, 1, "ecx", 14, "serialize">>, <<7, 1, "edx", 21, "apx">>}
AvxTable ==
  {<<7, 0, "ebx", 5, "avx2">>, <<7, 0, "ecx", 8, "gfni">>, <<7, 0, "ecx", 9, "vaes">>,
   <<7, 0, "ecx", 10, "vpclmulqdq">>}
Avx512Table ==
  {<<7, 0, "ebx", 16, "avx512f">>, <<7, 0, "ebx", 17, "avx512dq">>, <<7, 0, "ebx", 21, "avx512ifma">>,
   <<7, 0, "ebx", 26, "avx512pf">>, <<7, 0, "ebx", 27, "avx512er">>, <<7, 0, "ebx", 28, "avx512cd">>,
   <<7, 0, "ebx", 30, "avx512bw">>, <<7, 0, "ebx", 31, "avx512vl">>, <<7, 0, "ecx", 1, "avx512vbmi">>,
   <<7, 0, "ecx", 11, "avx512vnni">>, <<7, 0, "ecx", 12, "avx512bitalg">>,
   <<7, 0, "ecx", 14, "avx512vpopcntdq">>, <<7, 0, "ecx", 6, "avx512vbmi2">>,
   <<7, 0, "edx", 2, "avx512_4vnniw">>, <<7, 0, "edx", 3, "avx512_4fmaps">>,
   <<7, 0, "edx", 8, "avx512_vp2intersect">>, <<7, 1, "eax", 5, "avx512_bf16">>,
   <<7, 1, "eax", 23, "avx512_fp16">>}
Avx10Table == {<<7, 1, "edx", 19, "avx10">>}
ExtTable ==
  {<<Ext + 1, 0, "edx", 29, "lm">>, <<Ext + 1, 0, "ecx", 5, "lzcnt">>,
   <<Ext + 1, 0, "ecx", 6, "sse4a">>, <<Ext + 1, 0, "ecx", 11, "xop">>}

NamesOf(table) == {row[5] : row \in table}
Found(table) == NamesOf({row \in table : Bit(row[1], row[2], row[3], row[4])})

\* The bits of XCR0, which may be read only where OSXSAVE is set, that say
\* which registers the system saves.
Xcr0 == IF Bit(1, 0, "ecx", 27) /\ Bit(1, 0, "ecx", 28) THEN machine.xcr0 ELSE {}
AvxEnabled == {1, 2} \subseteq Xcr0
Avx512OsEnabled == {1, 2, 5, 6, 7} \subseteq Xcr0

\* max_basic >= 7.  Fault: whatever the highest leaf is.
Leaf7Always == TRUE
Leaf7Told == machine.max_basic >= 7

\* max_ext >= 0x80000001, compared as signed integers.
ExtTold == machine.max_ext >= Ext + 1

SupportedIsas ==
  Found(BasicTable) \cup (IF AvxEnabled THEN {"avx"} ELSE {})
  \cup (IF Leaf7Told THEN Found(Leaf7Table) ELSE {})
  \cup (IF Leaf7Told /\ AvxEnabled THEN Found(AvxTable) ELSE {})
  \cup (IF Leaf7Told /\ Avx512OsEnabled
        THEN Found(Avx512Table) \cup Found(Avx10Table) ELSE {})
  \cup (IF ExtTold THEN Found(ExtTable) ELSE {})

\* Version and the longest vector length told, where there is a leaf for them.
Avx10Told == "avx10" \in SupportedIsas /\ machine.max_basic >= 36
Avx10Version == IF Avx10Told THEN machine.avx10_version ELSE 0
Avx10Length == CASE Avx10Told /\ Bit(36, 0, "ebx", 18) -> 512
                 [] Avx10Told /\ Bit(36, 0, "ebx", 17) /\ ~Bit(36, 0, "ebx", 18) -> 256
                 [] Avx10Told /\ Bit(36, 0, "ebx", 16)
                      /\ ~Bit(36, 0, "ebx", 17) /\ ~Bit(36, 0, "ebx", 18) -> 128
                 [] OTHER -> 0

\* The features get_cpu_isa_string would show: not the 64-bit mode, but SGX,
\* whose bit get_cpu_supported_isas does not read.
Shown == NamesOf(BasicTable) \cup NamesOf(Leaf7Table) \cup NamesOf(AvxTable)
         \cup NamesOf(Avx512Table) \cup (NamesOf(ExtTable) \ {"lm"}) \cup {"avx", "sgx"}

\* get_cpu_isa_string, as the set of its names.  AVX10 stands for all of
\* AVX-512; 0 stands for a version or length that is not shown.
IsaNames ==
  LET avx10 == "avx10" \in SupportedIsas
  IN  [names |-> (Shown \cap SupportedIsas) \ (IF avx10 THEN NamesOf(Avx512Table) ELSE {}),
       avx10 |-> avx10, version |-> Avx10Version, length |-> Avx10Length]

\* get_cpu_brand_string: four registers of each of three leaves, compared
\* unsigned here; empty if one is missing.
BrandString ==
  IF machine.max_ext < 0 /\ machine.max_ext >= Ext + 4
  THEN [k \in 1..12 |-> <<Ext + 2 + (k - 1) \div 4, (k - 1) % 4>>] ELSE <<>>

-----------------------------------------------------------------------------
(* get_tsc_clock_info                                                      *)

Leaf(n, registers) == IF machine.max_basic >= n THEN registers
                      ELSE [eax |-> 0, ebx |-> 0, ecx |-> 0]
Leaf15 == Leaf(21, machine.leaf15)   \* TSC and crystal clock
Leaf16 ==                            \* frequencies in MHz, of 16 bits
  Leaf(22, [eax |-> machine.leaf16.eax % 65536, ebx |-> machine.leaf16.ebx % 65536,
            ecx |-> machine.leaf16.ecx % 65536])

\* The leaf gives the ratio and the crystal.
RatioKnown == Leaf15.ecx # 0 /\ Leaf15.ebx # 0 /\ Leaf15.eax # 0

TscHz ==
  LET hz == (Leaf15.ecx * Leaf15.ebx) \div Leaf15.eax
  IN  CASE ~RatioKnown -> Leaf16.eax * 1000
        [] RatioKnown -> IF hz >= 100000000 THEN hz ELSE 0

\* The leaf of the invariant TSC is read whether or not there is one.
TscClockInfo == [is_invariant_tsc |-> Bit(Ext + 7, 0, "edx", 8),
                 tsc_frequency_hz |-> TscHz, crystal_clock_hz |-> Leaf15.ecx]

-----------------------------------------------------------------------------
CpuidInit == machine \in Machines /\ features = {} /\ isa = {} /\ brand = <<>>

cpu == <<machine, features, isa, brand>>

AskFeatures == /\ features' = SupportedIsas /\ isa' = {IsaNames}
               /\ brand' = BrandString /\ UNCHANGED machine

-----------------------------------------------------------------------------
\* Is a feature of the table there: its leaf is one the processor has, and
\* the bit is set?
There(table, f) == \E row \in table : row[5] = f /\ HasLeaf(row[1]) /\
                     SubSeq(row, 1, 4) \in machine.bits

\* AVX is there, and the system saves the registers of these states.
AvxSaved(states) ==
  {<<1, 0, "ecx", 27>>, <<1, 0, "ecx", 28>>} \subseteq machine.bits /\ states \subseteq machine.xcr0

\* Can a program use the feature?
Usable(f) ==
  \/ There(BasicTable, f) \/ There(Leaf7Table, f) \/ There(ExtTable, f)
  \/ f = "avx" /\ AvxSaved({1, 2})
  \/ There(AvxTable, f) /\ AvxSaved({1, 2})
  \/ (There(Avx512Table, f) \/ There(Avx10Table, f)) /\ AvxSaved({1, 2, 5, 6, 7})

\* A feature is named just if the processor has it, in a leaf it has and not
\* in what a missing leaf repeats, and, of AVX and what is built on it, the
\* system saves its registers; but AVX10, where it is named, stands for all
\* the AVX-512 names, and has a version only from its own leaf.  SGX is never
\* named, even by a processor that has it: its bit is not read.  (Where there
\* are no extended leaves at all, what their answer repeats decides on their
\* features, which are left out here.)
IsaStringTrue ==
  \A s \in isa :
    LET named == s.names \cup (IF s.avx10 THEN {"avx10"} ELSE {})
    IN  /\ named \subseteq Shown \cup {"avx10"}
        /\ \A f \in Shown \cup {"avx10"} :
             machine.max_ext < 0 \/ f \notin NamesOf(ExtTable) =>
               (f \in named <=> Usable(f) /\ ~(s.avx10 /\ f \in NamesOf(Avx512Table)))
        /\ "sgx" \notin named
        /\ s.version # 0 => s.avx10 /\ HasLeaf(36)

=============================================================================
