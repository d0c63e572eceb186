# Specifications of bench-utils

TLA+ modules of the `bench_box` library: how a benchmark process finds the
machine's processors, orders its workers on them, chooses what to run, runs it,
gets its memory and times it. TLC checks the modules on small instances; the
theorems in `*Proofs.tla` are proved by TLAPS for every value of the constants.
`PROJECT.json` lists the components, runs, hazards and theorems, and which lines
of the source each definition stands for. Paths below are under
`src/src/bench_box/`.

## 1. The system

| part | state | operations | talks to |
|---|---|---|---|
| topology discovery (`threading/topology.cpp`) | the CPUs listed, their capacities, a nested map node -> LLC -> core | `build_topo_tree` | sysfs or the Windows and macOS calls; the machine changes under it |
| thread mapping (`threading/threading.cpp`) | groups of cores, lists of threads by rank, the mapping | `create_mapping_basic`, `create_mapping_numa`, `create_mapping_phte`, `get_default_thread_count` | reads the topology tree |
| worker pinning (`threading/threading.cpp`) | the mapping a `threading_manager` keeps; the CPUs a worker may run on | `assign_thread` | workers read the mapping, the kernel grants or refuses |
| harness (`harness/harness.h`) | options, the runs of the sweep with their results | `add_to_lyra`, `run` | calls the user's `gen` and `run_bench` |
| sweep options (`harness/harness_helpers.h`, `parse.h`) | none between calls | `make_numeric_sweep`, `make_filtered_sweep`, `parse_range`, `expand_range`, `parse_list` | called by `gen` |
| memory (`memory/memory.h`, `memory.cpp`) | the heap, the pool of large pages, a bump allocator's heap | allocate, deallocate | the C library, the kernel |
| buffer (`memory/buffer.h`, `bufferImpl.h`) | allocator, size, data | construct, `realloc`, `free`, move, assign, convert | the allocators |
| timers (`timer.cpp`) | a counter and its frequencies | `create_fast_timer`, `create_coarse_timer`, `duration`, `will_overflow_within` | the clock, `cpuid` |
| CPU features (`isa/x86/cpuid.cpp`) | none | `get_cpu_supported_isas`, `get_cpu_isa_string`, `get_cpu_brand_string`, `get_tsc_clock_info` | the processor |
| formatting (`format.cpp`) | none | `format_uint64_t`, `format_bytes`, `format_hms_flex` | called by the harness |
| vectors, SIMD wrappers, console | none | arithmetic, cursor movement | - |

**How they interact.** A benchmark program parses its options into a harness
and calls `run`. The harness takes the variable the user named, has that
variable's `gen` turn the option string into runs (usually through the sweep
helpers), and calls each run's `run_bench` a number of times. A benchmark
builds the topology tree, asks a mapping function for an order of logical
processors, starts workers, pins worker *n* to the *n*-th processor, takes its
memory through `buffer` and measures with a timer. All of this is by plain calls
and values handed over: there are no callbacks except `gen` and `run_bench`,
and no state shared between threads inside the library.

**What is hard.** Not concurrency inside the library, since every function runs
in its caller's thread, but

- the environment changing between two reads (CPU hotplug under
  `build_topo_tree` and under workers that pin themselves by a mapping made
  before; the kernel refusing memory, or giving an address again);
- what the processor answers where it has nothing to say (leaves beyond its
  highest, features whose registers the system does not save);
- loops over ragged structures: nodes, LLCs, groups and cores of different
  sizes, in `build_groups_int_numa_int_llc` and `interleave`;
- arithmetic at the edge of its type: `expand_range`, `align_up`,
  `checked_mul`, ticks times units, 32-bit counts of sub runs;
- values carried from one call or phase to the next: the thread lists of
  "phte", the runs of a `harness_t` whose `run` is called again;
- one step of several failing: a CPU's directory that is gone, a `realloc`
  whose allocation fails, a list option with one wrong element, a benchmark
  that returns nothing.

**What makes each part correct.**

- *Topology*: a tree that is returned has every listed CPU once, no core has a
  level the tree does not count, a CPU nobody touched is where it belongs, and
  the levels order the capacities.
- *Mapping*: every processor once, the load spread evenly at every prefix, the
  order the policy promises, and the default number of workers on cores of
  their own.
- *Pinning*: a confined worker is where the mapping put it, apart from all other
  confined ones, and only a CPU that was offline, out of reach or not allowed
  excuses a worker that is not.
- *Harness*: the calls are made once each, in order and counted up to their
  total, every score stands where its call belongs, the statistics of a row
  agree, a failed `run` leaves no half-way state.
- *Sweep options*: an option selects just what its grammar says, all of it or
  nothing; the loop of a range neither wraps around nor skips.
- *Memory and buffers*: one owner of each block that was not converted, elements
  inside it, large pages returned whole, nothing leaks but what is dropped by hand.
- *Features and sizes*: a name is shown just for a feature that is there and
  usable; a size is shown to within half its last digit.
- *Timers*: durations exact to the rounding, the overflow answer right in both
  directions, the frequency that of the clock in use.

## 2. Modules

Order of the list is the order in which they build on each other.

| module | what | checked by |
|---|---|---|
| `Mapping` | the two mapping functions, one action per loop step | `MCMapping` |
| `MappingPolicy` | abstract: the order a mapping promises, without loops | refined by `Mapping` |
| `MappingProofs` | inductive invariants of `Mapping`, its proofs, those of the refinement and of `Affinity` | TLAPS |
| `MCMappingTests` | the machines and orders of the repository's unit tests | `MCMapping` |
| `Affinity` | workers that pin themselves by a mapping, and hotplug; runs `Mapping` | `MCMapping` |
| `TopologyTree` | what the topology builds have in common: machine, nested map, tiers | `MCTopology` |
| `TopologyLinux`, `TopologyWindows`, `TopologyMac` | the three `build_topo_tree` | `MCTopology` |
| `Topology` | the build of any system, with hotplug, and the properties of a tree | `MCTopology` |
| `TopologyProofs` | inductive invariant of `Topology`, proofs | TLAPS |
| `SweepPlan` | abstract: the calls a sweep makes and counts | refined by `Harness` |
| `Format` | units and times as printed | `MCBox`, `MCHarness` |
| `Harness`, `HarnessProofs` | `harness_t::run`, called repeatedly, proofs | `MCHarness`, TLAPS |
| `ExpandRange` | the loop of `expand_range` | `MCSweep`, TLAPS |
| `Sweep`, `SweepProofs` | parsing, filtering, the three sweep helpers; runs `ExpandRange`'s loop; proofs of both | `MCSweep`, TLAPS |
| `Buffer`, `BufferProofs` | `buffer` over the allocators and the large page pool, proofs | `MCBuffer`, TLAPS |
| `Bump`, `BumpProofs` | `unsafe_bump_allocator` and the allocator over it, proofs | `MCBump`, TLAPS |
| `Timer`, `TimerProofs` | readings, durations, `will_overflow_within`, proofs | `MCTimer`, TLAPS |
| `Cpuid` | CPUID and XGETBV: features, names, brand, clock of the TSC | `MCBox` |
| `TimerSource` | making the timers; uses `Cpuid` | `MCBox` |
| `Box`, `BoxProofs` | all a program is told of its machine: `Cpuid`, `TimerSource`, memory shown by `Format`; proofs about all four | `MCBox`, TLAPS |

Some operators come in two forms: a `Fault:` line introduces the same operator
with a plausible mistake in it (a dropped guard, an off-by-one, a missing
reset). The specifications use only the right one; exchanging the two shows
that a property would notice the mistake.

### Mapping

The code keeps `const core*` in groups and prints `os_id`s into the result; the
module names a core by its place `<<node, llc, index>>` and a processor by
`<<core, rank>>`, so "the same processor twice" does not depend on `os_id`s.
`pc` tells the phase:

| code | actions |
|---|---|
| early return for no nodes | `Begin` |
| `build_groups_int_numa_int_llc` | `OpenLevel`, `ScanCore`, `CloseGroup`, `GroupsBuilt` |
| `interleave` | `Deal`, `NextRound`, `LevelDealt`, `Interleaved` |
| `add_threads_to_result` | `AddThread`, `NextList`, `Emitted` |
| loops over the levels | `LevelsDone`, `GroupsBuilt`, `Emitted` |

"numa" groups all levels first and interleaves them into one set of lists;
"phte" runs the three phases for each level. `MappingPolicy` says the result of
both in one definition, `Key`: a mapping is the sorted order of the processors
by rank and level ("numa") or level and rank ("phte"), and then by round, LLC
and node. `PolicySpec` states that the loops implement it, safety and liveness:
`Mapping`'s `result` is the policy's `mapping`.

### Affinity

`Program` is a benchmark: `MapStep` takes the steps of the mapping, `StartWorkers`
makes the `threading_manager` with it or with the empty mapping of
`create_mapping_basic`, and each worker calls `AssignThread` once, in any order.
A CPU is its `os_id` in its processor group, `group_id`, as the code passes both
to Windows; elsewhere there is one group and `Asked` passes the `os_id` alone.
`affinity` is the set of CPUs the system lets a worker run on, `allowed` those it
lets the program run on. The system is external (`Grants`): it refuses a CPU that
is not allowed; Linux refuses one that is offline too, and one beyond the
`cpu_set_t`, which leaves the set empty. A worker whose only CPU goes offline may
run on all that are allowed from then on. `gone` is history. The code ignores
every refusal, so the two properties say what is left: `PinnedApart` and
`PinnedUnlessRefused`. That a tree has every CPU once, as (`os_id`, `group_id`), is
assumed of the machines with workers; it is what `EveryCpuOnce` says of
`build_topo_tree`.

### Topology

`TopologyTree` has the machine (`hw`, `status`), which `ChangesTo` changes
between any two steps, and `topo`, the nested `std::map` as a function on
`<<node, llc, core>>`: `With` is an assignment to one of its elements, and
`NodesOf` turns the maps into vectors in the order of the ids (`Ordered`).

*Linux.* Reads of sysfs are single actions (`ListCpu`, `ReadNode`, `ReadCore`,
`ReadLlc`); `Insert` files one CPU. What a read gives while a CPU is offline
(missing `topology/` and `cache/`, so the value defaults to 0) is modelled from
what the code handles. `directory_iterator` throwing in a `noexcept` function
ends in `pc = "terminated"`.

*Windows.* `AskLength` and `Fetch` are two calls: processors added in between
make the description too long for the buffer, and the tree stays empty. The
records are then read in any order, nodes and caches first (`ReadPlace`), cores
second (`ReadCoreRecord`); a core's perf level is its efficiency class until
`RankAndEmit` ranks them. Lengths are counted in records. It is assumed that a
core's processors are in one group (`WindowsAssumption`); a record of a core has
one class, here that of the first of its processors.

*macOS.* `AddLevel` makes the cores of one level up, `LevelsTold` ends the loop.

### Harness

`Call` is the user: options as they were or set anew, then `run()`.
`UnknownVar`, `GenFails` and `Generate` are its beginning, `BeginRun`, `Bench`,
`Pause`, `EndRun` the two loops, `PrintRow` the table. `gen` and `run_bench`
are external: any score from `Scores`, or nothing. Scores are integers, in a unit of which `Tiny` make
the 1e-10 and `Huge` the 1e20 of the code. The row tests the greatest score for the
ratio and the total for the mean, so that one may be shown without the other. `log` and
`waited_ms` are history: what was called and how long was slept. `announced` is
the estimate as `format_hms_flex` prints it.

`SweepPlan` is what a sweep is for, without runs, cursors or a table: a plan of
calls, made in order, each counted before the next, over when the count is the
total. `PlanSpec` states that the two loops, the announced `total_runs` and the
`sub_run` counter implement it, safety and liveness.

### ExpandRange and Sweep

An option string is a sequence of tokens `-`, `:`, `,` and atoms, so that
parsing is about structure; which atoms are numbers of the type is the constant
`Value`. `ExpandRange` is the loop with wrapping arithmetic. `Sweep` extends it:
`make_numeric_sweep` starts the loop (`MakeRange`), steps it (`Expand`) and
reads its output (`RangeExpanded`); the loop may also be called alone
(`kind = "range"`). The properties do not use the parser: they state the
grammar (`Readings`, `IsListOf`), and what an option means by it.

### Buffer and Bump

`memory` holds the blocks not released and the large pages left; `Allocated`
gives every outcome of the `try` block with an allocation in it, for
`std::allocator` and for `lp_flex_allocator_t` with and without large pages: a
block, a refusal, or a constructor of an element that throws `bad_alloc`, whose
handler forgets the block. Sizes wrap at `Modulus`. `abandoned` is history: the
destructor and the assignments drop a block without freeing it, as the program
is to call `free`; these blocks and those lost to a constructor are the only ones
that leak (`NoOtherLeak`).

The conversion to `buffer<OTHERTYPE>` (`View`) makes a second buffer like any other,
with `std::allocator` and the size in other units, on the same block: it can
free, reallocate and move what the first one holds. `shared` are the addresses so
shared, `stale` those a buffer kept when another one released them. To release
such an address again, or with an allocator of the other kind of memory, is
undefined: `Misfree` records it in `misfreed` and ends the model there. A block that
was allocated by `std::allocator` and is released by the "small" allocator or the
other way round may go either way: `operator delete` and `free` are the same memory
on Linux and need not be elsewhere, so both outcomes are there. `OwnedOnce` says that
undefined releases happen at shared addresses only.

`Bump` has the allocator objects (`heap`, `current`, `heap_size`), the one heap,
and the blocks given out. `reach` is history: how far the requests reach when
counted without wrapping; `Fits` compares it with the end of the heap, which
the allocator never does. A request is for `count` elements of `size` bytes, whose
product `unsafe_bump_alloc_t` does not check: `Bytes` is what is asked for after
it has wrapped, `Extent` what the elements take.

### Timer and TimerSource

`Timer` has an exact count of ticks and readings that wrap at the type's end,
so that what the code computes can be compared with what happened.
`TimerSource` has the decision tables: the source by name or by frequency, and
what becomes of it and of `get_tsc_clock_info` in the two timers on each
platform. A machine records also `tsc_hz`, the rate its counter really has,
which no code reads.

### Cpuid, Format and Box

`Cpuid` models a register as the set of its bits and a leaf as a signed number,
as in the code. `Bit` is what the processor answers: zeros for a leaf it does
not have, or the registers of its highest basic leaf (`repeats_last`). The tables
have a row for each feature, in one table for each condition on which the code
looks at it. Read from the code as it is: `amx_bf16` and `hreset` are the same
bit; FMA, XOP and AMX are not made to depend on what the system saves; `APX` is
appended twice, which a set of names does not show; SGX would be shown but its bit
is not read; the leaf of the invariant TSC is read without asking whether there
is one.

`Format` takes a double for the rational number it stands for; a number is its
unit and its hundredths, rounded to the nearest. The rounding comes after the
loop that finds the unit, so 1048575 bytes are shown as 1024.00 KiB:
`MemoryShown` allows that and nothing more. `Box` puts the three together
with `get_available_mem`.

## 3. Runs

| run | states | properties and what they show |
|---|---|---|
| `mapping` | 73k | `TypeOK`; `MappedOnce`: no processor twice; `AllMapped`: none forgotten; `Balanced`: at every prefix the LLCs differ by at most one core; `DefaultThreadsOnOwnCores`; `AsTested`: the orders of the unit tests; `PinnedApart`: confined workers never share a CPU; `PinnedUnlessRefused`: the only excuses for a worker that is not where its entry says; `PolicySpec`: refinement; `Terminates` |
| `topology` | 56k | `TypeOK`; `EveryCpuOnce`; `LevelsCounted`; `UntouchedInPlace`: CPUs are together in the tree just when they are on the machine; `TiersFollowCapacity`; `BuildEnds` |
| `topology_offline` | violation | `HighestIsTierZero`: finding 1 |
| `harness` | 29k | `TypeOK`; `ScoresInPlace`; `RowsSound`; `ResultsComplete`; `PlanSpec`: refinement; `CallReturns` |
| `harness_estimate` | violation | `EstimateCoversSweep`: finding 2 |
| `sweep` | 114k | `NumericAsAsked`, `FilteredAsAsked`: options, of numbers and of names, against the grammar; `Progression` and `NeverWraps` of the loop |
| `buffer` | 381k | `TypeOK`; `OwnedOnce`: only a conversion makes a release go wrong; `ElementsFit`: of buffers and of converted ones until the block is released; `PagesConserved`; `NoOtherLeak` |
| `bump` | 148k | `TypeOK`; `OneOwner`; `BlocksApart` |
| `timer` | 5M | `TypeOK`; `DurationExact`; `OverflowForeseen`: will_overflow_within is right in both directions |
| `timer_source` | 106k | `UnderlyingIsTheClocks`; `IsaStringTrue`: the names are those of the features that are there and usable, all of them but SGX; `MemoryShown` |
| `timer_hpet` | violation | `TooHighForHpet`: finding 3 |
| `timer_tsc` | violation | `TscFrequencyInHz`: finding 4 |

**Bounds, and why they are enough.**

- `mapping`: all trees of two nodes, one of up to two LLC groups (the second a
  single core where there are two) and one of at most one, of up to two cores
  of two kinds, in both orders of the nodes; one node with cores that have no
  thread or a level the tree does not count; LLC groups of three cores beside
  single ones; no tree at all; and the six machines of the unit tests. Rounds,
  empty groups, missing LLCs, levels on one node only and cores of different
  thread counts all occur; the loops do not look further than one element back.
  Workers run on three further machines, a hybrid one, one of two nodes and one of
  two processor groups that number their CPUs alike, where there are three or four
  of them: as many as processors, more or fewer. The program is allowed all CPUs
  or all but any one. The
  `cpu_set_t` has room for three CPUs, so that the fourth is out of its reach, and
  two hotplug events (`MaxHotplug`) let a CPU go before or after its worker's
  call and come back. The other trees have no workers.
- `topology`: three CPUs on four machines (a hybrid pair whose node extends over
  two processor groups of two; a core with two threads on node 1 and one CPU on
  node 0; two nodes with an LLC each, one of them of two cores, whose core ids
  start again; a core without an LLC), every set of CPUs but all offline at the
  start, listed in any order, `MaxHotplug = 2` events; macOS with no to nine
  levels. Two events are needed for a CPU to go and come back between reads;
  three CPUs for two to be merged while a third keeps its place.
- `harness`: two calls (`MaxCalls`), so that the second finds the results of
  the first; two runs, up to two sub runs, zero among them; scores negative,
  zero, positive and missing, with `Tiny = 2`: one of 1 is too small for a ratio,
  two of them are enough for a mean. `Modulus = 256` is wide enough for nothing to wrap:
  the refinement of `SweepPlan` claims nothing where a `uint32_t` does not hold
  the number of sub runs (`SweepsFit`, which holds on this instance).
- `sweep`: every token sequence of up to five tokens, the length of
  `min-max:stride` and of a list of three; every range of a 4-bit type, reversed
  ones included, for the loop.
- `buffer`: two buffers, three addresses, a pool of four pages of 4 bytes and
  sizes modulo 16, with counts of which two do not fit in the pool, that wrap when
  rounded up and that wrap when multiplied. Two buffers are what a conversion
  relates. The state space is finite without bounding the calls.
- `bump`: two objects, a 32-byte address space, a heap in its middle and one
  that ends just below its top, `MaxBlocks = 3`; the requests go past both ends,
  and one is for elements whose bytes wrap.
- `timer`: a counter up to 15, counted to 18 (`MaxTime`) so that it wraps, three
  readings (`MaxMarks`), frequencies that do and do not divide the range or the
  unit.
- `timer_source`: four CPUs by what the leaves of their clock say, all clock
  sources, counters on both sides of every threshold of the code. Apart from
  these, processors of every generation from none of the features to AVX10 of
  each length, with highest leaves below and above each one the code asks for,
  with and without extended leaves, with zeros or the last leaf for those that
  are missing, under systems that save every telling set of registers; and
  amounts of memory around the borders of the units.

**Deadlock** is checked except in `bump`, whose program may really stop with all
requests made and all objects gone, and in `buffer`, where nothing is modelled
after an undefined release. The functions that return have an action
for having returned.

**Fairness** is used for five properties. `Terminates`, `BuildEnds`,
`CallReturns` and the liveness in both refinements assume weak fairness of the function's own steps: a synchronous
function that was called is run on by its thread, and none of its steps waits
for another thread. Each worker of `Program` has a fairness condition of its
own, as it is a thread of its own that the system schedules. Hotplug is never owed: `BuildEnds` holds with and without
it. `CallReturns` also takes it that a benchmark returns and a sleep ends, which
is the user's part of the contract; the user's own `Call` is not fair.
The refinements contain the fairness of the policy and of the plan and follow
from that of the loops.

## 4. Proofs

All by TLAPS, from the named assumptions on the constants (`TreesAssumption`,
`AffinityAssumption`, `TopologyAssumption`, `LinuxAssumption`,
`WindowsAssumption`, `MacAssumption`, `PlatformsAssumption`, `HarnessAssumption`,
`RangesAssumption`, `SweepAssumption`, `NullAssumption`, `BufferAssumption`,
`BumpAssumption`, `TimerAssumption`, `ProcessorAssumption`, `ClockAssumption`,
`MemoryAssumption`), which TLC evaluates in the runs. The last three say that a
processor with CPUID has a leaf 1, that no clock the kernel keeps is slower than
one tick a second and the resolution Windows tells is not 0 (the code divides by
it), and that a `uint64_t` can count the bytes of memory there are.
The two of `Sweep` say that all numbers are of the type `T`, that the default range
is not empty and the default ends are in the array, that an array of numbers is
sorted and one of names has none twice (as those that the tests pass), and that
`std::nullopt` is no value. One theorem has a hypothesis of its own,
`SweepsFit`, for `FollowsPlan`. The inductive invariants were first checked by TLC
on the machines, sweeps and calls of the runs.

**`MappingProofs`** (any set of topologies). `TypeCorrect`: all places are
places of the tree and all cursors in range; this is the absence of
out-of-range reads in the three loops. `NoProcessorTwice`: `MappedOnce`. That
property is not inductive: the copying loop keeps it only if the lists have no
repetition, the dealing loop keeps that only if the groups have none, and the
grouping loop only because its cursor passes each core once. `OnceInv` says what
each phase knows of the one before: `ScanInv` (a group holds distinct cores of
this LLC before the cursor, all groups distinct cores of LLCs before), `LevelsInv`
(groups waiting are of different levels, and "phte" has one level at most),
`ListsInv` (list *r* holds *r*-th threads, of cores the dealing cursor has
passed), `ResultInv` (the result holds list entries before the copying cursor,
or those of earlier levels). `OnceInvariant` proves it, action by action.

`EveryProcessorMapped` (`AllMapped`) is the converse and needs the converse of
each part (`AllInv`, proved by `AllInvariant`): what the grouping cursor has passed
is in a group (`GroupedInv`), a level that has been grouped waits whole until it is
copied (`WaitingInv`), there are as many lists as the largest core grouped has threads
(`RanksInv`), the cores dealt have all their threads in the lists (`DealtInv`),
what the copying cursor has passed is in the result (`CopiedInv`), and so are the
levels finished (`FinishedInv`). The loop that interleaves ends when no core is
left in *any* group of the level; that is where a smaller group could have cut off a
larger one.

`FollowsPolicy` is the safety of `PolicySpec`: each step of the loops hands out the
least processor left in the order of `MappingPolicy`, or none. `OrderInv` says why:
the *a*-th core of a group is dealt in round *a*, which is the number of usable cores of
its LLC and level before it, groups stand in the order of their LLCs and then nodes
(`RoundsInv`), and so lists are sorted (`SortedInv`). `CopiedUnused` then shows that the
processor being copied is one of the policy's and unused, `UnusedLater` that any other
unused one comes after it: it is in the same list behind the cursor, in a list after, or
("phte") of a level not yet grouped. `Joined`, `PolicyKey` and `Lexicographic`
take the policy's keys apart.

From the refinement's step, what is handed out precedes at any moment what is left
(`ClosedInv`), and "numa" goes rank by rank (`RankInv`; `HandedInvariant` proves both).
`LoadIsBalanced` (`Balanced`) follows: let *q* be the first core of the LLC
that is behind that is left (`FirstLeft`). All before it have started, no core of the
other LLC is of a later round (`StartedBefore`), and an LLC has one core of a level per
round (`OneARound`). `DefaultWorkersApart` (`DefaultThreadsOnOwnCores`): there are as
many first threads as cores, and they come first. That `get_default_thread_count`
counts the cores is `CoresCounted`: the sums over LLCs and nodes are recursive
functions, compared by a least counterexample with the cardinality of the places.

The last part is about `Affinity` (any programs, CPU sets, hotplug). `WorkersApart`
(`PinnedApart`) and `OnlyRefusedUnpinned` (`PinnedUnlessRefused`). `PinnedInv` says that
workers start only when the mapping is finished and that a confined worker is on the
CPU of its entry; that two entries have different CPUs comes from
`NoProcessorTwice`, which `MapsAsSpecified` carries over to the composition, and
from the trees having each CPU once, by its number in its processor group.

**`TopologyProofs`** (any machine, any files and records, any hotplug). `CpusAreKept`
(`EveryCpuOnce`), `LevelsAreCounted`, `GroupedAsMachine` (`UntouchedInPlace`),
`LevelsFollowCapacity` (`TiersFollowCapacity`) and `TypeCorrect`. The invariant,
`TopologyInv`, is about the map, which the loops fill: `FiledOnce` says that it
holds a set of CPUs, each as one thread that knows its place. On Linux the set is
what is before the cursor (`EntriesInv`), what has been read of a CPU nobody
touched is true (`ReadsInv`), so it is filed in its place (`PlacesInv`). On
Windows the records describe one machine (`BufferInv`: a core's record is within
one node's and one cache's or outside), the places noted are those of the records
read (`NotedInv`), and so CPUs are together in the map just when they are on the
machine (`RecordsInv`). `LinuxLevels` and `WindowsLevels` say what a level is
before and after ranking; `MacInv` numbers the cores made up. The second half takes
the map to the vectors: `OrderedParts` shows that a finite set of ids has an
ascending sequence, `KeyHolds`, `KeysAgree` and `KeyFound` that positions of the
tree correspond to keys of the map, and `AsManyPlaces` that there are as many places
as CPUs, by the bijection `CpuOf`.

**`HarnessProofs`** (any variables, options, scores). `TypeCorrect`, `ScoresKept`
(`ScoresInPlace`), `ResultsKept` (`ResultsComplete`), `StatisticsSound`
(`RowsSound`) and `FollowsPlan`, the safety of `PlanSpec`: each step is a step of
`SweepPlan` or none. `HarnessInv` relates the cursors to the number of calls in
the log (`CursorInv`), the *c*-th call to the element it filled (`LogInv`) and the
progress printed to the calls ended (`ProgressInv`). The sum of a row is a fold;
`SumExists` and `SumBounds` argue by a least counterexample, the bound of a sum by the
bounds of its terms.

**`BufferProofs`** (any sizes, addresses, buffers). `HeldByOne` (`OwnedOnce`),
`InsideBlocks` (`ElementsFit`), `PagesReturned` (`PagesConserved`),
`OnlyDroppedLeak` (`NoOtherLeak`) and `TypeCorrect`. `BufferInv` is `BlocksFollow`
(a buffer with data at an address that is not shared, and any of large pages, has a
block of its allocator and its size), `HeldOnce` (such a block has one holder),
`LargeOnce` (large pages are never unmapped by two: a conversion has
`std::allocator`), `SharedInside` (a shared block is there until one of its buffers
releases it) and `MemoryKept`: the pages of the pool and those in blocks, counted as the set
`PagesHeld`, make up the pool. `RoundedHolds` is the arithmetic: rounding up to a
page does not lose bytes unless it wraps, and then the allocation is refused.

**`TimerProofs`** (any width, frequency, unit). `LapsExact` (`DurationExact`),
`AnswersHold` (`OverflowForeseen`), `TypeCorrect`. `TimerInv` says what the
members were computed from: readings from exact counts (`ReadingsFollow`),
durations from readings (`DurationsFollow`), the answer from the reading at the time
(`AnswerFollows`). The rest is arithmetic of truncating division: `SplitQuotient`
(whole seconds and the remainder apart lose nothing) and `QuotientBound`.

**`SweepProofs`** (any width, ranges, options, default range and arrays). Of the
loop alone, `Invariance` proves `Inv`: while it runs, `val` is `min + Len(out) *
stride` and no value exceeds `max`. `ExpandsExactly` (`Progression`) and
`NoWrapAround` (`NeverWraps`) follow. The guard `stride > max - val` is what makes
`val + stride` stay below the modulus. Of the sweep that runs the loop,
`SweepInvariance` proves `SweepInv`: before and while the loop of an option runs it
has the range of that option, and what was returned is a function of the option. It
needs `LoopEnded`, that the loop's output is the progression in closed form.
`OptionsExpandExactly` and `OptionsNeverWrap` are the loop's properties in the sweep.
`NumbersAsAsked` (`NumericAsAsked`) and `ArraysAsAsked` (`FilteredAsAsked`) then
compare that function with the grammar, both ways: an option that can be read as
a range is parsed as that reading (`ReadingParsed`), and one whose parsed parts
are atoms can be read so (`ParsedReading`), so that `parse_range` makes of
it what it means (`MeaningOfRange`); the pieces `parse_list` makes are single atoms
just when the string is a list of them (`ListOfPieces`, `PiecesOfList`). `AscendingIs`
says that a sequence which goes up through all of a set is the set in ascending
order; with it, the loop's progression (`ExpandedIsNamed`) and the filtered stretch of
an array (`SliceMeans`) are the values a range names.

**`BumpProofs`** (any address space, heaps, requests and objects).
`TypeCorrect`, `OwnedOnce` (`OneOwner`: moves and destructors leave one owner)
and `BlocksStayApart` (`BlocksApart`: blocks aligned, inside and apart while the
requests fit). The strengthening is `CursorInv`: while they fit, the owner's
`current` is `reach`, where the blocks end. Its step is `Allocate`, where
`align_up` computes modulo the address space: `AlignFits` shows that the sum
does not wrap when its rounded value is below the top, because the top is a
multiple of every alignment.

**`BoxProofs`** (any processors, clocks and memory). `MemoryIsShown` (`MemoryShown`),
`FrequencyOfClock` (`UnderlyingIsTheClocks`) and `NamesAreTrue` (`IsaStringTrue`). The
invariant `BoxInv` says that what was told follows the machine; the work is in what that
means. For memory, `ScaleSteps` and `UnitFits` show that the loop that divides stops in
the one unit that a number fills without filling the next, `RoundedNear` that rounding to
hundredths moves by half of one at most, and `Uint64Bound` that 64 bits end inside the
last unit, so that 1024.00 comes only of rounding. For the names, `FoundIsThere` and
`SupportedThere` go from what the tables find to what is there: the highest leaf asked
for is one the processor has (`LeavesTold`), the flags the code keeps say what registers the
system saves (`SavedTold`), and so what is found supported is what is usable
(`SupportedUsable`).

**Only model-checked.** Liveness (`Terminates`, `BuildEnds`, `CallReturns`) and
the fairness of both refinements, which are out of the prover's reach; and `AsTested`, which
compares with the literal orders of the unit tests on their machines, the constants of
that run: there is no general statement to prove.

## 5. Where code and its words differ

1. `threading/topology.cpp:229`. "0 = highest performance tier"
   (`topology.h:16`). A CPU that is offline from the start has no core id and no
   LLC id; both read as 0, so it is filed with core 0 of LLC 0 and overwrites
   that core's level with its own. Run `topology_offline`, no hotplug needed.
2. `harness/harness.h:100`. "estimated total time" counts one pause for a run;
   line 119 pauses after every sub run. Run `harness_estimate`.
3. `timer.cpp:41`. "way too high to be hpet" from 100 MHz on (line 44), but the
   "obvious hpet" range tested before it is 143.1 to 143.3 MHz. Run `timer_hpet`.
4. `isa/x86/cpuid.cpp:361`. `tsc_frequency_hz` is `base_frequency_mhz * 1'000`,
   which is kHz, where the CPU does not tell its crystal. Run `timer_tsc`.

## 6. Not modelled

- `print_topo_debug` and the layout of the harness's table only print.
- Element access of `buffer`, and its constructor that takes over a pointer,
  except as the conversion to another type uses it. The conversion of a `const`
  buffer cannot be used: it returns a constant by a deleted copy.
- Whether the bit positions in the tables of `Cpuid` are those the makers of the
  processors give: the repository does not say what they should be, and
  `IsaStringTrue` takes the code's.
- The characters of the brand, of `/proc/meminfo` (a line is its label and its
  number) and the order of the names in the ISA string.
- The Windows branches of the allocators.
- `duration_ms` and `duration_us`, which only call the standard library.
- Vectors, SIMD wrappers, fences, `read_tsc`: floating point and one intrinsic
  per function, with no state and no control.
- `reset_cursor`: an escape sequence or a call that moves the cursor of the
  console, whose effect is the terminal's.
- `rebind` of the bump allocator: decided by types at compile time.

## 7. Plan

Done, in this order, most important first: `Mapping` with its policy and proofs,
`Topology`, `Harness`, `ExpandRange` and `Sweep`, `Buffer`, `Bump`, `Timer`,
`TimerSource`; proofs for `Mapping`, the loop of `Sweep`, `Bump`; then `Affinity`,
the topology of the other systems, `SweepPlan`, `Cpuid`, `Format` and `Box`.
What is left unmodelled has no state or is external.

Then the proofs of `Mapping` with its refinement, `Balanced` and
`DefaultThreadsOnOwnCores`, of `Affinity`, `Topology`, `Harness` with its
refinement, `Buffer`, `Timer` and `Box`, and of all of `Sweep`: every safety property
of the passing runs that is about any constants is a theorem.

What could follow: the rule of `Format` for times and the estimate's text, should
the code come to depend on it; the Windows branches of the allocators.
