---------------------------- MODULE TopologyTree ----------------------------
(***************************************************************************)
(* What the versions of build_topo_tree of bench_box/threading/topology.cpp*)
(* for the different systems have in common: a machine that may change     *)
(* under them, the nested map node -> LLC -> core they file processors in, *)
(* the ranking of cores by capacity and the topology_tree made of the map. *)
(*                                                                         *)
(* A CPU is a number.  Windows names it by a processor group and a bit,    *)
(* the quotient and remainder by the GroupSize of 64; elsewhere the group  *)
(* is 0.  A CPU's capacity is its efficiency class on Windows.             *)
(***************************************************************************)
EXTENDS Naturals, Sequences, FiniteSets, FiniteSetsExt, SequencesExt

CONSTANTS
  Cpus,        \* numbers of the CPUs the machine may have
  Hardware,    \* machines: capacity and place of each CPU
  NoLlc,       \* the llc of a CPU that has no last level cache
  OfflineSets, \* the sets of CPUs that may be offline at the start
  GroupSize,   \* CPUs of a processor group
  MaxHotplug   \* bound on hotplug events during one build

HardwareType ==
  [Cpus -> [capacity : Nat, node : Nat, llc : Nat \cup {NoLlc}, core : Nat]]

ASSUME TopologyAssumption ==
  /\ Cpus \subseteq Nat /\ IsFiniteSet(Cpus) /\ NoLlc \notin Nat
  /\ Hardware \subseteq HardwareType
  /\ OfflineSets \subseteq (SUBSET Cpus) \ {Cpus}
  /\ GroupSize \in Nat \ {0} /\ MaxHotplug \in Nat

VARIABLES
  hw, status, hotplugs, touched,  \* the machine, and CPUs seen to change
  pc, x,                          \* phase of the build, cursor of its loop
  capacities,                     \* the distinct capacities found
  topo,                           \* <<node, llc, core>> -> core
  tree                            \* the result

machine == <<hw, status, hotplugs, touched>>

Online(c) == status[c] = "online"
Stopped == pc \in {"done", "terminated"}

MachineInit ==
  /\ hw \in Hardware
  /\ \E off \in OfflineSets :
       /\ status = [c \in Cpus |-> IF c \in off THEN "offline" ELSE "online"]
       /\ touched = off
  /\ hotplugs = 0

\* Hotplug: a CPU comes to one of the states; one CPU always stays online.
ChangesTo(states) ==
  /\ ~Stopped /\ hotplugs < MaxHotplug
  /\ \E c \in Cpus, s \in states :
       /\ status[c] # s /\ status[c] # "gone"
       /\ \E d \in Cpus : IF d = c THEN s = "online" ELSE Online(d)
       /\ status' = [status EXCEPT ![c] = s]
       /\ touched' = touched \cup {c}
  /\ hotplugs' = hotplugs + 1
  /\ UNCHANGED <<hw, pc, x, capacities, topo, tree>>

TreeInit == /\ x = 1 /\ capacities = {} /\ topo = <<>>
            /\ tree = [numa_nodes |-> <<>>, perf_level_count |-> 0]

\* cap_to_tier, eff_to_tier: the highest capacity is tier 0.
\* Faults: one too low; one too high; the lowest capacity is tier 0.
TierBelow(capacity) == Cardinality({cap \in capacities : cap > capacity}) - 1
TierAbove(capacity) == Cardinality({cap \in capacities : cap >= capacity})
TierAscending(capacity) == Cardinality({cap \in capacities : cap < capacity})
Tier(capacity) == Cardinality({cap \in capacities : cap > capacity})

\* map[key] = value, of a std::map.
With(map, key, value) ==
  [k \in DOMAIN map \cup {key} |-> IF k = key THEN value ELSE map[k]]

\* A set of ids in ascending order, as a std::map goes through its keys.
Ordered(S) ==
  CHOOSE s \in [1..Cardinality(S) -> S] : \A a, b \in DOMAIN s : a < b => s[a] < s[b]

\* The ids of the nodes, of a node's LLCs and of an LLC's cores.
NodeIds(map) == Ordered({q[1] : q \in DOMAIN map})
LlcIds(map, n) == Ordered({q[2] : q \in {p \in DOMAIN map : p[1] = n}})
CoreIds(map, n, l) ==
  Ordered({q[3] : q \in {p \in DOMAIN map : p[1] = n /\ p[2] = l}})

\* The nested map as the vectors of the tree.
NodesOf(map) ==
  LET core(n, l, c)  == map[<<n, l, CoreIds(map, n, l)[c]>>]
      llc_group(n, l) == [c \in DOMAIN CoreIds(map, n, l) |-> core(n, l, c)]
      node(n)        == [l \in DOMAIN LlcIds(map, n) |-> llc_group(n, LlcIds(map, n)[l])]
  IN  [n \in DOMAIN NodeIds(map) |-> node(NodeIds(map)[n])]

-----------------------------------------------------------------------------
ThreadType == [thread_index : Nat, core_id : Nat, os_id : Nat, group_id : Nat]
CoreType   == [core_id : Nat, perf_level : Nat, threads : Seq(ThreadType)]

\* The places of the tree: node, LLC, core and thread positions.
TreeThreads ==
  UNION {UNION {UNION {{<<n, l, c, r>> :
    r \in DOMAIN tree.numa_nodes[n][l][c].threads} :
    c \in DOMAIN tree.numa_nodes[n][l]} :
    l \in DOMAIN tree.numa_nodes[n]} :
    n \in DOMAIN tree.numa_nodes}
TreeCore(p) == tree.numa_nodes[p[1]][p[2]][p[3]]
ThreadAt(p) == TreeCore(p).threads[p[4]]
CpuIn(th) == th.group_id * GroupSize + th.os_id
CpuOf(p) == CpuIn(ThreadAt(p))

=============================================================================
