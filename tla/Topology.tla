------------------------------ MODULE Topology ------------------------------
(***************************************************************************)
(* build_topo_tree of bench_box/threading/topology.cpp on every system it  *)
(* is written for, while the system adds and removes processors.           *)
(***************************************************************************)
EXTENDS TopologyLinux, TopologyWindows, TopologyMac

CONSTANT Platforms  \* the systems; "other" is one the function is not written for

ASSUME PlatformsAssumption == Platforms \subseteq {"linux", "windows", "mac", "other"}

VARIABLE platform

vars == <<platform, machine, pc, x, capacities, topo, tree, linuxVars,
          windowsVars, macVars>>

\* On a system of another kind the function returns an empty tree.
Init ==
  /\ platform \in Platforms
  /\ MachineInit /\ TreeInit /\ LinuxInit /\ WindowsInit /\ MacInit
  /\ counts \in IF platform = "mac" THEN LevelCounts ELSE {<<>>}
  /\ pc = CASE platform = "linux" -> "list"     [] platform = "mac" -> "levels"
            [] platform = "windows" -> "length" [] platform = "other" -> "done"

OnLinux(A)   == platform = "linux" /\ A /\ UNCHANGED <<windowsVars, macVars>>
OnWindows(A) == platform = "windows" /\ A /\ UNCHANGED <<linuxVars, macVars>>
OnMac(A)     == platform = "mac" /\ A /\ UNCHANGED <<linuxVars, windowsVars>>

Build == /\ OnLinux(LinuxBuild) \/ OnWindows(WindowsBuild) \/ OnMac(MacBuild)
         /\ UNCHANGED platform

Hotplug == /\ OnLinux(LinuxHotplug) \/ OnWindows(WindowsHotplug)
           /\ UNCHANGED platform

\* The function has returned, or taken the process with it.
Terminating == Stopped /\ UNCHANGED vars

Next == Build \/ Hotplug \/ Terminating

Spec == Init /\ [][Next]_vars

\* The caller runs the function to its end; hotplug is never owed.
FairSpec == Spec /\ WF_vars(Build)

-----------------------------------------------------------------------------
(* Properties.                                                             *)

\* Every variable of the build has the shape its C++ type gives it.
TypeOK ==
  /\ platform \in Platforms
  /\ hw \in Hardware /\ status \in [Cpus -> {"online", "offline", "gone"}]
  /\ hotplugs \in 0..MaxHotplug /\ touched \subseteq Cpus
  /\ pc \in {"list", "node", "core", "llc", "insert", "length", "fetch", "places",
             "cores", "levels", "done", "terminated"}
  /\ unlisted \subseteq Cpus /\ cpu_entries \in Seq(Cpus \X Nat)
  /\ capacities \subseteq Nat /\ x \in Nat \ {0}
  /\ node_id \in Nat /\ core_id \in Nat /\ llc_id \in Nat
  /\ unread \subseteq buffer /\ llc_counter \in Nat /\ core_counter \in Nat
  /\ \A map \in {cpu_to_numa, cpu_to_llc} :
       DOMAIN map \subseteq Cpus /\ \A c \in DOMAIN map : map[c] \in Nat
  /\ \A q \in DOMAIN topo : q \in Nat \X Nat \X Nat /\ topo[q] \in CoreType
  /\ gid \in Nat /\ llc_groups \in Seq(Seq(CoreType))
  /\ tree.numa_nodes \in Seq(Seq(Seq(CoreType))) /\ tree.perf_level_count \in Nat

\* The CPUs the system told the build of.
Listed == CASE platform = "linux"   -> {e[1] : e \in Range(cpu_entries)}
            [] platform = "windows" -> UNION {r.mask : r \in Of({"core"})}
            [] platform = "mac"     -> 0..(gid - 1)
            [] platform = "other"   -> {}

\* Whatever the system does between two reads, a tree that is returned has
\* every CPU the build was told of at exactly one place: none is lost when
\* cores are merged or a level is skipped, none is filed twice.  There it
\* knows its core and its place on it, also on a core several CPUs were
\* merged into, and no two cores share an id in an LLC group.
EveryCpuOnce ==
  pc = "done" =>
    /\ {CpuOf(p) : p \in TreeThreads} = Listed
    /\ Cardinality(TreeThreads) = Cardinality(Listed)
    /\ \A p \in TreeThreads : /\ ThreadAt(p).thread_index = p[4] - 1
                              /\ ThreadAt(p).core_id = TreeCore(p).core_id
    /\ \A p, q \in TreeThreads :
         SubSeq(p, 1, 2) = SubSeq(q, 1, 2) /\ TreeCore(p).core_id = TreeCore(q).core_id
           => p[3] = q[3]

\* No core has a level the tree does not count, so that the mappings, which
\* go through the levels 0 .. perf_level_count - 1, reach every core: the
\* capacities are those of the first pass even when they have changed since,
\* and the classes those of the records read.
LevelsCounted ==
  pc = "done" =>
    \A p \in TreeThreads : TreeCore(p).perf_level < tree.perf_level_count

\* CPUs whose place the system told truly: on Linux those that stayed online,
\* on Windows those in the mask of a node's record.
PlaceTold(c) ==
  CASE platform = "linux"   -> c \notin touched
    [] platform = "windows" -> \E r \in Of({"node"}) : c \in r.mask
    [] OTHER                -> FALSE
HwPlace(c) == <<hw[c].node, hw[c].llc, hw[c].core>>

\* The tree groups the CPUs as the machine does: two CPUs whose place was told
\* are in one node, one LLC group (where they have an LLC at all) and one core
\* of the tree just when they are on the machine, in whatever order they or
\* the records about them came, and whatever hotplug did to other CPUs.
UntouchedInPlace ==
  pc = "done" =>
    \A p, q \in {t \in TreeThreads : PlaceTold(CpuOf(t))} :
      LET c == HwPlace(CpuOf(p))
          d == HwPlace(CpuOf(q))
          Agree(k) == SubSeq(p, 1, k) = SubSeq(q, 1, k)
                        <=> SubSeq(c, 1, k) = SubSeq(d, 1, k)
      IN  /\ Agree(1)
          /\ NoLlc \notin {c[2], d[2]} => Agree(2)
          /\ (c[2] = NoLlc <=> d[2] = NoLlc) => Agree(3)

\* The CPUs of a core have one capacity, also of one that only the lack of an
\* LLC tells from another (Linux reads its LLC as 0).
LlcRead(c) == IF hw[c].llc = NoLlc THEN 0 ELSE hw[c].llc
HonestCores ==
  \A c, d \in Cpus :
    hw[c].node = hw[d].node /\ LlcRead(c) = LlcRead(d) /\ hw[c].core = hw[d].core
      => hw[c].capacity = hw[d].capacity

\* On a machine that holds still, with every CPU online and cores of equal
\* CPUs, levels and capacities agree: a CPU of higher capacity is on a core
\* of a lower level, and no level is empty.
TiersFollowCapacity ==
  pc = "done" /\ touched = {} /\ HonestCores /\ platform \in {"linux", "windows"} =>
    /\ \A p, q \in TreeThreads :
         hw[CpuOf(p)].capacity > hw[CpuOf(q)].capacity
           <=> TreeCore(p).perf_level < TreeCore(q).perf_level
    /\ \A lvl \in 0..(tree.perf_level_count - 1) :
         \E p \in TreeThreads : TreeCore(p).perf_level = lvl

\* The build ends, however CPUs come and go.
BuildEnds == <>Stopped

\* "0 = highest performance tier" (topology.h:16): a core that holds an online
\* CPU of the highest capacity of all has level 0.
HighestIsTierZero ==
  pc = "done" =>
    \A p \in TreeThreads :
      Online(CpuOf(p)) /\ (\A c \in Cpus : hw[CpuOf(p)].capacity >= hw[c].capacity)
        => TreeCore(p).perf_level = 0

=============================================================================
