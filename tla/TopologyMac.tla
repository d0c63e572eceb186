----------------------------- MODULE TopologyMac -----------------------------
(***************************************************************************)
(* build_topo_tree of bench_box/threading/topology.cpp for macOS, which    *)
(* tells how many cores each performance level has and nothing of where    *)
(* they are: every level becomes an LLC group of a single node, and the    *)
(* CPUs are numbered through the levels.                                   *)
(***************************************************************************)
EXTENDS TopologyTree

CONSTANT LevelCounts  \* machines: hw.perflevelN.physicalcpu, for N from 0

ASSUME MacAssumption == LevelCounts \subseteq Seq(Nat)

MaxLevels == 8

VARIABLES
  counts,      \* the machine
  llc_groups,  \* the groups of the node so far
  gid          \* CPUs numbered so far

macVars == <<counts, llc_groups, gid>>

MacInit == llc_groups = <<>> /\ gid = 0

\* Level x - 1: the call succeeds and there are cores.
LevelTold == x <= MaxLevels /\ x <= Len(counts) /\ counts[x] # 0

MadeUpCore(id, lvl) ==
  [core_id |-> id, perf_level |-> lvl,
   threads |-> <<[thread_index |-> 0, core_id |-> id, os_id |-> id,
                  group_id |-> 0]>>]

AddLevel ==
  /\ pc = "levels" /\ LevelTold
  /\ llc_groups' = Append(llc_groups,
                     [i \in 1..counts[x] |-> MadeUpCore(gid + i - 1, x - 1)])
  /\ gid' = gid + counts[x] /\ x' = x + 1
  /\ UNCHANGED <<machine, pc, capacities, topo, tree, counts>>

LevelsTold ==
  /\ pc = "levels" /\ ~LevelTold
  /\ tree' = [numa_nodes |-> <<llc_groups>>, perf_level_count |-> Len(llc_groups)]
  /\ pc' = "done"
  /\ UNCHANGED <<machine, x, capacities, topo, macVars>>

MacBuild == AddLevel \/ LevelsTold

=============================================================================
