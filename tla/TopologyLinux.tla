---------------------------- MODULE TopologyLinux ----------------------------
(***************************************************************************)
(* build_topo_tree of bench_box/threading/topology.cpp for Linux: two      *)
(* passes over /sys/devices/system/cpu.  The first lists the CPUs with     *)
(* their capacity, the second reads each CPU's NUMA node, core and LLC,    *)
(* one file at a time, and files it in the nested map.                     *)
(*                                                                         *)
(* sysfs is the environment, modelled from what the code expects of it: an *)
(* online CPU has all files; an offline one has lost topology/ and cache/, *)
(* and cpu_capacity unless KeepsCapacity; a CPU that is gone has no        *)
(* directory.  A file that cannot be read gives the default of its read.   *)
(***************************************************************************)
EXTENDS TopologyTree

CONSTANT KeepsCapacity  \* does an offline CPU keep its cpu_capacity file

ASSUME LinuxAssumption == KeepsCapacity \in BOOLEAN

DefaultCapacity == 1024

VARIABLES
  unlisted, cpu_entries,     \* the first pass
  node_id, core_id, llc_id   \* what was read for entry x of the second pass

entries   == <<unlisted, cpu_entries>>
reads     == <<node_id, core_id, llc_id>>
linuxVars == <<entries, reads>>

LinuxInit == /\ unlisted = Cpus /\ cpu_entries = <<>>
             /\ node_id = 0 /\ core_id = 0 /\ llc_id = 0

\* Listing the directory of a CPU throws.
DirectoryGone(c) == status[c] = "gone"

SysCapacity(c) ==
  IF Online(c) \/ (status[c] = "offline" /\ KeepsCapacity)
  THEN hw[c].capacity ELSE DefaultCapacity
SysCore(c) == IF Online(c) THEN hw[c].core ELSE 0
SysLlc(c)  == IF Online(c) /\ hw[c].llc # NoLlc THEN hw[c].llc ELSE 0

-----------------------------------------------------------------------------
\* The directory iterator returns the CPUs in any order.
ListCpu ==
  /\ pc = "list"
  /\ \E c \in unlisted :
       /\ cpu_entries' = Append(cpu_entries, <<c, SysCapacity(c)>>)
       /\ unlisted' = unlisted \ {c}
  /\ UNCHANGED <<machine, pc, x, capacities, topo, tree, reads>>

\* A CPU removed before its entry was reached may not be returned any more.
SkipGone ==
  /\ pc = "list"
  /\ \E c \in unlisted : status[c] = "gone" /\ unlisted' = unlisted \ {c}
  /\ UNCHANGED <<machine, pc, x, capacities, topo, tree, cpu_entries, reads>>

\* Sort and unique the capacities.
Rank ==
  /\ pc = "list" /\ unlisted = {}
  /\ capacities' = {e[2] : e \in Range(cpu_entries)}
  /\ tree' = [tree EXCEPT !.perf_level_count = Cardinality(capacities')]
  /\ pc' = "node"
  /\ UNCHANGED <<machine, x, topo, linuxVars>>

-----------------------------------------------------------------------------
(* Second pass: entry x.                                                   *)

EntriesLeft == x <= Len(cpu_entries)
Cpu == cpu_entries[x][1]
Capacity == cpu_entries[x][2]

\* Without the directory the iterator throws, and the function is noexcept.
\* Fault: wait for the directory to come back.
AfterNodeRetry(c) == IF DirectoryGone(c) THEN "node" ELSE "core"
AfterNode(c) == IF DirectoryGone(c) THEN "terminated" ELSE "core"

\* The nodeN link, which an offline CPU keeps.
ReadNode ==
  /\ pc = "node" /\ EntriesLeft
  /\ pc' = AfterNode(Cpu)
  /\ node_id' = IF DirectoryGone(Cpu) THEN 0 ELSE hw[Cpu].node
  /\ UNCHANGED <<machine, x, capacities, topo, tree, entries, core_id, llc_id>>

ReadCore ==
  /\ pc = "core" /\ core_id' = SysCore(Cpu) /\ pc' = "llc"
  /\ UNCHANGED <<machine, x, capacities, topo, tree, entries, node_id, llc_id>>

ReadLlc ==
  /\ pc = "llc" /\ llc_id' = SysLlc(Cpu) /\ pc' = "insert"
  /\ UNCHANGED <<machine, x, capacities, topo, tree, entries, node_id, core_id>>

\* Where the entry is filed.  Fault: core and LLC exchanged.
KeySwapped == <<node_id, core_id, llc_id>>
Key == <<node_id, llc_id, core_id>>

\* Fault: a new core replaces the one that is there.
NoThreadsAt(key) == <<>>
ThreadsAt(key) == IF key \in DOMAIN topo THEN topo[key].threads ELSE <<>>

\* The core, with the CPU as its next thread; the last CPU of a core decides
\* the core's performance level.
Filed(key) ==
  [core_id |-> core_id, perf_level |-> Tier(Capacity),
   threads |-> Append(ThreadsAt(key),
                 [thread_index |-> Len(ThreadsAt(key)), core_id |-> core_id,
                  os_id |-> Cpu, group_id |-> 0])]

Insert ==
  /\ pc = "insert"
  /\ topo' = With(topo, Key, Filed(Key))
  /\ x' = x + 1 /\ pc' = "node"
  /\ UNCHANGED <<machine, capacities, tree, linuxVars>>

Emit ==
  /\ pc = "node" /\ ~EntriesLeft
  /\ tree' = [tree EXCEPT !.numa_nodes = NodesOf(topo)]
  /\ pc' = "done"
  /\ UNCHANGED <<machine, x, capacities, topo, linuxVars>>

LinuxBuild == \/ ListCpu \/ SkipGone \/ Rank \/ ReadNode \/ ReadCore
              \/ ReadLlc \/ Insert \/ Emit

LinuxHotplug == ChangesTo({"online", "offline", "gone"}) /\ UNCHANGED linuxVars

=============================================================================
