--------------------------- MODULE TopologyWindows ---------------------------
(***************************************************************************)
(* build_topo_tree of bench_box/threading/topology.cpp for Windows: ask    *)
(* how long the description of the processors is, fetch it into a buffer   *)
(* of that length, and read the buffer twice: the NUMA nodes and caches    *)
(* first, which say where a processor is, then the cores.                  *)
(*                                                                         *)
(* External: the description, a record for each NUMA node, cache and core  *)
(* with the mask of its processors, in any order; a node that has them in  *)
(* two processor groups gives the mask of the first.  Processors may be    *)
(* added to the machine, not taken away.                                   *)
(***************************************************************************)
EXTENDS TopologyTree

ASSUME WindowsAssumption ==  \* a core is in one group
  \A h \in Hardware : \A c, d \in Cpus :
    <<h[c].node, h[c].llc, h[c].core>> = <<h[d].node, h[d].llc, h[d].core>>
      => c \div GroupSize = d \div GroupSize

VARIABLES
  length, buffer, unread,     \* the buffer, what the loop has yet to reach
  cpu_to_numa, cpu_to_llc,    \* what the first pass has found
  llc_counter, core_counter

snapshot    == <<length, buffer>>
counters    == <<llc_counter, core_counter>>
windowsVars == <<snapshot, unread, cpu_to_numa, cpu_to_llc, counters>>

WindowsInit == /\ length = 0 /\ buffer = {} /\ unread = {}
               /\ cpu_to_numa = <<>> /\ cpu_to_llc = <<>>
               /\ llc_counter = 0 /\ core_counter = 0

-----------------------------------------------------------------------------
(* The description of the machine as it is.                                *)

Present == {c \in Cpus : Online(c)}
NodeMask(n) == {c \in Present : hw[c].node = n}
FirstGroup(S) == {c \in S : c \div GroupSize = Min(S) \div GroupSize}
LlcMask(l) == {c \in Present : hw[c].llc = l}
CoreMask(d) == {c \in Present : hw[c].node = hw[d].node /\ hw[c].llc = hw[d].llc
                                  /\ hw[c].core = hw[d].core}

NodeRecords == {[relation |-> "node", node_number |-> n,
                 mask |-> FirstGroup(NodeMask(n))] : n \in {hw[c].node : c \in Present}}
CacheRecords ==
  {[relation |-> "cache", level |-> 3, mask |-> LlcMask(l)] :
     l \in {hw[c].llc : c \in Present} \ {NoLlc}}
  \cup {[relation |-> "cache", level |-> 2, mask |-> CoreMask(c)] : c \in Present}
\* A core has one class: that of its first processor here.
CoreRecords ==
  {[relation |-> "core", efficiency_class |-> hw[Min(CoreMask(c))].capacity,
    mask |-> CoreMask(c)] : c \in Present}
Description == NodeRecords \cup CacheRecords \cup CoreRecords

Of(relations) == {r \in buffer : r.relation \in relations}

-----------------------------------------------------------------------------
AskLength ==
  /\ pc = "length" /\ length' = Cardinality(Description) /\ pc' = "fetch"
  /\ UNCHANGED <<machine, x, capacities, topo, tree, buffer, unread,
                 cpu_to_numa, cpu_to_llc, counters>>

\* The buffer is too short for a description that has grown: the tree stays
\* empty.
Fetch ==
  /\ pc = "fetch"
  /\ IF Cardinality(Description) > length
     THEN pc' = "done" /\ UNCHANGED <<snapshot, unread>>
     ELSE /\ pc' = "places" /\ buffer' = Description
          /\ length' = Cardinality(Description)
          /\ unread' = NodeRecords \cup CacheRecords
  /\ UNCHANGED <<machine, x, capacities, topo, tree, cpu_to_numa, cpu_to_llc,
                 counters>>

\* For every processor of the mask: the map, with this value.
Noted(map, mask, value) ==
  [c \in DOMAIN map \cup mask |-> IF c \in mask THEN value ELSE map[c]]

\* cache.Level == 3.  Fault: caches of any level.
IsAnyCache(r) == TRUE
IsLlc(r) == r.level = 3

\* Records of cores are passed over.
ReadPlace ==
  /\ pc = "places"
  /\ \E r \in unread :
       /\ unread' = unread \ {r}
       /\ \/ /\ r.relation = "node"
             /\ cpu_to_numa' = Noted(cpu_to_numa, r.mask, r.node_number)
             /\ UNCHANGED <<cpu_to_llc, llc_counter>>
          \/ /\ r.relation = "cache" /\ IsLlc(r)
             /\ cpu_to_llc' = Noted(cpu_to_llc, r.mask, llc_counter)
             /\ llc_counter' = llc_counter + 1
             /\ UNCHANGED cpu_to_numa
          \/ /\ r.relation = "cache" /\ ~IsLlc(r)
             /\ UNCHANGED <<cpu_to_numa, cpu_to_llc, llc_counter>>
  /\ UNCHANGED <<machine, pc, x, capacities, topo, tree, snapshot, core_counter>>

PlacesRead ==
  /\ pc = "places" /\ unread = {}
  /\ unread' = Of({"core"}) /\ pc' = "cores"
  /\ UNCHANGED <<machine, x, capacities, topo, tree, snapshot, cpu_to_numa,
                 cpu_to_llc, counters>>

\* A processor that no record has placed is in node 0 and LLC 0.
PlaceOf(map, c) == IF c \in DOMAIN map THEN map[c] ELSE 0

\* node_id of the last processor, llc_id of the first.  (A core is numbered
\* before its record is filed.)
RecordKey(cs) == <<PlaceOf(cpu_to_numa, cs[Len(cs)]), PlaceOf(cpu_to_llc, cs[1]),
                   core_counter>>

FiledRecord(r, cs) ==
  [core_id |-> core_counter, perf_level |-> r.efficiency_class,
   threads |-> [k \in DOMAIN cs |->
     [thread_index |-> k - 1, core_id |-> core_counter,
      os_id |-> cs[k] % GroupSize, group_id |-> cs[k] \div GroupSize]]]

ReadCoreRecord ==
  /\ pc = "cores"
  /\ \E r \in unread :
       LET cs == Ordered(r.mask)
       IN  /\ unread' = unread \ {r}
           /\ capacities' = capacities \cup {r.efficiency_class}
           /\ topo' = With(topo, RecordKey(cs), FiledRecord(r, cs))
  /\ core_counter' = core_counter + 1
  /\ UNCHANGED <<machine, pc, x, tree, snapshot, cpu_to_numa, cpu_to_llc,
                 llc_counter>>

\* Classes become tiers, and the map the tree.
RankAndEmit ==
  /\ pc = "cores" /\ unread = {} /\ pc' = "done"
  /\ topo' = [q \in DOMAIN topo |->
                [topo[q] EXCEPT !.perf_level = Tier(topo[q].perf_level)]]
  /\ tree' = [numa_nodes |-> NodesOf(topo'),
              perf_level_count |-> Cardinality(capacities)]
  /\ UNCHANGED <<machine, x, capacities, windowsVars>>

WindowsBuild == \/ AskLength \/ Fetch \/ ReadPlace \/ PlacesRead
                \/ ReadCoreRecord \/ RankAndEmit

WindowsHotplug == ChangesTo({"online"}) /\ UNCHANGED windowsVars

=============================================================================
