------------------------------- MODULE Mapping -------------------------------
(***************************************************************************)
(* create_mapping_numa and create_mapping_phte of                          *)
(* bench_box/threading/threading.cpp: the order in which benchmark worker  *)
(* threads are pinned to the logical processors of a topology_tree.        *)
(*                                                                         *)
(* Both functions group the cores of one performance level by last level   *)
(* cache (build_groups_int_numa_int_llc), deal the groups out core by core *)
(* into one list per hardware-thread rank (interleave), and copy the lists *)
(* into the result (add_threads_to_result).  "numa" groups every level     *)
(* before it interleaves them into one set of lists; "phte" runs the three *)
(* phases for each level on its own.  One action is one step of a loop.    *)
(*                                                                         *)
(* A core is named by its place <<node, llc, index>> in the tree (the code *)
(* keeps a const core pointer), a logical processor by <<core, rank>>.     *)
(* Places count from 1, performance levels from 0 as in the code.          *)
(***************************************************************************)
EXTENDS Naturals, Sequences, FiniteSets

CONSTANT Trees  \* the topologies a mapping may be asked for

LogicalProcessor == [os_id : Nat, group_id : Nat]
Core     == [perf_level : Nat, threads : Seq(LogicalProcessor)]
NumaNode == Seq(Seq(Core))                          \* a node's LLC groups
Topology == [numa_nodes : Seq(NumaNode), perf_level_count : Nat]

ASSUME TreesAssumption == Trees \subseteq Topology

Policies == {"numa", "phte"}

VARIABLES
  policy, tree,                      \* which function runs, and on what
  pc,                                \* the loop the function is in
  lvl,                               \* performance level being grouped
  llc_index, node, k,                \* cursor of the grouping loops
  cores_in_group, groups,            \* group being filled, groups filled
  levels,                            \* groups waiting to be interleaved
  max_threads,                       \* most threads seen on a grouped core
  level, i, g,                       \* cursor of the interleaving loops
  thread_lists,                      \* one list of processors per rank
  t, j,                              \* cursor of the copying loops
  result                             \* the mapping

inputs     == <<policy, tree>>
scanVars   == <<llc_index, node, k, cores_in_group, groups, max_threads>>
interVars  == <<level, i, g, thread_lists>>
emitVars   == <<t, j, result>>
vars == <<inputs, pc, lvl, scanVars, levels, interVars, emitVars>>

-----------------------------------------------------------------------------
(* Reading the tree.                                                       *)

Nodes == tree.numa_nodes
CoreAt(p) == Nodes[p[1]][p[2]][p[3]]
PerfLevel(p) == CoreAt(p).perf_level
NumThreads(p) == Len(CoreAt(p).threads)

\* A node with too few LLC groups is skipped: it has no cores to offer.
CoresHere == IF llc_index <= Len(Nodes[node]) THEN Nodes[node][llc_index]
                                              ELSE <<>>

\* Fault: max_llc_count taken from the first node only.
LlcsLeftOfFirst == llc_index <= Len(Nodes[1])
\* llc_index < max_llc_count
LlcsLeft == \E n \in DOMAIN Nodes : llc_index <= Len(Nodes[n])

Belongs(p) == PerfLevel(p) = lvl /\ NumThreads(p) > 0

NextNode == IF node < Len(Nodes) THEN node + 1 ELSE 1
\* Fault: the LLC index is never advanced.
NextLlcStuck == llc_index
NextLlc == IF node < Len(Nodes) THEN llc_index ELSE llc_index + 1

Larger(a, b) == IF a < b THEN b ELSE a

\* The groups gs after one more was filled: an empty one is not kept.
\* Fault: one vector for all, so the cores join the group before.
KeptInLast(gs, cores) ==
  CASE cores = <<>> -> gs
    [] cores # <<>> /\ gs = <<>> -> <<cores>>
    [] OTHER -> [gs EXCEPT ![Len(gs)] = @ \o cores]
Kept(gs, cores) == IF cores = <<>> THEN gs ELSE Append(gs, cores)

\* The thread_lists before interleaving: as many as a core has threads.
\* Fault: the lists of the level before are not cleared.
UnclearedLists(n) ==
  [r \in 1..n |-> IF r <= Len(thread_lists) THEN thread_lists[r] ELSE <<>>]
EmptyLists(n) == [r \in 1..n |-> <<>>]

\* i < max_cores
CoresLeft(gs) == \E x \in DOMAIN gs : i <= Len(gs[x])

\* thread_lists after one core was dealt: its r-th processor joins list r.
\* Fault: one thread too many.
DealtTooMany(p) == [r \in DOMAIN thread_lists |->
  IF r <= NumThreads(p) + 1 THEN Append(thread_lists[r], <<p, r>>)
                            ELSE thread_lists[r]]
Dealt(p) == [r \in DOMAIN thread_lists |->
               IF r <= NumThreads(p) THEN Append(thread_lists[r], <<p, r>>)
                                     ELSE thread_lists[r]]

-----------------------------------------------------------------------------
Init ==
  /\ policy \in Policies /\ tree \in Trees
  /\ pc = "begin" /\ lvl = 0
  /\ llc_index = 1 /\ node = 1 /\ k = 1
  /\ cores_in_group = <<>> /\ groups = <<>> /\ max_threads = 0
  /\ levels = <<>>
  /\ level = 1 /\ i = 1 /\ g = 1 /\ thread_lists = <<>>
  /\ t = 1 /\ j = 1 /\ result = <<>>

\* A tree without nodes has the empty mapping.
Begin ==
  /\ pc = "begin"
  /\ pc' = IF Nodes = <<>> THEN "done" ELSE "level"
  /\ UNCHANGED <<inputs, lvl, scanVars, levels, interVars, emitVars>>

\* Start build_groups_int_numa_int_llc(topo_tree, lvl).
OpenLevel ==
  /\ pc = "level" /\ lvl < tree.perf_level_count
  /\ pc' = "scan"
  /\ llc_index' = 1 /\ node' = 1 /\ k' = 1
  /\ cores_in_group' = <<>> /\ groups' = <<>>
  /\ max_threads' = IF policy = "phte" THEN 0 ELSE max_threads
  /\ UNCHANGED <<inputs, lvl, levels, interVars, emitVars>>

\* One core of the group being filled: take it if it is of this level.
ScanCore ==
  /\ pc = "scan" /\ LlcsLeft /\ k <= Len(CoresHere)
  /\ LET p == <<node, llc_index, k>>
     IN  IF Belongs(p)
         THEN /\ cores_in_group' = Append(cores_in_group, p)
              /\ max_threads' = Larger(max_threads, NumThreads(p))
         ELSE UNCHANGED <<cores_in_group, max_threads>>
  /\ k' = k + 1
  /\ UNCHANGED <<inputs, pc, lvl, llc_index, node, groups, levels,
                 interVars, emitVars>>

\* Keep a group that is not empty; the same LLC of the next node is next,
\* and after the last node the next LLC of the first.
CloseGroup ==
  /\ pc = "scan" /\ LlcsLeft /\ k > Len(CoresHere)
  /\ groups' = Kept(groups, cores_in_group)
  /\ cores_in_group' = <<>> /\ k' = 1
  /\ node' = NextNode /\ llc_index' = NextLlc
  /\ UNCHANGED <<inputs, pc, lvl, max_threads, levels, interVars, emitVars>>

\* Fresh thread lists, and the interleaving cursor at the first core.
StartInterleave ==
  /\ pc' = "interleave"
  /\ thread_lists' = EmptyLists(max_threads)
  /\ level' = 1 /\ i' = 1 /\ g' = 1

\* build_groups returns: "numa" groups the next level, "phte" interleaves.
GroupsBuilt ==
  /\ pc = "scan" /\ ~LlcsLeft
  /\ levels' = Append(levels, groups)
  /\ lvl' = lvl + 1
  /\ IF policy = "phte" THEN StartInterleave
                        ELSE pc' = "level" /\ UNCHANGED interVars
  /\ UNCHANGED <<inputs, scanVars, emitVars>>

\* No level is left: "numa" interleaves all it has grouped.
LevelsDone ==
  /\ pc = "level" /\ lvl >= tree.perf_level_count
  /\ IF policy = "numa" THEN StartInterleave
                        ELSE pc' = "done" /\ UNCHANGED interVars
  /\ UNCHANGED <<inputs, lvl, scanVars, levels, emitVars>>

-----------------------------------------------------------------------------
(* interleave: round i deals the i-th core of every group that has one.    *)

Deal ==
  /\ pc = "interleave" /\ level <= Len(levels)
  /\ CoresLeft(levels[level]) /\ g <= Len(levels[level])
  /\ thread_lists' = IF i <= Len(levels[level][g])
                     THEN Dealt(levels[level][g][i]) ELSE thread_lists
  /\ g' = g + 1
  /\ UNCHANGED <<inputs, pc, lvl, scanVars, levels, level, i, emitVars>>

NextRound ==
  /\ pc = "interleave" /\ level <= Len(levels)
  /\ CoresLeft(levels[level]) /\ g > Len(levels[level])
  /\ i' = i + 1 /\ g' = 1
  /\ UNCHANGED <<inputs, pc, lvl, scanVars, levels, level, thread_lists,
                 emitVars>>

LevelDealt ==
  /\ pc = "interleave" /\ level <= Len(levels)
  /\ ~CoresLeft(levels[level])
  /\ level' = level + 1 /\ i' = 1 /\ g' = 1
  /\ UNCHANGED <<inputs, pc, lvl, scanVars, levels, thread_lists, emitVars>>

Interleaved ==
  /\ pc = "interleave" /\ level > Len(levels)
  /\ pc' = "emit" /\ t' = 1 /\ j' = 1
  /\ UNCHANGED <<inputs, lvl, scanVars, levels, interVars, result>>

-----------------------------------------------------------------------------
(* add_threads_to_result.                                                  *)

AddThread ==
  /\ pc = "emit" /\ t <= Len(thread_lists) /\ j <= Len(thread_lists[t])
  /\ result' = Append(result, thread_lists[t][j])
  /\ j' = j + 1
  /\ UNCHANGED <<inputs, pc, lvl, scanVars, levels, interVars, t>>

NextList ==
  /\ pc = "emit" /\ t <= Len(thread_lists) /\ j > Len(thread_lists[t])
  /\ t' = t + 1 /\ j' = 1
  /\ UNCHANGED <<inputs, pc, lvl, scanVars, levels, interVars, result>>

\* "numa" returns; "phte" goes on to the next level with no groups kept.
Emitted ==
  /\ pc = "emit" /\ t > Len(thread_lists)
  /\ IF policy = "numa" THEN pc' = "done" /\ UNCHANGED levels
                        ELSE pc' = "level" /\ levels' = <<>>
  /\ UNCHANGED <<inputs, lvl, scanVars, interVars, emitVars>>

\* The function has returned.
Terminating == pc = "done" /\ UNCHANGED vars

Next ==
  \/ Begin \/ OpenLevel \/ ScanCore \/ CloseGroup \/ GroupsBuilt
  \/ LevelsDone \/ Deal \/ NextRound \/ LevelDealt \/ Interleaved
  \/ AddThread \/ NextList \/ Emitted \/ Terminating

Spec == Init /\ [][Next]_vars

-----------------------------------------------------------------------------
(* Properties.                                                             *)

Places == {p \in Nat \X Nat \X Nat :
             /\ p[1] \in DOMAIN Nodes
             /\ p[2] \in DOMAIN Nodes[p[1]]
             /\ p[3] \in DOMAIN Nodes[p[1]][p[2]]}
Processors == {th \in Places \X Nat : th[2] \in 1..NumThreads(th[1])}

\* Every pointer the functions keep (into the tree they were given) points
\* at a core or a logical processor of that tree, and every cursor is in
\* the range its loop gives it.
TypeOK ==
  /\ policy \in Policies /\ tree \in Topology
  /\ pc \in {"begin", "level", "scan", "interleave", "emit", "done"}
  /\ lvl \in Nat /\ max_threads \in Nat
  /\ llc_index \in Nat \ {0} /\ node \in Nat \ {0} /\ k \in Nat \ {0}
  /\ Nodes # <<>> => node \in DOMAIN Nodes
  /\ pc \notin {"begin", "done"} => Nodes # <<>>
  /\ cores_in_group \in Seq(Places)
  /\ groups \in Seq(Seq(Places))
  /\ levels \in Seq(Seq(Seq(Places)))
  /\ level \in Nat \ {0} /\ i \in Nat \ {0} /\ g \in Nat \ {0}
  /\ thread_lists \in Seq(Seq(Processors))
  /\ t \in Nat \ {0} /\ j \in Nat \ {0}
  /\ result \in Seq(Processors)

\* No logical processor is handed to two workers: the result never holds
\* the same processor twice, through all the copying from groups to lists
\* to result (create_mapping_numa, create_mapping_phte).
MappedOnce ==
  \A x, y \in DOMAIN result : result[x] = result[y] => x = y

\* No processor is forgotten: a finished mapping holds every thread of every
\* core whose level exists, also when groups, nodes and cores differ in size.
AllMapped ==
  pc = "done" =>
    \A n \in DOMAIN Nodes : \A l \in DOMAIN Nodes[n] :
      \A c \in DOMAIN Nodes[n][l] :
        PerfLevel(<<n, l, c>>) < tree.perf_level_count =>
          \A r \in 1..NumThreads(<<n, l, c>>) :
            \E x \in DOMAIN result : result[x] = <<<<n, l, c>>, r>>

\* How many cores of level v of LLC l of node n have a first thread in s, and
\* how many have a first thread.
FirstThreads(s, n, l, v) ==
  Cardinality({x \in DOMAIN s : /\ s[x][2] = 1 /\ PerfLevel(s[x][1]) = v
                                /\ s[x][1][1] = n /\ s[x][1][2] = l})
CoresOfLevel(n, l, v) ==
  Cardinality({c \in DOMAIN Nodes[n][l] : /\ PerfLevel(<<n, l, c>>) = v
                                          /\ NumThreads(<<n, l, c>>) > 0})

\* Interleaving spreads the load: whatever number of workers is started, the
\* cores of a level in use in two LLCs differ by at most one in number,
\* unless the LLC that is behind has none left (interleave's rounds).
Balanced ==
  \A v \in 0..(tree.perf_level_count - 1) :
    \A n1, n2 \in DOMAIN Nodes :
      \A l1 \in DOMAIN Nodes[n1], l2 \in DOMAIN Nodes[n2] :
        LET behind == FirstThreads(result, n1, l1, v)
        IN  \/ behind = CoresOfLevel(n1, l1, v)
            \/ FirstThreads(result, n2, l2, v) <= behind + 1

\* get_default_thread_count: the number of cores.  (For a tree without nodes
\* it asks the library; the mapping is empty then and pins nobody.)
CoresOfNode(nd) ==
  LET f[l \in 0..Len(nd)] == IF l = 0 THEN 0 ELSE f[l - 1] + Len(nd[l])
  IN  f[Len(nd)]
DefaultThreadCount(tr) ==
  LET f[n \in 0..Len(tr.numa_nodes)] ==
        IF n = 0 THEN 0 ELSE f[n - 1] + CoresOfNode(tr.numa_nodes[n])
  IN  f[Len(tr.numa_nodes)]

EveryCoreUsable ==
  \A n \in DOMAIN Nodes : \A l \in DOMAIN Nodes[n] :
    \A c \in DOMAIN Nodes[n][l] :
      /\ NumThreads(<<n, l, c>>) > 0
      /\ PerfLevel(<<n, l, c>>) < tree.perf_level_count

\* With the default number of workers, get_default_thread_count, the "numa"
\* mapping gives every worker a processor, each on a core of its own.
DefaultThreadsOnOwnCores ==
  pc = "done" /\ policy = "numa" /\ Nodes # <<>> /\ EveryCoreUsable =>
    /\ DefaultThreadCount(tree) <= Len(result)
    /\ \A x, y \in 1..DefaultThreadCount(tree) :
         result[x][1] = result[y][1] => x = y

\* The mapping returned, as its logical processors and as their os_ids.
Lp(th) == CoreAt(th[1]).threads[th[2]]
OsIds == [x \in DOMAIN result |-> Lp(result[x]).os_id]

\* The loops implement the order MappingPolicy states.
Policy == INSTANCE MappingPolicy WITH mapping <- result
PolicySpec == Policy!Spec

=============================================================================
