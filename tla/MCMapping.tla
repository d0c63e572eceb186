------------------------------ MODULE MCMapping ------------------------------
(* Mapping on small topologies: two NUMA nodes, one of up to two LLC       *)
(* groups and one of at most one, of up to two cores of two kinds; one     *)
(* node with a core that has no thread or a level the tree does not count; *)
(* LLC groups of three cores beside one of one; no tree at all; and the    *)
(* machines of the unit tests.  Workers run on three more machines, one of *)
(* them with two processor groups, as many as there are cores, processors, *)
(* or more, on all CPUs or all but one.                                    *)
EXTENDS MCMappingTests, Affinity

\* Kinds of cores; a core's os_ids do not matter to the order.
Fast == Threads(0, <<0, 1>>)
Slow == Threads(1, <<0>>)
Odd  == Threads(0, <<>>)
Lost == Threads(2, <<0>>)

UpTo1(S) == {<<>>} \cup {<<a>> : a \in S}
UpTo2(S) == UpTo1(S) \cup {<<a, b>> : a, b \in S}

OneNode == {<<<<a>>>> : a \in UpTo2({Fast, Slow, Odd, Lost})}
           \cup {<<<<a, b>>>> : a \in UpTo2({Fast, Odd}), b \in UpTo2({Fast, Lost})}
Wide    == UpTo1(UpTo2({Fast, Slow}))
           \cup {<<a, b>> : a \in UpTo2({Fast, Slow}), b \in {<<Fast>>, <<Slow>>}}
Narrow  == UpTo1(UpTo2({Fast, Slow}))
TwoNode == {<<a, b>> : a \in Wide, b \in Narrow}
           \cup {<<b, a>> : a \in Wide, b \in Narrow}

\* Where one LLC group has three cores the rounds last longer.
Three    == {<<a, b, c>> : a, b, c \in {Fast, Slow}}
Lopsided == {<<<<a>>, <<b, <<c>>>>>> : a, b \in Three, c \in {Fast, Slow}}

\* A fast core with two threads and a slow one; an LLC group in each of two
\* nodes, with two cores and one.
Hybrid  == [numa_nodes |-> <<<<<<Threads(0, <<0, 1>>), Threads(1, <<2>>)>>>>>>,
            perf_level_count |-> 2]
TwoNuma == [numa_nodes |-> <<<<<<Threads(0, <<0>>), Threads(0, <<2>>)>>>>,
                             <<<<Threads(0, <<1, 3>>)>>>>>>, perf_level_count |-> 1]

\* On Windows, a machine whose second processor group counts from 0 again.
InGroup1(core) ==
  [core EXCEPT !.threads = [r \in DOMAIN @ |-> [@[r] EXCEPT !.group_id = 1]]]
TwoGroups == [numa_nodes |-> <<<<<<Threads(0, <<0, 1>>), Threads(1, <<2>>)>>>>,
                               <<<<InGroup1(Threads(0, <<0, 1>>))>>>>>>,
              perf_level_count |-> 2]
WorkerTrees == {Hybrid, TwoNuma, TwoGroups}

MCTrees == {[numa_nodes |-> ns, perf_level_count |-> 2] :
              ns \in {<<>>} \cup OneNode \cup TwoNode \cup Lopsided}
           \cup TestTrees \cup WorkerTrees

\* The program may use the whole machine, or all of it but one CPU.
AllowedOn(tr) == {CpusOf(tr)} \cup {CpusOf(tr) \ {c} : c \in CpusOf(tr)}

On(tr, platforms) ==
  {[tree |-> tr, platform |-> p, thread_count |-> n, allowed |-> cpus_allowed] :
     p \in platforms, n \in 3..4, cpus_allowed \in AllowedOn(tr)}
MCPrograms ==
  {[tree |-> tr, platform |-> "other", thread_count |-> 0, allowed |-> CpusOf(tr)] :
     tr \in MCTrees}
  \cup On(Hybrid, {"linux", "windows", "other"})
  \cup On(TwoNuma, {"linux", "windows", "other"})
  \cup On(TwoGroups, {"windows"})
=============================================================================
