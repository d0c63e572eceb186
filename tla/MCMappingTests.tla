---------------------------- MODULE MCMappingTests ----------------------------
(* Mapping on the topologies of src/test/src/mapping.cpp, with the orders  *)
(* mapping_numa_test.cpp and mapping_phte_test.cpp expect.                 *)
EXTENDS Mapping

\* A core of a level, with threads of these os_ids in processor group 0.
Threads(perf, os_ids) ==
  [perf_level |-> perf,
   threads |-> [r \in DOMAIN os_ids |-> [os_id |-> os_ids[r], group_id |-> 0]]]

\* n cores of one level with two threads each, os_ids counting from first.
Smt(first, n) ==
  [c \in 1..n |-> Threads(0, <<first + 2 * (c - 1), first + 2 * c - 1>>)]
ECores(first, n) == [c \in 1..n |-> Threads(1, <<first + c - 1>>)]

i7700k  == [numa_nodes |-> <<<<Smt(0, 4)>>>>, perf_level_count |-> 1]
DualSocket2c2t ==
  [numa_nodes |-> <<<<Smt(0, 2)>>, <<Smt(4, 2)>>>>, perf_level_count |-> 1]
Alder2p2e ==
  [numa_nodes |-> <<<<Smt(0, 2) \o ECores(4, 2)>>>>, perf_level_count |-> 2]
Meteor2p2e2lpe ==
  [numa_nodes |-> <<<<Smt(0, 2) \o ECores(4, 2)>>, <<ECores(6, 2)>>>>,
   perf_level_count |-> 2]
MultiCCD ==
  [numa_nodes |-> <<<<Smt(0, 4), Smt(8, 4)>>>>, perf_level_count |-> 1]
DualSocketMultiCCD ==
  [numa_nodes |-> <<<<Smt(0, 4), Smt(8, 4)>>, <<Smt(16, 4), Smt(24, 4)>>>>,
   perf_level_count |-> 1]

TestTrees == {i7700k, DualSocket2c2t, Alder2p2e, Meteor2p2e2lpe, MultiCCD,
              DualSocketMultiCCD}

\* s, then s with every os_id one higher: the second threads.
ThenSiblings(s) == s \o [x \in DOMAIN s |-> s[x] + 1]

Expected(p, tr) ==
  CASE tr = i7700k          -> ThenSiblings(<<0, 2, 4, 6>>)
    [] tr = DualSocket2c2t  -> ThenSiblings(<<0, 4, 2, 6>>)
    [] tr = Alder2p2e       -> IF p = "numa" THEN <<0, 2, 4, 5, 1, 3>>
                                             ELSE <<0, 2, 1, 3, 4, 5>>
    [] tr = Meteor2p2e2lpe  -> IF p = "numa" THEN <<0, 2, 4, 6, 5, 7, 1, 3>>
                                             ELSE <<0, 2, 1, 3, 4, 6, 5, 7>>
    [] tr = MultiCCD        -> ThenSiblings(<<0, 8, 2, 10, 4, 12, 6, 14>>)
    [] tr = DualSocketMultiCCD ->
         ThenSiblings(<<0, 16, 8, 24, 2, 18, 10, 26,
                        4, 20, 12, 28, 6, 22, 14, 30>>)

\* The mapping returned is, os_id for os_id, the one the unit tests of
\* create_mapping_numa and create_mapping_phte expect.
AsTested ==
  pc = "done" /\ tree \in TestTrees => OsIds = Expected(policy, tree)
=============================================================================
