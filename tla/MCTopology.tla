------------------------------ MODULE MCTopology ------------------------------
(* Topology on machines of three CPUs, and macOS with up to nine levels.   *)
EXTENDS Topology

MCCpus == {0, 1, 2}

At(cap, n, l, c) == [capacity |-> cap, node |-> n, llc |-> l, core |-> c]
Machine(a, b, c) == [cpu \in MCCpus |-> CASE cpu = 0 -> a [] cpu = 1 -> b
                                          [] cpu = 2 -> c]

\* A fast core with two threads and a slow one, their node over two groups; a
\* core with two threads on node 1 and one on node 0; two nodes with an LLC
\* each, one of two cores, and core ids that start again; a slow core without
\* an LLC.
Hybrid   == Machine(At(1024, 0, 0, 0), At(1024, 0, 0, 0), At(512, 0, 0, 1))
TwoNodes == Machine(At(1024, 1, 1, 0), At(1024, 1, 1, 0), At(1024, 0, 0, 0))
TwoLlcs  == Machine(At(768, 0, 0, 0), At(1024, 0, 0, 1), At(512, 1, 1, 0))
LowPower == Machine(At(1024, 0, 0, 0), At(1024, 0, 0, 0), At(512, 0, NoLlc, 1))

MCHardware == {Hybrid, TwoNodes, TwoLlcs, LowPower}
AllOnline  == {{}}
AnyOffline == (SUBSET MCCpus) \ {MCCpus}
MCLevels   == {<<>>, <<2>>, <<2, 1>>, <<1, 0, 1>>, [lvl \in 1..9 |-> 1]}
AllPlatforms == {"linux", "windows", "mac", "other"}
LinuxOnly    == {"linux"}
=============================================================================
