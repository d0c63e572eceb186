---------------------------- MODULE MappingPolicy ----------------------------
(***************************************************************************)
(* What the thread mappings of threading.cpp promise, without their loops: *)
(* the mapping is a total order on the logical processors of the           *)
(* performance levels that exist, and each next worker gets the least      *)
(* processor not used yet.                                                 *)
(*                                                                         *)
(*   numa  first every core's first thread, fast cores before slow ones,   *)
(*         then every core's second thread, and so on;                     *)
(*   phte  all threads of the fast cores, rank by rank, before any slow    *)
(*         core (a performance tier is never mixed with another).          *)
(*                                                                         *)
(* Cores alike in rank and level are dealt round by round, a core from     *)
(* each LLC: LLC 1 of node 1, LLC 1 of node 2, ..., LLC 2 of node 1, ...   *)
(***************************************************************************)
EXTENDS Naturals, Sequences, FiniteSets

VARIABLES policy, tree, mapping

CoresOf(n, l) == tree.numa_nodes[n][l]
LevelOf(p) == CoresOf(p[1], p[2])[p[3]].perf_level
ThreadsOf(p) == CoresOf(p[1], p[2])[p[3]].threads

CorePlaces ==
  UNION {UNION {{<<n, l, c>> : c \in DOMAIN CoresOf(n, l)} :
                l \in DOMAIN tree.numa_nodes[n]} :
         n \in DOMAIN tree.numa_nodes}

\* The processors a mapping covers.
Processors ==
  UNION {{<<p, r>> : r \in DOMAIN ThreadsOf(p)} :
         p \in {q \in CorePlaces : LevelOf(q) < tree.perf_level_count}}

\* The round in which a core is dealt: its place among the cores of its LLC
\* that have its level and a thread to give.
Round(p) == Cardinality({q \in CorePlaces :
                           /\ q[1] = p[1] /\ q[2] = p[2] /\ q[3] < p[3]
                           /\ LevelOf(q) = LevelOf(p) /\ ThreadsOf(q) # <<>>})

Key(th) ==
  LET p == th[1]
      place == <<Round(p), p[2], p[1]>>
  IN  IF policy = "numa" THEN <<th[2], LevelOf(p)>> \o place
                         ELSE <<LevelOf(p), th[2]>> \o place

\* Lexicographic order.
Precedes(a, b) ==
  \E x \in DOMAIN a : a[x] < b[x] /\ \A y \in 1..(x - 1) : a[y] = b[y]

Unused == Processors \ {mapping[x] : x \in DOMAIN mapping}

Init == mapping = <<>>

PlaceNext ==
  /\ LET key == [th \in Unused |-> Key(th)]
     IN  \E th \in Unused :
           /\ \A o \in Unused \ {th} : Precedes(key[th], key[o])
           /\ mapping' = Append(mapping, th)
  /\ UNCHANGED <<policy, tree>>

policy_vars == <<policy, tree, mapping>>
Safety == Init /\ [][PlaceNext]_policy_vars

\* A mapping that was begun is finished.
Spec == Safety /\ WF_policy_vars(PlaceNext)
=============================================================================
