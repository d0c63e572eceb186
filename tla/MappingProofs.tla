---------------------------- MODULE MappingProofs ----------------------------
(* Theorems about Mapping: the pointers it keeps stay inside the tree, no  *)
(* logical processor is mapped twice and none is left out, they are handed *)
(* out in the order of MappingPolicy, and so evenly.  And about Affinity,  *)
(* which runs Mapping: where the workers pinned by a mapping are.          *)
EXTENDS Affinity, FiniteSetTheorems, SequenceTheorems, WellFoundedInduction,
        TLAPS

-----------------------------------------------------------------------------
(* The inductive invariants behind MappedOnce and AllMapped: what each     *)
(* phase of a mapping knows of the cores and processors the phases before  *)
(* it have passed on, that none is there twice and that none is missing;   *)
(* and behind the refinement of MappingPolicy, Balanced and                *)
(* DefaultThreadsOnOwnCores: the order they are in.                        *)

\* No core is twice in the groups gs.
Apart(gs) ==
  \A x, y \in DOMAIN gs : \A a \in DOMAIN gs[x], b \in DOMAIN gs[y] :
    gs[x][a] = gs[y][b] => x = y /\ a = b

NoRepeat(s) == \A x, y \in DOMAIN s : s[x] = s[y] => x = y

\* The group being filled holds cores of this LLC passed by the cursor, the
\* groups filled hold cores of LLCs passed by the cursor, all of this level.
ScanInv ==
  pc = "scan" =>
    /\ NoRepeat(cores_in_group)
    /\ \A a \in DOMAIN cores_in_group :
         /\ cores_in_group[a][1] = node /\ cores_in_group[a][2] = llc_index
         /\ cores_in_group[a][3] < k /\ PerfLevel(cores_in_group[a]) = lvl
    /\ Apart(groups)
    /\ \A x \in DOMAIN groups : \A a \in DOMAIN groups[x] :
         LET p == groups[x][a]
         IN  /\ PerfLevel(p) = lvl
             /\ p[2] < llc_index \/ (p[2] = llc_index /\ p[1] < node)

\* The groups waiting are those of the last Len(levels) levels before lvl,
\* each level's cores in their own place; "phte" keeps one level at most.
LevelsInv ==
  /\ \A v \in DOMAIN levels :
       /\ Apart(levels[v])
       /\ \A x \in DOMAIN levels[v] : \A a \in DOMAIN levels[v][x] :
            PerfLevel(levels[v][x][a]) + Len(levels) + 1 = lvl + v
  /\ policy = "phte" /\ pc \in {"begin", "level", "scan"} => levels = <<>>
  /\ policy = "phte" /\ pc \in {"interleave", "emit"} => Len(levels) = 1

\* Position (v, x, a) was dealt before the interleaving cursor.
Passed(v, x, a) == v < level \/ (v = level /\ (a < i \/ (a = i /\ x < g)))

\* List r holds r-th threads of cores dealt so far, each once.
ListsInv ==
  pc \in {"interleave", "emit"} =>
    \A r \in DOMAIN thread_lists :
      /\ NoRepeat(thread_lists[r])
      /\ \A b \in DOMAIN thread_lists[r] :
           /\ thread_lists[r][b][2] = r
           /\ \E v \in DOMAIN levels : \E x \in DOMAIN levels[v] :
                \E a \in DOMAIN levels[v][x] :
                  /\ levels[v][x][a] = thread_lists[r][b][1]
                  /\ Passed(v, x, a)

\* While copying, the result holds what is before the copying cursor, and for
\* "phte" what the levels before the last one gave.
ResultInv ==
  /\ policy = "numa" /\ pc \notin {"emit", "done"} => result = <<>>
  /\ policy = "phte" =>
       \A x \in DOMAIN result :
         /\ PerfLevel(result[x][1]) < lvl
         /\ pc = "interleave" => PerfLevel(result[x][1]) + 1 < lvl
  /\ pc = "emit" =>
       \A x \in DOMAIN result :
         \/ policy = "phte" /\ PerfLevel(result[x][1]) + 1 < lvl
         \/ result[x][2] < t
         \/ result[x][2] = t /\ \E b \in DOMAIN thread_lists[t] :
                                  b < j /\ thread_lists[t][b] = result[x]

\* Holds of every reachable state, and is kept by every step: each core is
\* grouped once, each grouped core dealt once, each list entry copied once.
OnceInv == ScanInv /\ LevelsInv /\ ListsInv /\ ResultInv /\ MappedOnce

-----------------------------------------------------------------------------
(* Nothing is missing.                                                     *)

\* Places, as a set that can be enumerated.
CorePlaces == UNION {UNION {{<<n, l, c>> : c \in DOMAIN Nodes[n][l]} :
                             l \in DOMAIN Nodes[n]} : n \in DOMAIN Nodes}
Usable == {p \in CorePlaces : NumThreads(p) > 0}

InGroups(gs, p) == \E x \in DOMAIN gs : \E a \in DOMAIN gs[x] : gs[x][a] = p
InList(s, e) == \E x \in DOMAIN s : s[x] = e

\* What the cursor has passed of this level is in a group.
GroupedInv ==
  pc = "scan" => \A p \in Usable : PerfLevel(p) = lvl =>
    /\ p[2] < llc_index \/ (p[2] = llc_index /\ p[1] < node) => InGroups(groups, p)
    /\ p[2] = llc_index /\ p[1] = node /\ p[3] < k => InList(cores_in_group, p)

\* The levels that have been grouped and not copied: all before lvl for
\* "numa", the last of them for "phte".
Pending(p) ==
  \/ policy = "numa" /\ PerfLevel(p) < lvl
  \/ policy = "phte" /\ pc \in {"interleave", "emit"} /\ PerfLevel(p) + 1 = lvl

\* Their cores wait to be interleaved; "numa" has grouped all levels by then.
WaitingInv ==
  /\ \A p \in Usable : Pending(p) => \E v \in DOMAIN levels : InGroups(levels[v], p)
  /\ policy = "numa" /\ pc \in {"interleave", "emit"} => lvl >= tree.perf_level_count
  /\ pc = "done" /\ Nodes # <<>> => lvl >= tree.perf_level_count

\* There is a list for every thread of every core grouped.
RanksInv ==
  /\ \A v \in DOMAIN levels : \A x \in DOMAIN levels[v] : \A a \in DOMAIN levels[v][x] :
       NumThreads(levels[v][x][a]) <= max_threads
  /\ pc = "scan" =>
       /\ \A x \in DOMAIN groups : \A a \in DOMAIN groups[x] :
            NumThreads(groups[x][a]) <= max_threads
       /\ \A a \in DOMAIN cores_in_group : NumThreads(cores_in_group[a]) <= max_threads
  /\ pc \in {"interleave", "emit"} => Len(thread_lists) = max_threads

\* The cores dealt have all their threads in the lists.
DealtInv ==
  /\ pc \in {"interleave", "emit"} =>
       \A v \in DOMAIN levels : \A x \in DOMAIN levels[v] : \A a \in DOMAIN levels[v][x] :
         Passed(v, x, a) => \A r \in 1..NumThreads(levels[v][x][a]) :
                              InList(thread_lists[r], <<levels[v][x][a], r>>)
  /\ pc = "emit" => level > Len(levels)

\* What is before the copying cursor is in the result.
CopiedInv ==
  pc = "emit" => \A r \in DOMAIN thread_lists : \A b \in DOMAIN thread_lists[r] :
    r < t \/ (r = t /\ b < j) => InList(result, thread_lists[r][b])

\* The levels that have been copied are in the result whole.
Finished(p) ==
  \/ policy = "numa" /\ pc = "done" /\ PerfLevel(p) < lvl
  \/ policy = "phte" /\ PerfLevel(p) + 1 < lvl
  \/ policy = "phte" /\ pc \notin {"interleave", "emit"} /\ PerfLevel(p) < lvl

FinishedInv ==
  \A p \in Usable : Finished(p) => \A r \in 1..NumThreads(p) : InList(result, <<p, r>>)

AllInv == /\ GroupedInv /\ WaitingInv /\ RanksInv /\ DealtInv /\ CopiedInv
          /\ FinishedInv

-----------------------------------------------------------------------------
(* The order is that of the policy.                                        *)

\* The cores of an LLC that are dealt before core p of theirs, in rounds of
\* their own, and those the cursor has passed.
Ahead(p) == {q \in Usable : /\ q[1] = p[1] /\ q[2] = p[2] /\ q[3] < p[3]
                            /\ PerfLevel(q) = PerfLevel(p)}
Passing == {q \in Usable : /\ q[1] = node /\ q[2] = llc_index /\ q[3] < k
                           /\ PerfLevel(q) = lvl}

\* The a-th core of a group is dealt in round a, and the groups are in the
\* order of their LLCs and then their nodes.
LlcBefore(p, q) == p[2] < q[2] \/ (p[2] = q[2] /\ p[1] < q[1])
InRounds(cores) == \A a \in DOMAIN cores : Cardinality(Ahead(cores[a])) = a - 1
InOrder(gs) ==
  /\ \A x \in DOMAIN gs : InRounds(gs[x])
  /\ \A x, y \in DOMAIN gs : x < y =>
       \A a \in DOMAIN gs[x], b \in DOMAIN gs[y] : LlcBefore(gs[x][a], gs[y][b])

RoundsInv ==
  /\ pc = "scan" =>
       /\ IsFiniteSet(Passing) /\ Len(cores_in_group) = Cardinality(Passing)
       /\ InRounds(cores_in_group) /\ InOrder(groups)
  /\ \A v \in DOMAIN levels : InOrder(levels[v])

\* Lists are sorted: by level, round, LLC and node.
DealtBefore(p, q) ==
  \/ PerfLevel(p) < PerfLevel(q)
  \/ /\ PerfLevel(p) = PerfLevel(q)
     /\ \/ Cardinality(Ahead(p)) < Cardinality(Ahead(q))
        \/ Cardinality(Ahead(p)) = Cardinality(Ahead(q)) /\ LlcBefore(p, q)

SortedInv ==
  pc \in {"interleave", "emit"} =>
    \A r \in DOMAIN thread_lists : \A b, c \in DOMAIN thread_lists[r] :
      b < c => DealtBefore(thread_lists[r][b][1], thread_lists[r][c][1])

\* Only levels that exist are grouped.
BoundInv == /\ lvl <= tree.perf_level_count
            /\ pc = "scan" => lvl < tree.perf_level_count

OrderInv == RoundsInv /\ SortedInv /\ BoundInv

\* At any moment the processors handed out come before all others, and those
\* of "numa" are in the order of their ranks.
ClosedInv ==
  \A x \in DOMAIN result : \A o \in Policy!Unused :
    Policy!Precedes(Policy!Key(result[x]), Policy!Key(o))
RankInv ==
  policy = "numa" =>
    \A x, y \in DOMAIN result : x < y => result[x][2] <= result[y][2]

HandedInv == ClosedInv /\ RankInv

-----------------------------------------------------------------------------
(* Sequences. *)

\* An element of a sequence over S is in S.
LEMMA SeqElement ==
  ASSUME NEW S, NEW s \in Seq(S), NEW x \in DOMAIN s
  PROVE  s[x] \in S
  OBVIOUS

\* The positions of a sequence are natural numbers.
LEMMA SeqIndex ==
  ASSUME NEW S, NEW s \in Seq(S), NEW x \in DOMAIN s
  PROVE  Len(s) \in Nat /\ x \in Nat
  OBVIOUS

\* Appending an element of S to a sequence over S gives a sequence over S.
LEMMA AppendType ==
  ASSUME NEW S, NEW s \in Seq(S), NEW e \in S
  PROVE  Append(s, e) \in Seq(S)
  OBVIOUS

\* The empty sequence is one over every set.
LEMMA EmptyType == ASSUME NEW S PROVE <<>> \in Seq(S)
  OBVIOUS

\* A function on 1..n is a sequence of length n.
LEMMA FunctionSeq ==
  ASSUME NEW S, NEW n \in Nat, NEW f \in [1..n -> S]
  PROVE  f \in Seq(S)
  OBVIOUS

-----------------------------------------------------------------------------
(* The tree. *)

\* The nodes and LLC groups of a topology can be followed down to sequences
\* of cores.
LEMMA TreeParts ==
  ASSUME tree \in Topology
  PROVE  /\ Nodes \in Seq(NumaNode)
         /\ tree.perf_level_count \in Nat
         /\ \A n \in DOMAIN Nodes : Nodes[n] \in Seq(Seq(Core))
         /\ \A n \in DOMAIN Nodes : \A l \in DOMAIN Nodes[n] :
              Nodes[n][l] \in Seq(Core)
  <1>1. Nodes \in Seq(NumaNode) /\ tree.perf_level_count \in Nat
    BY DEF Topology, Nodes
  <1>2. \A n \in DOMAIN Nodes : Nodes[n] \in Seq(Seq(Core))
    BY <1>1, SeqElement DEF NumaNode
  <1>3. \A n \in DOMAIN Nodes : \A l \in DOMAIN Nodes[n] :
          Nodes[n][l] \in Seq(Core)
    BY <1>2, SeqElement
  <1> QED BY <1>1, <1>2, <1>3

\* A core pointer can be followed: its core has a level and a thread count.
LEMMA PlaceParts ==
  ASSUME tree \in Topology, NEW p \in Places
  PROVE  CoreAt(p) \in Core /\ PerfLevel(p) \in Nat /\ NumThreads(p) \in Nat
  <1>1. p[1] \in DOMAIN Nodes /\ p[2] \in DOMAIN Nodes[p[1]]
        /\ p[3] \in DOMAIN Nodes[p[1]][p[2]]
    BY DEF Places
  <1>2. Nodes[p[1]][p[2]] \in Seq(Core)
    BY <1>1, TreeParts
  <1>3. CoreAt(p) \in Core
    BY <1>1, <1>2, SeqElement DEF CoreAt
  <1> QED BY <1>3 DEF Core, PerfLevel, NumThreads

\* The core under the scanning cursor is a core of the tree.
LEMMA ScannedPlace ==
  ASSUME tree \in Topology, node \in DOMAIN Nodes, llc_index \in Nat \ {0},
         k \in Nat \ {0}, k <= Len(CoresHere)
  PROVE  <<node, llc_index, k>> \in Places
  <1>1. Nodes[node] \in Seq(Seq(Core)) /\ Nodes \in Seq(NumaNode)
    BY TreeParts
  <1>2. llc_index <= Len(Nodes[node])
    <2>1. SUFFICES ASSUME ~(llc_index <= Len(Nodes[node])) PROVE FALSE
      OBVIOUS
    <2>2. CoresHere = <<>>
      BY <2>1 DEF CoresHere
    <2> QED BY <2>2
  <1>3. llc_index \in DOMAIN Nodes[node]
    BY <1>1, <1>2
  <1>4. Nodes[node][llc_index] \in Seq(Core) /\ CoresHere = Nodes[node][llc_index]
    BY <1>2, <1>3, TreeParts DEF CoresHere
  <1>5. k \in DOMAIN Nodes[node][llc_index]
    BY <1>4
  <1>6. node \in Nat
    BY <1>1
  <1> QED BY <1>3, <1>5, <1>6 DEF Places

-----------------------------------------------------------------------------
\* In every reachable state, for any topology, the pointers the functions
\* keep point at cores and processors of the tree and the cursors are in
\* range: no group, list or tree is read beyond its end.
THEOREM TypeCorrect == Spec => []TypeOK
  <1>1. Init => TypeOK
    <2> SUFFICES ASSUME Init PROVE TypeOK
      OBVIOUS
    <2>1. tree \in Topology
      BY TreesAssumption DEF Init
    <2>2. Nodes # <<>> => 1 \in DOMAIN Nodes
      BY <2>1, TreeParts
    <2> QED BY <2>1, <2>2, EmptyType DEF Init, TypeOK
  <1>2. TypeOK /\ [Next]_vars => TypeOK'
    <2> SUFFICES ASSUME TypeOK, [Next]_vars PROVE TypeOK'
      OBVIOUS
    <2> USE DEF inputs, scanVars, interVars, emitVars
    <2>0. tree \in Topology /\ (inputs' = inputs =>
            /\ Nodes' = Nodes /\ Places' = Places /\ Processors' = Processors
            /\ tree' \in Topology /\ policy' \in Policies)
      <3>1. tree \in Topology /\ policy \in Policies
        BY DEF TypeOK
      <3>2. ASSUME inputs' = inputs
            PROVE  /\ Nodes' = Nodes /\ Places' = Places /\ Processors' = Processors
                   /\ tree' = tree /\ policy' = policy
        <4>1. tree' = tree /\ policy' = policy
          BY <3>2
        <4> QED BY ONLY <4>1 DEF Nodes, Places, Processors, NumThreads, CoreAt
      <3> QED BY <3>1, <3>2
    <2>1. CASE Begin
      BY <2>0, <2>1 DEF Begin, TypeOK
    <2>2. CASE OpenLevel
      <3>1. Nodes # <<>> => 1 \in DOMAIN Nodes
        BY <2>0, TreeParts
      <3> QED BY <2>0, <2>2, <3>1, EmptyType DEF OpenLevel, TypeOK
    <2>3. CASE ScanCore
      <3> DEFINE p == <<node, llc_index, k>>
      <3>1. p \in Places
        BY <2>0, <2>3, ScannedPlace DEF ScanCore, TypeOK
      <3>2. NumThreads(p) \in Nat
        BY <2>0, <3>1, PlaceParts
      <3>3. cores_in_group' \in Seq(Places)
        BY <2>3, <3>1, AppendType DEF ScanCore, TypeOK
      <3>4. max_threads' \in Nat
        BY <2>3, <3>2 DEF ScanCore, TypeOK, Larger
      <3> QED BY <2>0, <2>3, <3>3, <3>4 DEF ScanCore, TypeOK
    <2>4. CASE CloseGroup
      <3>1. groups' \in Seq(Seq(Places))
        BY <2>4, AppendType DEF CloseGroup, Kept, TypeOK
      <3>2. node' \in DOMAIN Nodes /\ node' \in Nat \ {0}
            /\ llc_index' \in Nat \ {0}
        <4>1. node \in 1..Len(Nodes) /\ Len(Nodes) \in Nat
              /\ DOMAIN Nodes = 1..Len(Nodes)
          BY <2>0, <2>4, TreeParts DEF CloseGroup, TypeOK
        <4> QED BY <2>4, <4>1 DEF CloseGroup, NextNode, NextLlc, TypeOK
      <3> QED BY <2>0, <2>4, <3>1, <3>2, EmptyType DEF CloseGroup, TypeOK
    <2>5. ASSUME StartInterleave, TypeOK
          PROVE  /\ thread_lists' \in Seq(Seq(Processors))
                 /\ level' \in Nat \ {0} /\ i' \in Nat \ {0}
                 /\ g' \in Nat \ {0} /\ pc' = "interleave"
      <3>1. EmptyLists(max_threads) \in [1..max_threads -> Seq(Processors)]
        BY EmptyType DEF EmptyLists
      <3>2. max_threads \in Nat
        BY DEF TypeOK
      <3>3. EmptyLists(max_threads) \in Seq(Seq(Processors))
        BY <3>1, <3>2, FunctionSeq
      <3> QED BY <2>5, <3>3 DEF StartInterleave
    <2>6. CASE GroupsBuilt
      <3>1. levels' \in Seq(Seq(Seq(Places)))
        BY <2>6, AppendType DEF GroupsBuilt, TypeOK
      <3> QED BY <2>0, <2>5, <2>6, <3>1 DEF GroupsBuilt, TypeOK
    <2>7. CASE LevelsDone
      BY <2>0, <2>5, <2>7 DEF LevelsDone, TypeOK
    <2>8. CASE Deal
      <3> DEFINE gs == levels[level]
      <3>1. gs \in Seq(Seq(Places)) /\ gs[g] \in Seq(Places)
        <4>1. /\ levels \in Seq(Seq(Seq(Places)))
              /\ level \in Nat \ {0} /\ g \in Nat \ {0}
          BY DEF TypeOK
        <4>2. level <= Len(levels) /\ g <= Len(gs)
          BY <2>8 DEF Deal
        <4>3. gs \in Seq(Seq(Places))
          BY <4>1, <4>2, SeqElement
        <4> HIDE DEF gs
        <4> QED BY <4>1, <4>2, <4>3, SeqElement
      <3>2. thread_lists' \in Seq(Seq(Processors))
        <4>1. CASE ~(i <= Len(gs[g]))
          BY <2>8, <4>1 DEF Deal, TypeOK
        <4>2. CASE i <= Len(gs[g])
          <5> DEFINE p == gs[g][i]
          <5>1. p \in Places
            <6>1. i \in Nat \ {0}
              BY DEF TypeOK
            <6>2. i \in DOMAIN gs[g]
              BY ONLY <3>1, <4>2, <6>1
            <6> QED BY ONLY <3>1, <6>2, SeqElement
          <5>2. NumThreads(p) \in Nat
            BY <2>0, <5>1, PlaceParts
          <5>3. thread_lists \in Seq(Seq(Processors))
            BY DEF TypeOK
          <5>4. \A r \in DOMAIN thread_lists :
                  thread_lists[r] \in Seq(Processors) /\ r \in Nat \ {0}
            BY <5>3
          <5>5. \A r \in DOMAIN thread_lists :
                  r <= NumThreads(p) => <<p, r>> \in Processors
            <6> SUFFICES ASSUME NEW r \in DOMAIN thread_lists,
                                r <= NumThreads(p)
                         PROVE  <<p, r>> \in Processors
              OBVIOUS
            <6>1. r \in 1..NumThreads(p)
              BY <5>2, <5>4
            <6> HIDE DEF p
            <6> QED BY <5>1, <5>4, <6>1 DEF Processors
          <5>6. \A r \in DOMAIN thread_lists :
                  Dealt(p)[r] \in Seq(Processors)
            BY <5>4, <5>5, AppendType DEF Dealt
          <5>7. Dealt(p) \in [1..Len(thread_lists) -> Seq(Processors)]
            BY <5>3, <5>6 DEF Dealt
          <5>8. Dealt(p) \in Seq(Seq(Processors))
            <6> HIDE DEF p
            <6>1. Len(thread_lists) \in Nat
              BY <5>3
            <6> QED BY <5>7, <6>1, FunctionSeq
          <5> QED BY <2>8, <4>2, <5>8 DEF Deal
        <4> QED BY <4>1, <4>2
      <3>3. g' \in Nat \ {0}
        <4>1. g \in Nat \ {0} /\ g' = g + 1
          BY <2>8 DEF Deal, TypeOK
        <4> QED BY <4>1
      <3> QED BY <2>0, <2>8, <3>2, <3>3 DEF Deal, TypeOK
    <2>9. CASE NextRound
      BY <2>0, <2>9 DEF NextRound, TypeOK
    <2>10. CASE LevelDealt
      BY <2>0, <2>10 DEF LevelDealt, TypeOK
    <2>11. CASE Interleaved
      BY <2>0, <2>11 DEF Interleaved, TypeOK
    <2>12. CASE AddThread
      <3>0. /\ thread_lists \in Seq(Seq(Processors)) /\ result \in Seq(Processors)
            /\ t \in Nat \ {0} /\ j \in Nat \ {0}
        BY DEF TypeOK
      <3>a. /\ t <= Len(thread_lists) /\ j <= Len(thread_lists[t])
            /\ result' = Append(result, thread_lists[t][j])
        BY <2>12 DEF AddThread
      <3>1. thread_lists[t] \in Seq(Processors)
        BY <3>0, <3>a, SeqElement
      <3>2. thread_lists[t][j] \in Processors
        BY <3>0, <3>a, <3>1, SeqElement
      <3>3. result' \in Seq(Processors)
        BY <3>0, <3>a, <3>2, AppendType
      <3> QED BY <2>0, <2>12, <3>3 DEF AddThread, TypeOK
    <2>13. CASE NextList
      BY <2>0, <2>13 DEF NextList, TypeOK
    <2>14. CASE Emitted
      BY <2>0, <2>14, EmptyType DEF Emitted, TypeOK
    <2>15. CASE UNCHANGED vars
      BY <2>0, <2>15 DEF vars, TypeOK
    <2> QED
      BY <2>1, <2>2, <2>3, <2>4, <2>6, <2>7, <2>8, <2>9, <2>10, <2>11,
         <2>12, <2>13, <2>14, <2>15 DEF Next, Terminating
  <1> QED BY <1>1, <1>2, PTL DEF Spec

-----------------------------------------------------------------------------
(* No logical processor is mapped twice: one lemma per part of OnceInv.    *)

\* The length, domain and elements of a sequence after an append.
LEMMA AppendParts ==
  ASSUME NEW S, NEW s \in Seq(S), NEW e
  PROVE  /\ DOMAIN s = 1..Len(s) /\ Len(s) \in Nat
         /\ DOMAIN Append(s, e) = 1..(Len(s) + 1)
         /\ Len(Append(s, e)) = Len(s) + 1
         /\ \A x \in 1..Len(s) : Append(s, e)[x] = s[x]
         /\ Append(s, e)[Len(s) + 1] = e
  OBVIOUS

\* A step that keeps the tree keeps what is read from it.
LEMMA TreeKept ==
  ASSUME inputs' = inputs
  PROVE  /\ policy' = policy /\ Nodes' = Nodes
         /\ \A p : PerfLevel(p)' = PerfLevel(p)
  BY DEF inputs, Nodes, PerfLevel, CoreAt

\* Grouping takes every core once: each step keeps ScanInv.
LEMMA ScanStep == TypeOK /\ ScanInv /\ [Next]_vars => ScanInv'
  <1> SUFFICES ASSUME TypeOK, ScanInv, [Next]_vars, pc' = "scan"
               PROVE  ScanInv'
    BY DEF ScanInv
  <1>0. inputs' = inputs
    BY DEF Next, vars, inputs, Begin, OpenLevel, ScanCore, CloseGroup,
       GroupsBuilt, LevelsDone, Deal, NextRound, LevelDealt, Interleaved,
       AddThread, NextList, Emitted, Terminating
  <1>1. CASE OpenLevel
    BY <1>1 DEF OpenLevel, ScanInv, NoRepeat, Apart
  <1>2. CASE ScanCore
    <2> DEFINE p == <<node, llc_index, k>>
    <2>1. /\ cores_in_group \in Seq(Places) /\ k \in Nat
          /\ UNCHANGED <<pc, lvl, llc_index, node, groups>> /\ k' = k + 1
          /\ pc = "scan"
      BY <1>2 DEF ScanCore, TypeOK
    <2>2. \A a \in DOMAIN groups : \A b \in DOMAIN groups[a] :
            PerfLevel(groups[a][b])' = PerfLevel(groups[a][b])
      BY <1>0, <2>1, TreeKept
    <2>3. CASE cores_in_group' = cores_in_group
      <3>1. \A a \in DOMAIN cores_in_group : cores_in_group[a][3] \in Nat
        BY <2>1 DEF Places
      <3> QED BY <1>0, <2>1, <2>2, <2>3, <3>1, TreeKept DEF ScanInv
    <2>4. CASE cores_in_group' = Append(cores_in_group, p) /\ Belongs(p)
      <3>1. \A a \in DOMAIN cores_in_group : cores_in_group[a][3] \in Nat
        BY <2>1 DEF Places
      <3>2. PerfLevel(p) = lvl
        BY <2>4 DEF Belongs
      <3>3. NoRepeat(cores_in_group)'
        BY <2>1, <2>4, <3>1, AppendParts DEF ScanInv, NoRepeat
      <3>4. \A a \in DOMAIN cores_in_group' :
              /\ cores_in_group'[a][1] = node
              /\ cores_in_group'[a][2] = llc_index
              /\ cores_in_group'[a][3] < k'
              /\ PerfLevel(cores_in_group'[a]) = lvl
        BY <2>1, <2>4, <3>1, <3>2, AppendParts DEF ScanInv
      <3> QED BY <1>0, <2>1, <2>2, <3>3, <3>4, TreeKept DEF ScanInv
    <2> QED BY <1>2, <2>3, <2>4 DEF ScanCore
  <1>3. CASE CloseGroup
    <2> DEFINE Before(p) == p[2] < llc_index \/ (p[2] = llc_index /\ p[1] < node)
               BeforeNow(p) ==
                 p[2] < llc_index' \/ (p[2] = llc_index' /\ p[1] < node')
    <2>1. /\ cores_in_group \in Seq(Places) /\ groups \in Seq(Seq(Places))
          /\ llc_index \in Nat /\ node \in Nat
          /\ UNCHANGED <<pc, lvl>> /\ pc = "scan"
          /\ cores_in_group' = <<>>
      BY <1>3 DEF CloseGroup, TypeOK
    <2>2. \A p \in Places :
            /\ Before(p) => BeforeNow(p)
            /\ p[1] = node /\ p[2] = llc_index => BeforeNow(p) /\ ~Before(p)
      BY <1>3, <2>1 DEF CloseGroup, NextNode, NextLlc, Places
    <2>3. CASE groups' = groups
      <3>1. \A x \in DOMAIN groups : \A a \in DOMAIN groups[x] :
              groups[x][a] \in Places
        BY <2>1, SeqElement
      <3> QED BY <1>0, <2>1, <2>2, <2>3, <3>1, TreeKept DEF ScanInv, NoRepeat
    <2>4. CASE groups' = Append(groups, cores_in_group)
      <3>1. \A x \in DOMAIN groups : \A a \in DOMAIN groups[x] :
              groups[x][a] \in Places
        BY <2>1, SeqElement
      <3>2. \A a \in DOMAIN cores_in_group : cores_in_group[a] \in Places
        BY <2>1, SeqElement
      <3>3. Apart(groups)'
        <4> DEFINE n == Len(groups)
        <4>1. /\ DOMAIN groups' = 1..(n + 1) /\ DOMAIN groups = 1..n
              /\ n \in Nat /\ groups'[n + 1] = cores_in_group
              /\ \A x \in 1..n : groups'[x] = groups[x]
          BY <2>1, <2>4, AppendParts
        <4>2. \A x \in 1..n : \A a \in DOMAIN groups[x] :
                \A b \in DOMAIN cores_in_group : groups[x][a] # cores_in_group[b]
          <5>1. \A x \in 1..n : \A a \in DOMAIN groups[x] :
                  groups[x][a] \in Places /\ Before(groups[x][a])
            BY <2>1, <3>1, <4>1 DEF ScanInv
          <5>2. \A b \in DOMAIN cores_in_group : ~Before(cores_in_group[b])
            BY <2>1, <2>2, <3>2 DEF ScanInv
          <5> HIDE DEF Before
          <5> QED BY <5>1, <5>2
        <4>3. Apart(groups) /\ NoRepeat(cores_in_group)
          BY <2>1 DEF ScanInv
        <4> SUFFICES ASSUME NEW x \in 1..(n + 1), NEW y \in 1..(n + 1),
                            NEW a \in DOMAIN groups'[x],
                            NEW b \in DOMAIN groups'[y],
                            groups'[x][a] = groups'[y][b]
                     PROVE  x = y /\ a = b
          BY <4>1 DEF Apart
        <4>4. CASE x \in 1..n /\ y \in 1..n
          BY <4>1, <4>3, <4>4 DEF Apart
        <4>5. CASE x = n + 1 /\ y = n + 1
          BY <4>1, <4>3, <4>5 DEF NoRepeat
        <4> QED BY <4>1, <4>2, <4>4, <4>5
      <3>4. \A x \in DOMAIN groups' : \A a \in DOMAIN groups'[x] :
              PerfLevel(groups'[x][a]) = lvl /\ BeforeNow(groups'[x][a])
        BY <2>1, <2>2, <2>4, <3>1, <3>2, AppendParts DEF ScanInv
      <3> QED BY <1>0, <2>1, <3>3, <3>4, TreeKept DEF ScanInv, NoRepeat
    <2> QED BY <1>3, <2>3, <2>4 DEF CloseGroup, Kept
  <1>4. CASE UNCHANGED vars
    BY <1>0, <1>4, TreeKept DEF vars, scanVars, ScanInv, NoRepeat, Apart
  <1> QED
    BY <1>1, <1>2, <1>3, <1>4 DEF Next, Begin, GroupsBuilt, StartInterleave,
       LevelsDone, Deal, NextRound, LevelDealt, Interleaved, AddThread,
       NextList, Emitted, Terminating

\* The groups waiting are of different levels: each step keeps LevelsInv.
LEMMA LevelsStep == TypeOK /\ ScanInv /\ LevelsInv /\ [Next]_vars => LevelsInv'
  <1> SUFFICES ASSUME TypeOK, ScanInv, LevelsInv, [Next]_vars
               PROVE  LevelsInv'
    OBVIOUS
  <1>0. inputs' = inputs
    BY DEF Next, vars, inputs, Begin, OpenLevel, ScanCore, CloseGroup,
       GroupsBuilt, LevelsDone, Deal, NextRound, LevelDealt, Interleaved,
       AddThread, NextList, Emitted, Terminating
  <1>t. /\ levels \in Seq(Seq(Seq(Places))) /\ groups \in Seq(Seq(Places))
        /\ lvl \in Nat
    BY DEF TypeOK
  <1>1. CASE UNCHANGED <<levels, lvl>>
    <2>1. policy = "phte" => /\ pc' \in {"begin", "level", "scan"} => levels = <<>>
                             /\ pc' \in {"interleave", "emit"} => Len(levels) = 1
      BY <1>1, <1>t DEF LevelsInv, Next, vars, Begin, OpenLevel, ScanCore,
         CloseGroup, GroupsBuilt, LevelsDone, StartInterleave, Deal,
         NextRound, LevelDealt, Interleaved, AddThread, NextList, Emitted,
         Terminating, inputs
    <2> QED BY <1>0, <1>1, <2>1, TreeKept DEF LevelsInv, Apart
  <1>2. CASE GroupsBuilt
    <2> DEFINE n == Len(levels)
    <2>1. /\ pc = "scan" /\ levels' = Append(levels, groups) /\ lvl' = lvl + 1
      BY <1>2 DEF GroupsBuilt
    <2>2. /\ DOMAIN levels' = 1..(n + 1) /\ DOMAIN levels = 1..n
          /\ n \in Nat /\ Len(levels') = n + 1 /\ levels'[n + 1] = groups
          /\ \A v \in 1..n : levels'[v] = levels[v]
      BY <1>t, <2>1, AppendParts
    <2>3. \A v \in 1..(n + 1) : Apart(levels'[v])
      BY <2>1, <2>2 DEF LevelsInv, ScanInv
    <2>4. \A x \in DOMAIN groups : \A a \in DOMAIN groups[x] :
            PerfLevel(groups[x][a]) = lvl
      BY <2>1 DEF ScanInv
    <2>5. \A v \in 1..n : \A x \in DOMAIN levels[v] : \A a \in DOMAIN levels[v][x] :
            PerfLevel(levels[v][x][a]) \in Nat
      BY <1>t, <2>2, SeqElement, PlaceParts DEF TypeOK
    <2>6. ASSUME NEW v \in 1..(n + 1), NEW x \in DOMAIN levels'[v],
                 NEW a \in DOMAIN levels'[v][x]
          PROVE  PerfLevel(levels'[v][x][a]) + Len(levels') + 1 = lvl' + v
      <3>1. CASE v \in 1..n
        <4>1. PerfLevel(levels[v][x][a]) + n + 1 = lvl + v
          BY <2>2, <2>6, <3>1 DEF LevelsInv
        <4>2. PerfLevel(levels[v][x][a]) \in Nat
          BY <2>2, <2>5, <2>6, <3>1
        <4> QED BY <1>t, <2>1, <2>2, <3>1, <4>1, <4>2
      <3>2. CASE v = n + 1
        <4>1. PerfLevel(levels'[v][x][a]) = lvl
          BY <2>2, <2>4, <2>6, <3>2
        <4> QED BY <1>t, <2>1, <2>2, <3>2, <4>1
      <3> QED BY <2>2, <3>1, <3>2
    <2>7. policy = "phte" => pc' = "interleave" /\ Len(levels') = 1
      BY <1>2, <2>1, <2>2 DEF GroupsBuilt, StartInterleave, LevelsInv
    <2> QED BY <1>0, <2>2, <2>3, <2>6, <2>7, TreeKept DEF LevelsInv
  <1>3. CASE Emitted
    <2>1. CASE policy = "numa"
      <3>1. UNCHANGED <<levels, lvl>>
        BY <1>3, <2>1 DEF Emitted
      <3> QED BY <1>1, <3>1
    <2>2. CASE policy # "numa"
      <3>1. levels' = <<>> /\ pc' = "level"
        BY <1>3, <2>2 DEF Emitted
      <3> QED BY <3>1 DEF LevelsInv
    <2> QED BY <2>1, <2>2
  <1> QED
    BY <1>1, <1>2, <1>3 DEF Next, vars, Begin, OpenLevel, ScanCore,
       CloseGroup, LevelsDone, Deal, NextRound, LevelDealt, Interleaved,
       AddThread, NextList, Terminating, scanVars, interVars, emitVars

\* Two positions among the groups waiting never hold the same core.
LEMMA PositionsApart ==
  ASSUME TypeOK, LevelsInv,
         NEW v \in DOMAIN levels, NEW x \in DOMAIN levels[v],
         NEW a \in DOMAIN levels[v][x],
         NEW w \in DOMAIN levels, NEW y \in DOMAIN levels[w],
         NEW b \in DOMAIN levels[w][y],
         levels[v][x][a] = levels[w][y][b]
  PROVE  v = w /\ x = y /\ a = b
  <1>1. levels[v][x][a] \in Places
    <2>1. levels[v] \in Seq(Seq(Places))
      BY SeqElement DEF TypeOK
    <2>2. levels[v][x] \in Seq(Places)
      BY ONLY <2>1, x \in DOMAIN levels[v], SeqElement
    <2> QED BY ONLY <2>2, a \in DOMAIN levels[v][x], SeqElement
  <1>2. PerfLevel(levels[v][x][a]) \in Nat /\ lvl \in Nat /\ Len(levels) \in Nat
        /\ v \in Nat /\ w \in Nat
    <2>1. levels \in Seq(Seq(Seq(Places)))
      BY DEF TypeOK
    <2>2. Len(levels) \in Nat /\ v \in Nat /\ w \in Nat
      BY ONLY <2>1, v \in DOMAIN levels, w \in DOMAIN levels, SeqIndex
    <2> QED BY <1>1, <2>2, PlaceParts DEF TypeOK
  <1>3. /\ PerfLevel(levels[v][x][a]) + Len(levels) + 1 = lvl + v
        /\ PerfLevel(levels[v][x][a]) + Len(levels) + 1 = lvl + w
    BY DEF LevelsInv
  <1>4. v = w
    BY <1>2, <1>3
  <1> QED BY <1>4 DEF LevelsInv, Apart

\* Interleaving deals every grouped core once: each step keeps ListsInv.
LEMMA ListsStep == TypeOK /\ LevelsInv /\ ListsInv /\ [Next]_vars => ListsInv'
  <1> SUFFICES ASSUME TypeOK, LevelsInv, ListsInv, [Next]_vars,
                      pc' \in {"interleave", "emit"}
               PROVE  ListsInv'
    BY DEF ListsInv
  <1>t. /\ levels \in Seq(Seq(Seq(Places))) /\ level \in Nat /\ i \in Nat
        /\ g \in Nat /\ thread_lists \in Seq(Seq(Processors))
    BY DEF TypeOK
  <1>1. CASE StartInterleave
    <2>1. \A r \in DOMAIN thread_lists' : thread_lists'[r] = <<>>
      BY <1>1 DEF StartInterleave, EmptyLists
    <2> QED BY <2>1 DEF ListsInv, NoRepeat
  <1>2. CASE /\ UNCHANGED <<levels, thread_lists>> /\ pc \in {"interleave", "emit"}
             /\ \A v \in DOMAIN levels : \A x \in DOMAIN levels[v] :
                  \A a \in DOMAIN levels[v][x] :
                    Passed(v, x, a) => Passed(v, x, a)'
    BY <1>2 DEF ListsInv, NoRepeat
  <1>3. CASE Deal
    <2>1. /\ UNCHANGED <<levels, level, i>> /\ g' = g + 1 /\ pc = "interleave"
          /\ pc' = pc /\ level \in DOMAIN levels /\ g <= Len(levels[level])
      BY <1>3, <1>t DEF Deal, TypeOK
    <2>2. levels[level] \in Seq(Seq(Places)) /\ g \in DOMAIN levels[level]
      BY <1>t, <2>1, SeqElement DEF TypeOK
    <2>3. \A v \in DOMAIN levels : \A x \in DOMAIN levels[v] :
            \A a \in DOMAIN levels[v][x] :
              /\ Passed(v, x, a) => Passed(v, x, a)'
              /\ v = level /\ x = g /\ a = i =>
                   Passed(v, x, a)' /\ ~Passed(v, x, a)
      BY <1>t, <2>1 DEF Passed
    <2>4. CASE ~(i <= Len(levels[level][g]))
      BY <1>2, <1>3, <2>1, <2>3, <2>4 DEF Deal
    <2>5. CASE i <= Len(levels[level][g])
      <3> DEFINE p == levels[level][g][i]
      <3>1. i \in DOMAIN levels[level][g]
        BY <2>2, <2>5, SeqElement DEF TypeOK
      <3>2. thread_lists' = Dealt(p)
        BY <1>3, <2>5 DEF Deal
      <3> HIDE DEF p
      <3>3. \A r \in DOMAIN thread_lists : thread_lists[r] \in Seq(Processors)
        BY <1>t, SeqElement
      <3>4. DOMAIN thread_lists' = DOMAIN thread_lists
        BY <3>2 DEF Dealt
      <3> SUFFICES ASSUME NEW r \in DOMAIN thread_lists
                   PROVE  /\ NoRepeat(thread_lists'[r])
                          /\ \A b \in DOMAIN thread_lists'[r] :
                               /\ thread_lists'[r][b][2] = r
                               /\ \E v \in DOMAIN levels :
                                    \E x \in DOMAIN levels[v] :
                                      \E a \in DOMAIN levels[v][x] :
                                        /\ levels[v][x][a] = thread_lists'[r][b][1]
                                        /\ Passed(v, x, a)'
        BY <2>1, <3>4 DEF ListsInv
      <3>5. /\ NoRepeat(thread_lists[r])
            /\ \A b \in DOMAIN thread_lists[r] :
                 /\ thread_lists[r][b][2] = r
                 /\ \E v \in DOMAIN levels : \E x \in DOMAIN levels[v] :
                      \E a \in DOMAIN levels[v][x] :
                        /\ levels[v][x][a] = thread_lists[r][b][1]
                        /\ Passed(v, x, a) /\ Passed(v, x, a)'
        BY <2>1, <2>3 DEF ListsInv
      <3>6. CASE thread_lists'[r] = thread_lists[r]
        BY <3>5, <3>6
      <3>7. CASE thread_lists'[r] = Append(thread_lists[r], <<p, r>>)
        <4> DEFINE s == thread_lists[r]
                   n == Len(s)
        <4>1. /\ DOMAIN thread_lists'[r] = 1..(n + 1) /\ DOMAIN s = 1..n
              /\ n \in Nat /\ thread_lists'[r][n + 1] = <<p, r>>
              /\ \A b \in 1..n : thread_lists'[r][b] = s[b]
          BY <3>3, <3>7, AppendParts
        <4>2. \A b \in 1..n : s[b][1] # p
          <5> SUFFICES ASSUME NEW b \in 1..n, s[b][1] = p PROVE FALSE
            OBVIOUS
          <5>1. PICK v \in DOMAIN levels : \E x \in DOMAIN levels[v] :
                  \E a \in DOMAIN levels[v][x] :
                    levels[v][x][a] = p /\ Passed(v, x, a)
            BY <3>5, <4>1
          <5>2. PICK x \in DOMAIN levels[v] : \E a \in DOMAIN levels[v][x] :
                  levels[v][x][a] = p /\ Passed(v, x, a)
            BY <5>1
          <5>3. PICK a \in DOMAIN levels[v][x] :
                  levels[v][x][a] = p /\ Passed(v, x, a)
            BY <5>2
          <5>4. v = level /\ x = g /\ a = i
            BY <2>1, <2>2, <3>1, <5>3, PositionsApart DEF p
          <5> QED BY <2>3, <5>3, <5>4
        <4> HIDE DEF s, n
        <4>3. NoRepeat(thread_lists'[r])
          BY <3>5, <4>1, <4>2 DEF NoRepeat, s
        <4>4. ASSUME NEW b \in 1..(n + 1)
              PROVE  /\ thread_lists'[r][b][2] = r
                     /\ \E v \in DOMAIN levels : \E x \in DOMAIN levels[v] :
                          \E a \in DOMAIN levels[v][x] :
                            /\ levels[v][x][a] = thread_lists'[r][b][1]
                            /\ Passed(v, x, a)'
          <5>1. CASE b \in 1..n
            BY <3>5, <4>1, <5>1 DEF s
          <5>2. CASE b = n + 1
            BY <2>1, <2>2, <2>3, <3>1, <4>1, <5>2 DEF p
          <5> QED BY <4>1, <5>1, <5>2
        <4> QED BY <4>1, <4>3, <4>4
      <3> QED BY <3>2, <3>6, <3>7 DEF Dealt
    <2> QED BY <2>4, <2>5
  <1>4. CASE NextRound
    <2>1. /\ UNCHANGED <<levels, thread_lists, level, pc>> /\ i' = i + 1
          /\ g' = 1 /\ pc = "interleave" /\ g > Len(levels[level])
          /\ level \in DOMAIN levels
      BY <1>4, <1>t DEF NextRound, TypeOK
    <2>2. \A v \in DOMAIN levels : \A x \in DOMAIN levels[v] :
            \A a \in DOMAIN levels[v][x] : Passed(v, x, a) => Passed(v, x, a)'
      <3>1. \A v \in DOMAIN levels : \A x \in DOMAIN levels[v] :
              \A a \in DOMAIN levels[v][x] : a \in Nat
        BY <1>t, SeqElement
      <3> QED BY <1>t, <2>1, <3>1 DEF Passed
    <2> QED BY <1>2, <2>1, <2>2
  <1>5. CASE LevelDealt
    <2>1. /\ UNCHANGED <<levels, thread_lists, pc>> /\ level' = level + 1
          /\ pc = "interleave"
      BY <1>5 DEF LevelDealt
    <2>2. \A v \in DOMAIN levels : v \in Nat
      BY <1>t
    <2>3. \A v \in DOMAIN levels : \A x \in DOMAIN levels[v] :
            \A a \in DOMAIN levels[v][x] : Passed(v, x, a) => Passed(v, x, a)'
      BY <1>t, <2>1, <2>2 DEF Passed
    <2> QED BY <1>2, <2>1, <2>3
  <1>6. CASE Interleaved \/ AddThread \/ NextList \/ UNCHANGED vars
    BY <1>2, <1>6 DEF Interleaved, AddThread, NextList, vars, interVars, Passed
  <1> QED
    BY <1>1, <1>3, <1>4, <1>5, <1>6 DEF Next, vars, Begin, OpenLevel,
       ScanCore, CloseGroup, GroupsBuilt, LevelsDone, Emitted, Terminating

\* For "phte" the lists hold processors of the level grouped last.
LEMMA ListsLevel ==
  ASSUME TypeOK, LevelsInv, ListsInv, policy = "phte",
         pc \in {"interleave", "emit"},
         NEW r \in DOMAIN thread_lists, NEW b \in DOMAIN thread_lists[r]
  PROVE  PerfLevel(thread_lists[r][b][1]) + 1 = lvl
  <1>1. PICK v \in DOMAIN levels : \E x \in DOMAIN levels[v] :
          \E a \in DOMAIN levels[v][x] :
            levels[v][x][a] = thread_lists[r][b][1]
    BY DEF ListsInv
  <1>2. PICK x \in DOMAIN levels[v] : \E a \in DOMAIN levels[v][x] :
          levels[v][x][a] = thread_lists[r][b][1]
    BY <1>1
  <1>3. PICK a \in DOMAIN levels[v][x] :
          levels[v][x][a] = thread_lists[r][b][1]
    BY <1>2
  <1>4. levels \in Seq(Seq(Seq(Places))) /\ lvl \in Nat
    BY DEF TypeOK
  <1>5. Len(levels) = 1 /\ v = 1
    BY <1>4 DEF LevelsInv
  <1>6. levels[v][x][a] \in Places
    BY <1>4, SeqElement
  <1>7. PerfLevel(levels[v][x][a]) \in Nat
    BY <1>6, PlaceParts DEF TypeOK
  <1>8. PerfLevel(levels[v][x][a]) + Len(levels) + 1 = lvl + v
    BY DEF LevelsInv
  <1> QED BY <1>3, <1>4, <1>5, <1>7, <1>8

\* Copying moves every list entry once: each step keeps ResultInv and adds no
\* processor that the result has.
LEMMA ResultStep ==
  TypeOK /\ LevelsInv /\ ListsInv /\ ResultInv /\ MappedOnce /\ [Next]_vars
    => ResultInv' /\ MappedOnce'
  <1> SUFFICES ASSUME TypeOK, LevelsInv, ListsInv, ResultInv, MappedOnce,
                      [Next]_vars
               PROVE  ResultInv' /\ MappedOnce'
    OBVIOUS
  <1>0. inputs' = inputs
    BY DEF Next, vars, inputs, Begin, OpenLevel, ScanCore, CloseGroup,
       GroupsBuilt, LevelsDone, Deal, NextRound, LevelDealt, Interleaved,
       AddThread, NextList, Emitted, Terminating
  <1>t. /\ result \in Seq(Processors) /\ lvl \in Nat /\ t \in Nat /\ j \in Nat
        /\ thread_lists \in Seq(Seq(Processors)) /\ policy \in Policies
    BY DEF TypeOK
  <1>p. \A x \in DOMAIN result :
          PerfLevel(result[x][1]) \in Nat /\ result[x][2] \in Nat
    <2>1. \A x \in DOMAIN result : result[x] \in Processors
      BY <1>t, SeqElement
    <2>2. \A x \in DOMAIN result : result[x][1] \in Places /\ result[x][2] \in Nat
      BY <2>1 DEF Processors
    <2> QED BY <2>2, PlaceParts DEF TypeOK
  <1>1. CASE /\ UNCHANGED result
             /\ pc' # "emit" /\ pc # "emit" /\ pc # "done"
             /\ pc' = "interleave" /\ pc # "interleave" => lvl' = lvl + 1 \/ policy = "numa"
             /\ pc' # "interleave" => UNCHANGED lvl \/ policy = "numa"
             /\ pc' = "interleave" /\ pc = "interleave" => UNCHANGED lvl
    <2>1. policy = "phte" =>
            \A x \in DOMAIN result :
              /\ PerfLevel(result[x][1]) < lvl'
              /\ pc' = "interleave" => PerfLevel(result[x][1]) + 1 < lvl'
      BY <1>1, <1>t, <1>p DEF ResultInv
    <2> QED BY <1>0, <1>1, <2>1, TreeKept DEF ResultInv, MappedOnce
  <1>2. CASE Interleaved
    <2>1. /\ UNCHANGED <<result, lvl>> /\ pc = "interleave" /\ pc' = "emit"
          /\ t' = 1
      BY <1>2 DEF Interleaved
    <2>2. policy # "phte" => DOMAIN result = {}
      BY <1>t, <2>1 DEF ResultInv, Policies
    <2> QED BY <1>0, <2>1, <2>2, TreeKept DEF ResultInv, MappedOnce
  <1>3. CASE AddThread
    <2> DEFINE e == thread_lists[t][j]
               n == Len(result)
    <2>1. /\ UNCHANGED <<lvl, t, thread_lists, pc>> /\ pc = "emit" /\ j' = j + 1
          /\ result' = Append(result, e)
          /\ t \in DOMAIN thread_lists /\ t <= Len(thread_lists)
      BY <1>3, <1>t DEF AddThread, interVars, TypeOK
    <2>2. thread_lists[t] \in Seq(Processors) /\ j \in DOMAIN thread_lists[t]
      BY <1>3, <1>t, <2>1, SeqElement DEF AddThread, TypeOK
    <2>3. e[2] = t
      BY <2>1, <2>2 DEF ListsInv
    <2>4. policy = "phte" => PerfLevel(e[1]) + 1 = lvl /\ PerfLevel(e[1]) \in Nat
      <3>1. e \in Processors
        BY <2>2, SeqElement
      <3>2. e[1] \in Places
        BY <3>1 DEF Processors
      <3> QED BY <2>1, <2>2, <3>2, ListsLevel, PlaceParts DEF TypeOK
    <2>5. \A x \in DOMAIN result : result[x] # e
      <3> SUFFICES ASSUME NEW x \in DOMAIN result, result[x] = e PROVE FALSE
        OBVIOUS
      <3>1. CASE policy = "phte" /\ PerfLevel(result[x][1]) + 1 < lvl
        BY <1>t, <2>4, <3>1
      <3>2. CASE result[x][2] < t
        BY <1>t, <2>3, <3>2
      <3>3. CASE \E b \in DOMAIN thread_lists[t] :
                   b < j /\ thread_lists[t][b] = result[x]
        <4>1. NoRepeat(thread_lists[t])
          BY <2>1 DEF ListsInv
        <4>2. j \notin {b \in Nat : b < j}
          BY <1>t
        <4> QED BY <2>2, <3>3, <4>1, <4>2, <1>t DEF NoRepeat
      <3> QED BY <2>1, <3>1, <3>2, <3>3 DEF ResultInv
    <2>6. /\ DOMAIN result' = 1..(n + 1) /\ DOMAIN result = 1..n /\ n \in Nat
          /\ result'[n + 1] = e /\ \A x \in 1..n : result'[x] = result[x]
      BY <1>t, <2>1, AppendParts
    <2> HIDE DEF e, n
    <2>7. MappedOnce'
      BY <2>5, <2>6 DEF MappedOnce
    <2>8. ASSUME NEW x \in 1..(n + 1)
          PROVE  /\ policy = "phte" => PerfLevel(result'[x][1]) < lvl
                 /\ \/ policy = "phte" /\ PerfLevel(result'[x][1]) + 1 < lvl
                    \/ result'[x][2] < t
                    \/ result'[x][2] = t /\ \E b \in DOMAIN thread_lists[t] :
                         b < j' /\ thread_lists[t][b] = result'[x]
      <3>1. CASE x \in 1..n
        <4>1. \A b \in DOMAIN thread_lists[t] : b < j => b < j'
          BY <1>t, <2>1, <2>2
        <4> QED BY <2>1, <2>6, <3>1, <4>1 DEF ResultInv
      <3>2. CASE x = n + 1
        <4>1. j < j'
          BY <1>t, <2>1
        <4>2. policy = "phte" => PerfLevel(e[1]) < lvl
          BY <1>t, <2>4
        <4> QED BY <2>2, <2>3, <2>6, <3>2, <4>1, <4>2 DEF e
      <3> QED BY <2>6, <3>1, <3>2
    <2>9. policy \in Policies /\ policy' = policy
      BY <1>0, <1>t DEF inputs
    <2> QED BY <1>0, <2>1, <2>6, <2>7, <2>8, <2>9, TreeKept DEF ResultInv
  <1>4. CASE NextList
    <2>1. /\ UNCHANGED <<result, lvl, pc, thread_lists>> /\ pc = "emit"
          /\ t' = t + 1
      BY <1>4 DEF NextList, interVars
    <2>2. \A x \in DOMAIN result : result[x][2] <= t => result[x][2] < t'
      BY <1>t, <1>p, <2>1
    <2>3. \A x \in DOMAIN result :
            \/ policy = "phte" /\ PerfLevel(result[x][1]) + 1 < lvl
            \/ result[x][2] < t'
      BY <1>t, <1>p, <2>1, <2>2 DEF ResultInv
    <2> QED BY <1>0, <2>1, <2>3, TreeKept DEF ResultInv, MappedOnce
  <1>5. CASE Emitted \/ (pc \in {"emit", "done"} /\ UNCHANGED vars)
    <2>1. /\ UNCHANGED <<result, lvl>> /\ (pc' = "emit" => UNCHANGED vars)
          /\ pc' # "interleave" /\ (policy = "numa" => pc' \in {"emit", "done"})
      BY <1>5 DEF Emitted, emitVars, vars
    <2>2. CASE UNCHANGED vars
      BY <1>0, <2>2, TreeKept
         DEF ResultInv, MappedOnce, vars, inputs, interVars, emitVars
    <2>3. CASE pc' # "emit"
      BY <1>0, <2>1, <2>3, TreeKept DEF ResultInv, MappedOnce
    <2> QED BY <2>1, <2>2, <2>3
  <1>6. CASE Begin \/ OpenLevel \/ ScanCore \/ CloseGroup
    BY <1>1, <1>6 DEF Begin, OpenLevel, ScanCore, CloseGroup, emitVars
  <1>7. CASE GroupsBuilt \/ LevelsDone
    BY <1>1, <1>7, <1>t DEF GroupsBuilt, LevelsDone, StartInterleave, emitVars,
       Policies
  <1>8. CASE Deal \/ NextRound \/ LevelDealt
    BY <1>1, <1>8 DEF Deal, NextRound, LevelDealt, emitVars
  <1>9. CASE UNCHANGED vars
    BY <1>1, <1>5, <1>9 DEF vars, emitVars
  <1> QED
    BY <1>2, <1>3, <1>4, <1>5, <1>6, <1>7, <1>8, <1>9 DEF Next, Terminating

\* The groups, the lists and the result never hold a core or a processor
\* twice, in any reachable state and for any topology.
THEOREM OnceInvariant == Spec => []OnceInv
  <1>1. Init => OnceInv
    BY DEF Init, OnceInv, ScanInv, LevelsInv, ListsInv, ResultInv, MappedOnce
  <1>2. TypeOK /\ OnceInv /\ [Next]_vars => OnceInv'
    BY ScanStep, LevelsStep, ListsStep, ResultStep DEF OnceInv
  <1> QED BY <1>1, <1>2, TypeCorrect, PTL DEF Spec

\* No logical processor is ever handed to two workers by
\* create_mapping_numa or create_mapping_phte, whatever the topology.
THEOREM NoProcessorTwice == Spec => []MappedOnce
  BY OnceInvariant, PTL DEF OnceInv

-----------------------------------------------------------------------------
(* No logical processor is forgotten: one lemma per part of AllInv.        *)

\* A core that can be used has a place with a level and threads.
LEMMA UsableParts ==
  ASSUME tree \in Topology, NEW p \in Usable
  PROVE  /\ p \in Places /\ p = <<p[1], p[2], p[3]>>
         /\ PerfLevel(p) \in Nat /\ NumThreads(p) \in Nat \ {0}
         /\ p[1] \in 1..Len(Nodes) /\ Len(Nodes) \in Nat
         /\ p[2] \in 1..Len(Nodes[p[1]]) /\ Len(Nodes[p[1]]) \in Nat
         /\ p[3] \in 1..Len(Nodes[p[1]][p[2]]) /\ Len(Nodes[p[1]][p[2]]) \in Nat
  <1>1. PICK n \in DOMAIN Nodes : \E l \in DOMAIN Nodes[n] :
          \E c \in DOMAIN Nodes[n][l] : p = <<n, l, c>>
    BY DEF Usable, CorePlaces
  <1>2. PICK l \in DOMAIN Nodes[n] : \E c \in DOMAIN Nodes[n][l] : p = <<n, l, c>>
    BY <1>1
  <1>3. PICK c \in DOMAIN Nodes[n][l] : p = <<n, l, c>>
    BY <1>2
  <1>4. p[1] = n /\ p[2] = l /\ p[3] = c /\ p = <<p[1], p[2], p[3]>>
    BY <1>3
  <1>5. Nodes \in Seq(NumaNode) /\ Nodes[n] \in Seq(Seq(Core)) /\ Nodes[n][l] \in Seq(Core)
    BY TreeParts
  <1>6. /\ n \in 1..Len(Nodes) /\ Len(Nodes) \in Nat
        /\ l \in 1..Len(Nodes[n]) /\ Len(Nodes[n]) \in Nat
        /\ c \in 1..Len(Nodes[n][l]) /\ Len(Nodes[n][l]) \in Nat
    BY <1>5
  <1>7. p \in Places
    BY <1>3, <1>4, <1>6 DEF Places
  <1> QED BY <1>4, <1>6, <1>7, PlaceParts DEF Usable

\* A step that keeps the tree keeps the cores that can be used.
LEMMA UsableKept ==
  ASSUME inputs' = inputs
  PROVE  /\ policy' = policy /\ Nodes' = Nodes /\ tree' = tree
         /\ Usable' = Usable
         /\ \A p : PerfLevel(p)' = PerfLevel(p) /\ NumThreads(p)' = NumThreads(p)
  BY DEF inputs, Nodes, PerfLevel, CoreAt, NumThreads, Usable, CorePlaces

\* No step changes the inputs.
LEMMA InputsKept == [Next]_vars => inputs' = inputs
  BY DEF Next, vars, inputs, Begin, OpenLevel, ScanCore, CloseGroup,
     GroupsBuilt, LevelsDone, Deal, NextRound, LevelDealt, Interleaved,
     AddThread, NextList, Emitted, Terminating

\* What is in a list stays when something is appended, which is in it then.
LEMMA InListAppend ==
  ASSUME NEW S, NEW s \in Seq(S), NEW e
  PROVE  /\ InList(Append(s, e), e)
         /\ \A d : InList(s, d) => InList(Append(s, e), d)
         /\ \A d : InGroups(s, d) => InGroups(Append(s, e), d)
         /\ \A d : InList(e, d) => InGroups(Append(s, e), d)
  <1>1. /\ DOMAIN s = 1..Len(s) /\ Len(s) \in Nat
        /\ DOMAIN Append(s, e) = 1..(Len(s) + 1)
        /\ \A x \in 1..Len(s) : Append(s, e)[x] = s[x]
        /\ Append(s, e)[Len(s) + 1] = e
    BY AppendParts
  <1>2. Len(s) + 1 \in DOMAIN Append(s, e) /\ DOMAIN s \subseteq DOMAIN Append(s, e)
    BY <1>1
  <1> QED BY <1>1, <1>2 DEF InList, InGroups

\* A group that is closed is kept unless it is empty.
LEMMA KeptAll ==
  ASSUME NEW S, NEW gs \in Seq(S), NEW cores, NEW p
  PROVE  InGroups(gs, p) \/ InList(cores, p) => InGroups(Kept(gs, cores), p)
  <1>1. CASE cores = <<>>
    BY <1>1 DEF InList, Kept
  <1>2. CASE cores # <<>>
    BY <1>2, InListAppend DEF Kept
  <1> QED BY <1>1, <1>2

\* Grouping passes no core of the level without taking it.
LEMMA GroupedStep == TypeOK /\ GroupedInv /\ [Next]_vars => GroupedInv'
  <1> SUFFICES ASSUME TypeOK, GroupedInv, [Next]_vars, pc' = "scan",
                      NEW p \in Usable, PerfLevel(p) = lvl'
               PROVE  /\ p[2] < llc_index' \/ (p[2] = llc_index' /\ p[1] < node')
                            => InGroups(groups', p)
                      /\ p[2] = llc_index' /\ p[1] = node' /\ p[3] < k'
                            => InList(cores_in_group', p)
    BY InputsKept, UsableKept DEF GroupedInv
  <1>0. /\ p = <<p[1], p[2], p[3]>> /\ tree \in Topology
        /\ p[1] \in 1..Len(Nodes) /\ Len(Nodes) \in Nat
        /\ p[2] \in 1..Len(Nodes[p[1]]) /\ Len(Nodes[p[1]]) \in Nat
        /\ p[3] \in 1..Len(Nodes[p[1]][p[2]]) /\ Len(Nodes[p[1]][p[2]]) \in Nat
        /\ node \in Nat \ {0} /\ llc_index \in Nat \ {0} /\ k \in Nat \ {0}
    BY UsableParts DEF TypeOK
  <1>1. CASE OpenLevel
    BY <1>0, <1>1 DEF OpenLevel
  <1>2. CASE ScanCore
    <2> DEFINE q == <<node, llc_index, k>>
    <2>1. /\ UNCHANGED <<lvl, llc_index, node, groups>> /\ k' = k + 1 /\ pc = "scan"
          /\ cores_in_group \in Seq(Places)
          /\ Belongs(q) => cores_in_group' = Append(cores_in_group, q)
          /\ ~Belongs(q) => cores_in_group' = cores_in_group
      BY <1>2 DEF ScanCore, TypeOK
    <2> HIDE DEF q
    <2>2. /\ \A d : InList(cores_in_group, d) => InList(cores_in_group', d)
          /\ Belongs(q) => InList(cores_in_group', q)
      <3>1. CASE Belongs(q)
        <4>1. /\ \A d : InList(cores_in_group, d) => InList(Append(cores_in_group, q), d)
              /\ InList(Append(cores_in_group, q), q)
          BY <2>1, InListAppend
        <4> QED BY <2>1, <3>1, <4>1
      <3>2. CASE ~Belongs(q)
        BY <2>1, <3>2
      <3> QED BY <3>1, <3>2
    <2>3. CASE p = q
      <3>1. NumThreads(p) \in Nat \ {0} /\ PerfLevel(p) = lvl
        BY <1>0, <2>1, UsableParts
      <3>2. InList(cores_in_group', p)
        BY <2>2, <2>3, <3>1 DEF Belongs
      <3>3. p[1] = node /\ p[2] = llc_index
        BY <2>3 DEF q
      <3> QED BY <1>0, <2>1, <3>2, <3>3
    <2>4. CASE p # q
      <3>1. p[2] = llc_index /\ p[1] = node /\ p[3] < k + 1 => p[3] < k
        BY <1>0, <2>4 DEF q
      <3>2. PerfLevel(p) = lvl
        BY <2>1
      <3> QED BY <2>1, <2>2, <3>1, <3>2 DEF GroupedInv
    <2> QED BY <2>3, <2>4
  <1>3. CASE CloseGroup
    <2>1. /\ pc = "scan" /\ lvl' = lvl /\ groups' = Kept(groups, cores_in_group)
          /\ k' = 1 /\ node' = NextNode /\ llc_index' = NextLlc /\ k > Len(CoresHere)
          /\ groups \in Seq(Seq(Places))
      BY <1>3 DEF CloseGroup, TypeOK
    <2>2. InGroups(groups, p) \/ InList(cores_in_group, p) => InGroups(groups', p)
      BY <2>1, KeptAll
    <2>3. p[2] = llc_index /\ p[1] = node => p[3] < k
      BY <1>0, <2>1 DEF CoresHere
    <2>4. p[2] < llc_index' \/ (p[2] = llc_index' /\ p[1] < node') =>
            \/ p[2] < llc_index \/ (p[2] = llc_index /\ p[1] < node)
            \/ p[2] = llc_index /\ p[1] = node
      BY <1>0, <2>1 DEF NextNode, NextLlc
    <2> QED BY <1>0, <2>1, <2>2, <2>3, <2>4 DEF GroupedInv
  <1>4. CASE UNCHANGED vars
    BY <1>4 DEF vars, scanVars, GroupedInv
  <1> QED
    BY <1>1, <1>2, <1>3, <1>4 DEF Next, Begin, GroupsBuilt, LevelsDone,
       StartInterleave, Deal, NextRound, LevelDealt, Interleaved, AddThread,
       NextList, Emitted, Terminating

\* When no LLC is left, every core of the level is in a group.
LEMMA AllGrouped ==
  ASSUME TypeOK, GroupedInv, pc = "scan", ~LlcsLeft,
         NEW p \in Usable, PerfLevel(p) = lvl
  PROVE  InGroups(groups, p)
  <1>1. /\ p[1] \in 1..Len(Nodes) /\ p[2] \in 1..Len(Nodes[p[1]])
        /\ Len(Nodes[p[1]]) \in Nat /\ llc_index \in Nat /\ Nodes \in Seq(NumaNode)
    BY UsableParts, TreeParts DEF TypeOK
  <1>2. ~(llc_index <= Len(Nodes[p[1]]))
    BY <1>1 DEF LlcsLeft
  <1> QED BY <1>1, <1>2 DEF GroupedInv

\* What is grouped waits until it is copied, and no level is left out.
LEMMA WaitingStep ==
  TypeOK /\ LevelsInv /\ GroupedInv /\ WaitingInv /\ [Next]_vars => WaitingInv'
  <1> SUFFICES ASSUME TypeOK, LevelsInv, GroupedInv, WaitingInv, [Next]_vars
               PROVE  WaitingInv'
    OBVIOUS
  <1>0. /\ inputs' = inputs /\ policy' = policy /\ tree' = tree /\ Nodes' = Nodes
        /\ Usable' = Usable /\ \A p : PerfLevel(p)' = PerfLevel(p)
        /\ lvl \in Nat /\ policy \in Policies /\ tree \in Topology
        /\ levels \in Seq(Seq(Seq(Places)))
    BY InputsKept, UsableKept DEF TypeOK
  <1>1. CASE GroupsBuilt
    <2>1. /\ pc = "scan" /\ ~LlcsLeft /\ levels' = Append(levels, groups)
          /\ lvl' = lvl + 1
          /\ policy = "numa" => pc' = "level"
          /\ policy = "phte" => pc' = "interleave"
      BY <1>0, <1>1 DEF GroupsBuilt, StartInterleave, Policies
    <2>2. /\ \A v \in DOMAIN levels : v \in DOMAIN levels' /\ levels'[v] = levels[v]
          /\ Len(levels) + 1 \in DOMAIN levels' /\ levels'[Len(levels) + 1] = groups
      BY <1>0, <2>1, AppendParts
    <2>3. ASSUME NEW p \in Usable, Pending(p)'
          PROVE  \E v \in DOMAIN levels' : InGroups(levels'[v], p)
      <3>1. PerfLevel(p) \in Nat /\ PerfLevel(p) < lvl + 1
        BY <1>0, <2>1, <2>3, UsableParts DEF Pending
      <3>2. CASE PerfLevel(p) = lvl
        BY <2>1, <2>2, <3>2, AllGrouped
      <3>3. CASE PerfLevel(p) < lvl
        <4>1. policy = "numa"
          BY <1>0, <2>1, <2>3, <3>1, <3>3 DEF Pending
        <4>2. \E v \in DOMAIN levels : InGroups(levels[v], p)
          BY <3>3, <4>1 DEF Pending, WaitingInv
        <4> QED BY <2>2, <4>2
      <3> QED BY <1>0, <3>1, <3>2, <3>3
    <2>4. \A p \in Usable' : Pending(p)' => \E v \in DOMAIN levels' : InGroups(levels'[v], p)
      BY <1>0, <2>3
    <2>5. pc' # "done" /\ (policy' = "numa" => pc' = "level")
      BY <1>0, <2>1 DEF Policies
    <2> QED BY <2>4, <2>5 DEF WaitingInv, InGroups
  <1>2. CASE LevelsDone
    <2>1. /\ pc = "level" /\ lvl >= tree.perf_level_count /\ UNCHANGED <<lvl, levels>>
          /\ policy = "numa" => pc' = "interleave"
          /\ policy = "phte" => pc' = "done"
      BY <1>0, <1>2 DEF LevelsDone, StartInterleave, Policies
    <2>2. \A p : Pending(p)' => Pending(p)
      BY <1>0, <2>1 DEF Pending
    <2> QED BY <1>0, <2>1, <2>2 DEF WaitingInv
  <1>3. CASE Emitted
    <2>1. /\ pc = "emit" /\ lvl' = lvl
          /\ policy = "numa" => pc' = "done" /\ levels' = levels
          /\ policy = "phte" => pc' = "level"
      BY <1>0, <1>3 DEF Emitted, Policies
    <2>2. CASE policy = "numa"
      <3>1. \A p : Pending(p)' => Pending(p)
        BY <1>0, <2>1, <2>2 DEF Pending
      <3> QED BY <1>0, <2>1, <2>2, <3>1 DEF WaitingInv
    <2>3. CASE policy = "phte"
      BY <1>0, <2>1, <2>3 DEF WaitingInv, Pending
    <2> QED BY <1>0, <2>2, <2>3 DEF Policies
  <1>4. CASE Begin
    <2>1. /\ pc = "begin" /\ UNCHANGED <<lvl, levels>> /\ pc' \in {"done", "level"}
          /\ pc' = "done" => Nodes = <<>>
      BY <1>4 DEF Begin
    <2>2. \A p : Pending(p)' => Pending(p)
      BY <1>0, <2>1 DEF Pending
    <2>3. \A p \in Usable : Pending(p)' => \E v \in DOMAIN levels : InGroups(levels[v], p)
      BY <2>2 DEF WaitingInv
    <2>4. ~(pc' = "done" /\ Nodes' # <<>>) /\ pc' \notin {"interleave", "emit"}
      BY <1>0, <2>1
    <2> QED BY <1>0, <2>1, <2>3, <2>4 DEF WaitingInv
  <1>5. CASE /\ UNCHANGED <<lvl, levels>>
             /\ \/ pc' = pc
                \/ pc = "interleave" /\ pc' = "emit"
                \/ pc = "level" /\ pc' = "scan"
    <2>1. \A p : Pending(p)' => Pending(p)
      BY <1>0, <1>5 DEF Pending
    <2> QED BY <1>0, <1>5, <2>1 DEF WaitingInv
  <1> QED
    BY <1>1, <1>2, <1>3, <1>4, <1>5 DEF Next, vars, OpenLevel, ScanCore, CloseGroup,
       Deal, NextRound, LevelDealt, Interleaved, AddThread, NextList, Terminating

\* No core has more threads than there are lists.
LEMMA RanksStep ==
  TypeOK /\ LevelsInv /\ RanksInv /\ [Next]_vars => RanksInv'
  <1> SUFFICES ASSUME TypeOK, LevelsInv, RanksInv, [Next]_vars PROVE RanksInv'
    OBVIOUS
  <1>0. /\ inputs' = inputs /\ policy' = policy /\ tree \in Topology
        /\ \A p : NumThreads(p)' = NumThreads(p)
        /\ max_threads \in Nat /\ policy \in Policies
        /\ levels \in Seq(Seq(Seq(Places))) /\ groups \in Seq(Seq(Places))
        /\ cores_in_group \in Seq(Places) /\ thread_lists \in Seq(Seq(Processors))
    BY InputsKept, UsableKept DEF TypeOK
  <1>1. CASE OpenLevel
    <2>1. /\ pc = "level" /\ pc' = "scan" /\ levels' = levels
          /\ groups' = <<>> /\ cores_in_group' = <<>>
          /\ policy = "numa" => max_threads' = max_threads
      BY <1>1 DEF OpenLevel
    <2>2. policy = "phte" => levels = <<>>
      BY <2>1 DEF LevelsInv
    <2> QED BY <1>0, <2>1, <2>2 DEF RanksInv, Policies
  <1>2. CASE ScanCore
    <2> DEFINE q == <<node, llc_index, k>>
    <2>1. /\ pc = "scan" /\ UNCHANGED <<pc, groups, levels>>
          /\ \/ UNCHANGED <<cores_in_group, max_threads>>
             \/ /\ cores_in_group' = Append(cores_in_group, q)
                /\ max_threads' = Larger(max_threads, NumThreads(q))
      BY <1>2 DEF ScanCore
    <2>2. CASE UNCHANGED <<cores_in_group, max_threads>>
      BY <1>0, <2>1, <2>2 DEF RanksInv
    <2>3. CASE /\ cores_in_group' = Append(cores_in_group, q)
               /\ max_threads' = Larger(max_threads, NumThreads(q))
      <3>1. NumThreads(q) \in Nat
        <4>1. node \in DOMAIN Nodes /\ k <= Len(CoresHere)
          BY <1>2 DEF ScanCore, TypeOK
        <4>2. q \in Places
          BY <1>0, <4>1, ScannedPlace DEF TypeOK
        <4> QED BY <1>0, <4>2, PlaceParts
      <3>2. max_threads <= max_threads' /\ NumThreads(q) <= max_threads' /\ max_threads' \in Nat
        BY <1>0, <2>3, <3>1 DEF Larger
      <3>3. /\ \A a \in DOMAIN cores_in_group' :
                 \/ cores_in_group'[a] = q
                 \/ a \in DOMAIN cores_in_group /\ cores_in_group'[a] = cores_in_group[a]
        <4> HIDE DEF q
        <4> QED BY <1>0, <2>3, AppendParts
      <3>4. \A p \in Places : NumThreads(p) \in Nat /\ (NumThreads(p) <= max_threads
                                                        => NumThreads(p) <= max_threads')
        BY <1>0, <3>2, PlaceParts
      <3>5. /\ \A v \in DOMAIN levels : \A x \in DOMAIN levels[v] : \A a \in DOMAIN levels[v][x] :
                 levels[v][x][a] \in Places
            /\ \A x \in DOMAIN groups : \A a \in DOMAIN groups[x] : groups[x][a] \in Places
            /\ \A a \in DOMAIN cores_in_group : cores_in_group[a] \in Places
        BY <1>0, SeqElement
      <3> HIDE DEF q
      <3> QED BY <1>0, <2>1, <3>2, <3>3, <3>4, <3>5 DEF RanksInv
    <2> QED BY <2>1, <2>2, <2>3
  <1>3. CASE CloseGroup
    <2>1. /\ pc = "scan" /\ UNCHANGED <<pc, levels, max_threads>> /\ cores_in_group' = <<>>
          /\ groups' \in {groups, Append(groups, cores_in_group)}
      BY <1>3 DEF CloseGroup, Kept
    <2>2. \A x \in DOMAIN groups' : \/ groups'[x] = cores_in_group
                                    \/ x \in DOMAIN groups /\ groups'[x] = groups[x]
      <3>1. CASE groups' = groups
        BY <3>1
      <3>2. CASE groups' = Append(groups, cores_in_group)
        BY <1>0, <3>2, AppendParts
      <3> QED BY <2>1, <3>1, <3>2
    <2>3. \A x \in DOMAIN groups' : \A a \in DOMAIN groups'[x] :
            NumThreads(groups'[x][a]) <= max_threads
      BY <2>1, <2>2 DEF RanksInv
    <2>4. \A a \in DOMAIN cores_in_group' : NumThreads(cores_in_group'[a]) <= max_threads
      BY <2>1
    <2>5. \A v \in DOMAIN levels : \A x \in DOMAIN levels[v] : \A a \in DOMAIN levels[v][x] :
            NumThreads(levels[v][x][a]) <= max_threads
      BY DEF RanksInv
    <2> QED BY <1>0, <2>1, <2>3, <2>4, <2>5 DEF RanksInv
  <1>4. CASE GroupsBuilt
    <2>1. /\ pc = "scan" /\ levels' = Append(levels, groups) /\ max_threads' = max_threads
          /\ \/ pc' = "level"
             \/ pc' = "interleave" /\ thread_lists' = EmptyLists(max_threads)
      BY <1>4 DEF GroupsBuilt, StartInterleave, scanVars
    <2>2. \A v \in DOMAIN levels' : \/ levels'[v] = groups
                                    \/ v \in DOMAIN levels /\ levels'[v] = levels[v]
      <3>1. levels \in Seq(Seq(Seq(Places))) /\ levels' = Append(levels, groups)
        BY <1>0, <2>1
      <3>2. /\ DOMAIN levels = 1..Len(levels) /\ Len(levels) \in Nat
            /\ DOMAIN levels' = 1..(Len(levels) + 1)
            /\ \A x \in 1..Len(levels) : levels'[x] = levels[x]
            /\ levels'[Len(levels) + 1] = groups
        BY ONLY <3>1, AppendParts
      <3> QED BY ONLY <3>2
    <2>3. Len(EmptyLists(max_threads)) = max_threads
      BY <1>0 DEF EmptyLists
    <2> QED BY <1>0, <2>1, <2>2, <2>3 DEF RanksInv
  <1>5. CASE LevelsDone
    <2>1. /\ pc = "level" /\ UNCHANGED <<levels, max_threads>>
          /\ \/ pc' = "done"
             \/ pc' = "interleave" /\ thread_lists' = EmptyLists(max_threads)
      BY <1>5 DEF LevelsDone, StartInterleave, scanVars
    <2>2. Len(EmptyLists(max_threads)) = max_threads
      BY <1>0 DEF EmptyLists
    <2> QED BY <1>0, <2>1, <2>2 DEF RanksInv
  <1>6. CASE Deal
    <2>1. /\ pc = "interleave" /\ UNCHANGED <<pc, levels, max_threads>>
          /\ \/ thread_lists' = thread_lists
             \/ thread_lists' = Dealt(levels[level][g][i])
      BY <1>6 DEF Deal, scanVars
    <2>2. Len(thread_lists') = Len(thread_lists)
      BY <1>0, <2>1 DEF Dealt
    <2> QED BY <1>0, <2>1, <2>2 DEF RanksInv
  <1>7. CASE Emitted
    <2>1. /\ max_threads' = max_threads /\ pc' \in {"done", "level"}
          /\ levels' \in {levels, <<>>}
      BY <1>7 DEF Emitted, scanVars
    <2>2. CASE levels' = levels
      BY <1>0, <2>1, <2>2 DEF RanksInv
    <2>3. CASE levels' = <<>>
      BY <2>1, <2>3 DEF RanksInv
    <2> QED BY <2>1, <2>2, <2>3
  <1>8. CASE /\ UNCHANGED <<levels, max_threads, thread_lists, groups, cores_in_group>>
             /\ \/ pc' \in {pc, "done", "level"}
                \/ pc = "interleave" /\ pc' = "emit"
    BY <1>0, <1>8 DEF RanksInv
  <1> QED
    BY <1>1, <1>2, <1>3, <1>4, <1>5, <1>6, <1>7, <1>8 DEF Next, vars, scanVars, interVars,
       Begin, NextRound, LevelDealt, Interleaved, AddThread, NextList, Terminating

\* Every position the interleaving cursor has passed was dealt whole.
LEMMA DealtStep ==
  TypeOK /\ RanksInv /\ DealtInv /\ [Next]_vars => DealtInv'
  <1> SUFFICES ASSUME TypeOK, RanksInv, DealtInv, [Next]_vars PROVE DealtInv'
    OBVIOUS
  <1>0. /\ inputs' = inputs /\ tree \in Topology /\ \A p : NumThreads(p)' = NumThreads(p)
        /\ level \in Nat /\ i \in Nat /\ g \in Nat
        /\ levels \in Seq(Seq(Seq(Places))) /\ thread_lists \in Seq(Seq(Processors))
    BY InputsKept, UsableKept DEF TypeOK
  <1>1. /\ \A v \in DOMAIN levels : /\ levels[v] \in Seq(Seq(Places)) /\ v \in Nat
                                   /\ Len(levels[v]) \in Nat
        /\ \A v \in DOMAIN levels : \A x \in DOMAIN levels[v] :
             /\ levels[v][x] \in Seq(Places) /\ x \in 1..Len(levels[v])
             /\ Len(levels[v][x]) \in Nat /\ x \in Nat
        /\ \A v \in DOMAIN levels : \A x \in DOMAIN levels[v] : \A a \in DOMAIN levels[v][x] :
             levels[v][x][a] \in Places /\ a \in 1..Len(levels[v][x]) /\ a \in Nat
    <2>1. \A v \in DOMAIN levels : /\ levels[v] \in Seq(Seq(Places)) /\ v \in Nat
                                  /\ Len(levels[v]) \in Nat
      BY <1>0, SeqElement
    <2>2. \A v \in DOMAIN levels : \A x \in DOMAIN levels[v] :
             /\ levels[v][x] \in Seq(Places) /\ x \in 1..Len(levels[v])
             /\ Len(levels[v][x]) \in Nat /\ x \in Nat
      BY <2>1, SeqElement
    <2> QED BY <2>1, <2>2, SeqElement
  <1>2. CASE (GroupsBuilt \/ LevelsDone) /\ pc' = "interleave"
    <2>1. level' = 1 /\ i' = 1 /\ g' = 1
      BY <1>2 DEF GroupsBuilt, LevelsDone, StartInterleave
    <2>2. CASE GroupsBuilt
      <3>1. levels' \in Seq(Seq(Seq(Places)))
        BY <1>0, <2>2, AppendType DEF GroupsBuilt, TypeOK
      <3>2. \A v \in DOMAIN levels' : v \in Nat \ {0}
        BY <3>1
      <3>3. \A v \in DOMAIN levels' : levels'[v] \in Seq(Seq(Places))
        BY <3>1, SeqElement
      <3>4. \A v \in DOMAIN levels' : \A x \in DOMAIN levels'[v] :
              x \in Nat \ {0} /\ levels'[v][x] \in Seq(Places)
        BY <3>3, SeqElement
      <3>5. \A v \in DOMAIN levels' : \A x \in DOMAIN levels'[v] :
              \A a \in DOMAIN levels'[v][x] : ~Passed(v, x, a)'
        BY <2>1, <3>2, <3>4 DEF Passed
      <3> QED BY <1>2, <3>5 DEF DealtInv
    <2>3. CASE LevelsDone
      <3>1. levels' = levels
        BY <2>3 DEF LevelsDone
      <3>2. \A v \in DOMAIN levels : \A x \in DOMAIN levels[v] :
              \A a \in DOMAIN levels[v][x] : ~Passed(v, x, a)'
        BY <1>0, <1>1, <2>1 DEF Passed
      <3> QED BY <1>2, <3>1, <3>2 DEF DealtInv
    <2> QED BY <1>2, <2>2, <2>3
  <1>3. CASE Deal
    <2>1. /\ pc = "interleave" /\ pc' = pc /\ levels' = levels /\ level' = level /\ i' = i
          /\ g' = g + 1 /\ level \in DOMAIN levels /\ g \in DOMAIN levels[level]
          /\ thread_lists' = IF i <= Len(levels[level][g])
                             THEN Dealt(levels[level][g][i]) ELSE thread_lists
      <3>1. level \in Nat \ {0} /\ g \in Nat \ {0}
        BY DEF TypeOK
      <3>2. level \in DOMAIN levels
        BY <1>0, <3>1, <1>3 DEF Deal
      <3>3. g \in DOMAIN levels[level]
        <4>1. levels[level] \in Seq(Seq(Places)) /\ g <= Len(levels[level])
          BY <1>1, <3>2, <1>3 DEF Deal
        <4> QED BY ONLY <3>1, <4>1
      <3> QED BY <3>2, <3>3, <1>3 DEF Deal
    <2> DEFINE q == levels[level][g][i]
    <2>2. DOMAIN thread_lists = 1..Len(thread_lists) /\ Len(thread_lists) = max_threads
      BY <1>0, <2>1 DEF RanksInv
    <2>3. i <= Len(levels[level][g]) =>
            /\ q \in Places /\ NumThreads(q) \in Nat /\ NumThreads(q) <= max_threads
      <3>1. i <= Len(levels[level][g]) => i \in DOMAIN levels[level][g]
        BY <1>0, <1>1, <2>1 DEF TypeOK
      <3> QED BY <1>0, <1>1, <2>1, <3>1, PlaceParts DEF RanksInv
    <2>4. \A r \in DOMAIN thread_lists :
            \/ thread_lists'[r] = thread_lists[r]
            \/ thread_lists'[r] = Append(thread_lists[r], <<q, r>>)
      BY <2>1 DEF Dealt
    <2>5. \A r \in DOMAIN thread_lists : \A e :
            InList(thread_lists[r], e) => InList(thread_lists'[r], e)
      <3> SUFFICES ASSUME NEW r \in DOMAIN thread_lists, NEW e, InList(thread_lists[r], e)
                   PROVE  InList(thread_lists'[r], e)
        OBVIOUS
      <3>1. thread_lists[r] \in Seq(Processors)
        BY <1>0, SeqElement
      <3> HIDE DEF q
      <3>2. InList(Append(thread_lists[r], <<q, r>>), e)
        BY <3>1, InListAppend
      <3> QED BY <2>4, <3>2
    <2>6. i <= Len(levels[level][g]) =>
            \A r \in 1..NumThreads(q) : InList(thread_lists'[r], <<q, r>>)
      <3> SUFFICES ASSUME i <= Len(levels[level][g]), NEW r \in 1..NumThreads(q)
                   PROVE  InList(thread_lists'[r], <<q, r>>)
        OBVIOUS
      <3>1. r \in DOMAIN thread_lists /\ r <= NumThreads(q)
        BY <1>0, <2>2, <2>3 DEF TypeOK
      <3>2. thread_lists[r] \in Seq(Processors)
        BY <1>0, <3>1, SeqElement
      <3>3. thread_lists'[r] = Append(thread_lists[r], <<q, r>>)
        BY <2>1, <3>1 DEF Dealt
      <3> HIDE DEF q
      <3>4. InList(Append(thread_lists[r], <<q, r>>), <<q, r>>)
        BY <3>2, InListAppend
      <3> QED BY <3>3, <3>4
    <2>7. ASSUME NEW v \in DOMAIN levels, NEW x \in DOMAIN levels[v],
                 NEW a \in DOMAIN levels[v][x], Passed(v, x, a)',
                 NEW r \in 1..NumThreads(levels[v][x][a])
          PROVE  InList(thread_lists'[r], <<levels[v][x][a], r>>)
      <3>1. Passed(v, x, a) \/ (v = level /\ a = i /\ x = g)
        <4>1. v \in Nat /\ x \in Nat /\ a \in Nat
          BY <1>1
        <4> QED BY <1>0, <2>1, <2>7, <4>1 DEF Passed
      <3>2. CASE Passed(v, x, a)
        <4>1. InList(thread_lists[r], <<levels[v][x][a], r>>)
          BY <2>1, <3>2 DEF DealtInv
        <4>2. NumThreads(levels[v][x][a]) \in Nat /\ NumThreads(levels[v][x][a]) <= max_threads
          BY <1>0, <1>1, PlaceParts DEF RanksInv
        <4>3. r \in DOMAIN thread_lists
          BY <2>2, <4>2 DEF TypeOK
        <4> QED BY <2>5, <4>1, <4>3
      <3>3. CASE v = level /\ a = i /\ x = g
        <4>1. i <= Len(levels[level][g])
          BY <1>1, <3>3
        <4> QED BY <2>6, <3>3, <4>1
      <3> QED BY <3>1, <3>2, <3>3
    <2>8. \A v \in DOMAIN levels : \A x \in DOMAIN levels[v] : \A a \in DOMAIN levels[v][x] :
            Passed(v, x, a)' => \A r \in 1..NumThreads(levels[v][x][a]) :
                                  InList(thread_lists'[r], <<levels[v][x][a], r>>)
      BY <2>7
    <2>9. levels' = levels /\ pc' # "emit"
      BY <1>0, <2>1
    <2> HIDE DEF q
    <2>10. ASSUME NEW v \in DOMAIN levels, NEW x \in DOMAIN levels[v],
                  NEW a \in DOMAIN levels[v][x], Passed(v, x, a)',
                  NEW r \in 1..NumThreads(levels[v][x][a])'
           PROVE  InList(thread_lists[r], <<levels[v][x][a], r>>)'
      <3>1. NumThreads(levels[v][x][a])' = NumThreads(levels[v][x][a])
        BY <1>0, <2>9
      <3> QED BY <2>7, <2>9, <2>10, <3>1 DEF InList
    <2> QED BY <2>9, <2>10 DEF DealtInv
  <1>4. ASSUME pc = "interleave", pc' \in {"interleave", "emit"},
               UNCHANGED <<levels, thread_lists>>,
               \A v \in DOMAIN levels : \A x \in DOMAIN levels[v] :
                 \A a \in DOMAIN levels[v][x] : Passed(v, x, a)' => Passed(v, x, a),
               pc' = "emit" => level' > Len(levels)
        PROVE  DealtInv'
    BY <1>0, <1>4 DEF DealtInv
  <1>5. CASE NextRound
    <2>1. /\ pc = "interleave" /\ pc' = pc /\ UNCHANGED <<levels, level, thread_lists>>
          /\ i' = i + 1 /\ g' = 1 /\ g > Len(levels[level])
      BY <1>5 DEF NextRound
    <2>2. \A v \in DOMAIN levels : \A x \in DOMAIN levels[v] :
            \A a \in DOMAIN levels[v][x] : Passed(v, x, a)' => Passed(v, x, a)
      BY <1>0, <1>1, <2>1 DEF Passed
    <2> QED BY <1>4, <2>1, <2>2
  <1>6. CASE LevelDealt
    <2>1. /\ pc = "interleave" /\ pc' = pc /\ UNCHANGED <<levels, thread_lists>>
          /\ level' = level + 1 /\ i' = 1 /\ g' = 1 /\ ~CoresLeft(levels[level])
      BY <1>6 DEF LevelDealt
    <2>2. ASSUME NEW v \in DOMAIN levels, NEW x \in DOMAIN levels[v],
                 NEW a \in DOMAIN levels[v][x], Passed(v, x, a)'
          PROVE  Passed(v, x, a)
      <3>1. v <= level
        BY <1>0, <1>1, <2>1, <2>2 DEF Passed
      <3>2. CASE v = level
        <4>1. ~(i <= Len(levels[v][x]))
          BY <2>1, <3>2 DEF CoresLeft
        <4> QED BY <1>0, <1>1, <3>2, <4>1 DEF Passed
      <3> QED BY <1>0, <1>1, <3>1, <3>2 DEF Passed
    <2> QED BY <1>4, <2>1, <2>2
  <1>7. CASE Interleaved
    <2>1. /\ pc = "interleave" /\ pc' = "emit" /\ UNCHANGED <<levels, thread_lists>>
          /\ UNCHANGED <<level, i, g>> /\ level > Len(levels)
      BY <1>7 DEF Interleaved, interVars
    <2> QED BY <1>4, <2>1 DEF Passed
  <1>8. CASE UNCHANGED <<pc, levels, interVars>>
    <2>1. \A v, x, a : Passed(v, x, a)' <=> Passed(v, x, a)
      BY <1>8 DEF Passed, interVars
    <2> QED BY <1>0, <1>8, <2>1 DEF DealtInv, interVars
  <1>9. CASE pc' \notin {"interleave", "emit"}
    BY <1>9 DEF DealtInv
  <1> QED
    BY <1>2, <1>3, <1>5, <1>6, <1>7, <1>8, <1>9 DEF Next, vars, Begin, OpenLevel, ScanCore,
       CloseGroup, GroupsBuilt, LevelsDone, StartInterleave, AddThread, NextList, Emitted,
       Terminating

\* Copying leaves no entry of a list behind.
LEMMA CopiedStep == TypeOK /\ CopiedInv /\ [Next]_vars => CopiedInv'
  <1> SUFFICES ASSUME TypeOK, CopiedInv, [Next]_vars, pc' = "emit" PROVE CopiedInv'
    BY DEF CopiedInv
  <1>0. /\ t \in Nat /\ j \in Nat /\ result \in Seq(Processors)
        /\ thread_lists \in Seq(Seq(Processors))
        /\ \A r \in DOMAIN thread_lists : r \in Nat \ {0}
        /\ \A r \in DOMAIN thread_lists : \A b \in DOMAIN thread_lists[r] :
             b \in Nat \ {0} /\ b <= Len(thread_lists[r]) /\ Len(thread_lists[r]) \in Nat
    <2>1. thread_lists \in Seq(Seq(Processors))
      BY DEF TypeOK
    <2>2. \A r \in DOMAIN thread_lists : thread_lists[r] \in Seq(Processors) /\ r \in Nat \ {0}
      BY <2>1, SeqElement
    <2> QED BY <2>1, <2>2 DEF TypeOK
  <1>1. CASE Interleaved
    <2>1. t' = 1 /\ j' = 1 /\ thread_lists' = thread_lists
      BY <1>1 DEF Interleaved, interVars
    <2>2. \A r \in DOMAIN thread_lists : \A b \in DOMAIN thread_lists[r] :
            ~(r < 1 \/ (r = 1 /\ b < 1))
      BY <1>0
    <2> QED BY <2>1, <2>2 DEF CopiedInv
  <1>2. CASE AddThread
    <2>1. /\ pc = "emit" /\ thread_lists' = thread_lists /\ t' = t /\ j' = j + 1
          /\ result' = Append(result, thread_lists[t][j])
      BY <1>2 DEF AddThread, interVars
    <2>2. /\ InList(result', thread_lists[t][j])
          /\ \A e : InList(result, e) => InList(result', e)
      BY <1>0, <2>1, InListAppend
    <2>3. \A r \in DOMAIN thread_lists : \A b \in DOMAIN thread_lists[r] :
            r < t' \/ (r = t' /\ b < j') => r < t \/ (r = t /\ b < j) \/ (r = t /\ b = j)
      BY <1>0, <2>1
    <2> QED BY <2>1, <2>2, <2>3 DEF CopiedInv
  <1>3. CASE NextList
    <2>1. /\ pc = "emit" /\ UNCHANGED <<thread_lists, result>> /\ t' = t + 1 /\ j' = 1
          /\ j > Len(thread_lists[t])
      BY <1>3 DEF NextList, interVars
    <2>2. \A r \in DOMAIN thread_lists : \A b \in DOMAIN thread_lists[r] :
            r < t' \/ (r = t' /\ b < j') => r < t \/ (r = t /\ b < j)
      BY <1>0, <2>1
    <2> QED BY <2>1, <2>2 DEF CopiedInv
  <1>4. CASE UNCHANGED vars
    BY <1>4 DEF vars, interVars, emitVars, CopiedInv
  <1> QED
    BY <1>1, <1>2, <1>3, <1>4 DEF Next, Begin, OpenLevel, ScanCore, CloseGroup, GroupsBuilt,
       LevelsDone, StartInterleave, Deal, NextRound, LevelDealt, Emitted, Terminating

\* The threads of a core that was dealt and copied are in the result.
LEMMA CopiedWhole ==
  ASSUME TypeOK, RanksInv, DealtInv, CopiedInv, WaitingInv, pc = "emit",
         t > Len(thread_lists), NEW p \in Usable, Pending(p), NEW r \in 1..NumThreads(p)
  PROVE  InList(result, <<p, r>>)
  <1>1. PICK v \in DOMAIN levels : InGroups(levels[v], p)
    BY DEF WaitingInv
  <1>2. PICK x \in DOMAIN levels[v] : \E a \in DOMAIN levels[v][x] : levels[v][x][a] = p
    BY <1>1 DEF InGroups
  <1>3. PICK a \in DOMAIN levels[v][x] : levels[v][x][a] = p
    BY <1>2
  <1>4. /\ levels \in Seq(Seq(Seq(Places))) /\ level \in Nat /\ t \in Nat
        /\ thread_lists \in Seq(Seq(Processors)) /\ max_threads \in Nat
        /\ NumThreads(p) \in Nat
    BY UsableParts DEF TypeOK
  <1>5. Passed(v, x, a)
    BY <1>4 DEF Passed, DealtInv
  <1>6. InList(thread_lists[r], <<p, r>>)
    BY <1>3, <1>5 DEF DealtInv
  <1>7. NumThreads(p) <= max_threads /\ Len(thread_lists) = max_threads
    BY <1>3 DEF RanksInv
  <1>8. r \in DOMAIN thread_lists /\ r < t
    BY <1>4, <1>7
  <1>9. PICK b \in DOMAIN thread_lists[r] : thread_lists[r][b] = <<p, r>>
    BY <1>6 DEF InList
  <1> QED BY <1>8, <1>9 DEF CopiedInv

\* What is finished stays in the result, and a level is finished when its
\* lists are copied.
LEMMA FinishedStep == TypeOK /\ AllInv /\ [Next]_vars => FinishedInv'
  <1> SUFFICES ASSUME TypeOK, AllInv, [Next]_vars, NEW p \in Usable, Finished(p)',
                      NEW r \in 1..NumThreads(p)
               PROVE  InList(result', <<p, r>>)
    BY InputsKept, UsableKept DEF FinishedInv
  <1>0. /\ inputs' = inputs /\ policy' = policy /\ tree \in Topology
        /\ \A q : PerfLevel(q)' = PerfLevel(q)
        /\ lvl \in Nat /\ policy \in Policies /\ PerfLevel(p) \in Nat
        /\ result \in Seq(Processors)
    BY InputsKept, UsableKept, UsableParts DEF TypeOK
  <1>1. Finished(p) => InList(result, <<p, r>>)
    BY DEF AllInv, FinishedInv
  <1>2. CASE Emitted
    <2>1. /\ pc = "emit" /\ t > Len(thread_lists) /\ lvl' = lvl /\ result' = result
          /\ policy = "phte" => pc' = "level"
      BY <1>0, <1>2 DEF Emitted, emitVars, Policies
    <2>2. Finished(p) \/ Pending(p)
      BY <1>0, <2>1 DEF Finished, Pending, Policies
    <2>3. Pending(p) => InList(result, <<p, r>>)
      BY <2>1, CopiedWhole DEF AllInv
    <2> QED BY <1>1, <2>1, <2>2, <2>3
  <1>3. CASE GroupsBuilt
    <2>1. /\ pc = "scan" /\ lvl' = lvl + 1 /\ result' = result
          /\ policy = "phte" => pc' = "interleave"
          /\ policy = "numa" => pc' = "level"
      BY <1>0, <1>3 DEF GroupsBuilt, StartInterleave, emitVars, Policies
    <2>2. Finished(p)
      BY <1>0, <2>1 DEF Finished, Policies
    <2> QED BY <1>1, <2>1, <2>2
  <1>4. CASE LevelsDone
    <2>1. /\ pc = "level" /\ lvl' = lvl /\ result' = result
          /\ policy = "phte" => pc' = "done"
          /\ policy = "numa" => pc' = "interleave"
      BY <1>0, <1>4 DEF LevelsDone, StartInterleave, emitVars, Policies
    <2>2. Finished(p)
      BY <1>0, <2>1 DEF Finished, Policies
    <2> QED BY <1>1, <2>1, <2>2
  <1>5. CASE Begin
    <2>1. Nodes # <<>>
      BY <1>0, UsableParts
    <2>2. pc = "begin" /\ pc' = "level" /\ lvl' = lvl /\ result' = result
      BY <1>5, <2>1 DEF Begin, emitVars
    <2>3. Finished(p)
      BY <1>0, <2>2 DEF Finished, Policies
    <2> QED BY <1>1, <2>2, <2>3
  <1>6. CASE AddThread
    <2>1. pc' = pc /\ lvl' = lvl /\ result' = Append(result, thread_lists[t][j])
      BY <1>6 DEF AddThread
    <2>2. Finished(p)
      BY <1>0, <2>1 DEF Finished
    <2> QED BY <1>0, <1>1, <2>1, <2>2, InListAppend
  <1>7. CASE /\ UNCHANGED <<lvl, result>>
             /\ \/ pc' = pc
                \/ pc = "interleave" /\ pc' = "emit"
                \/ pc = "level" /\ pc' = "scan"
    <2>1. Finished(p)
      BY <1>0, <1>7 DEF Finished
    <2> QED BY <1>1, <1>7, <2>1
  <1> QED
    BY <1>2, <1>3, <1>4, <1>5, <1>6, <1>7 DEF Next, vars, emitVars, OpenLevel, ScanCore,
       CloseGroup, Deal, NextRound, LevelDealt, Interleaved, NextList, Terminating

\* Nothing has been passed in the initial state.
LEMMA InitAll == Init => AllInv
  <1> SUFFICES ASSUME Init PROVE AllInv
    OBVIOUS
  <1>1. tree \in Topology
    BY TreesAssumption DEF Init
  <1>2. \A p \in Usable : ~Pending(p) /\ ~Finished(p)
    BY <1>1, UsableParts DEF Init, Pending, Finished
  <1> QED BY <1>2 DEF Init, AllInv, GroupedInv, WaitingInv, RanksInv, DealtInv,
                      CopiedInv, FinishedInv

\* Nothing the functions have passed is ever missing from where they put it,
\* in any reachable state and for any topology.
THEOREM AllInvariant == Spec => []AllInv
  <1>1. TypeOK /\ LevelsInv /\ AllInv /\ [Next]_vars => AllInv'
    BY GroupedStep, WaitingStep, RanksStep, DealtStep, CopiedStep, FinishedStep DEF AllInv
  <1>2. OnceInv => LevelsInv
    BY DEF OnceInv
  <1> QED BY <1>1, <1>2, InitAll, TypeCorrect, OnceInvariant, PTL DEF Spec

\* A mapping that create_mapping_numa or create_mapping_phte returns holds
\* every processor of every core whose level the tree counts.
THEOREM EveryProcessorMapped == Spec => []AllMapped
  <1>1. ASSUME TypeOK, AllInv PROVE AllMapped
    <2> SUFFICES ASSUME pc = "done", NEW n \in DOMAIN Nodes, NEW l \in DOMAIN Nodes[n],
                        NEW c \in DOMAIN Nodes[n][l],
                        PerfLevel(<<n, l, c>>) < tree.perf_level_count,
                        NEW r \in 1..NumThreads(<<n, l, c>>)
                 PROVE  \E x \in DOMAIN result : result[x] = <<<<n, l, c>>, r>>
      BY DEF AllMapped
    <2> DEFINE p == <<n, l, c>>
    <2>1. Nodes # <<>> /\ tree \in Topology
      BY <1>1 DEF TypeOK
    <2>2. p \in CorePlaces
      BY DEF CorePlaces
    <2>3. CoreAt(p) = Nodes[n][l][c] /\ Nodes[n][l] \in Seq(Core)
      BY <2>1, TreeParts DEF CoreAt
    <2>4. NumThreads(p) \in Nat
      BY <2>3, SeqElement DEF NumThreads, Core
    <2> HIDE DEF p
    <2>5. p \in Usable
      BY <2>2, <2>4 DEF Usable, p
    <2>6. PerfLevel(p) \in Nat /\ lvl \in Nat /\ tree.perf_level_count \in Nat
      BY <1>1, <2>1, <2>5, UsableParts, TreeParts DEF TypeOK
    <2>7. PerfLevel(p) < lvl
      BY <1>1, <2>1, <2>6 DEF AllInv, WaitingInv, p
    <2>8. Finished(p)
      BY <1>1, <2>7 DEF Finished, TypeOK, Policies
    <2>9. InList(result, <<p, r>>)
      BY <1>1, <2>5, <2>8 DEF AllInv, FinishedInv, p
    <2> QED BY <2>9 DEF InList, p
  <1> QED BY <1>1, AllInvariant, TypeCorrect, PTL

-----------------------------------------------------------------------------
(* The loops follow the order of MappingPolicy: one lemma per part of      *)
(* OrderInv, then that the processor copied is the next of the policy.     *)

\* A core's round does not depend on how far the loops are.
LEMMA AheadKept == ASSUME inputs' = inputs PROVE \A p : Ahead(p)' = Ahead(p)
  BY UsableKept DEF Ahead

\* The groups of a level that is done are in order, and so are the next ones.
LEMMA KeptInOrder ==
  ASSUME NEW gs \in Seq(Seq(Places)), NEW cores \in Seq(Places),
         InOrder(gs), InRounds(cores),
         \A x \in DOMAIN gs : \A a \in DOMAIN gs[x], b \in DOMAIN cores :
           LlcBefore(gs[x][a], cores[b])
  PROVE  InOrder(Kept(gs, cores))
  <1>1. CASE cores = <<>>
    BY <1>1 DEF Kept
  <1>2. CASE cores # <<>>
    <2> DEFINE hs == Append(gs, cores)
    <2>1. /\ DOMAIN gs = 1..Len(gs) /\ Len(gs) \in Nat
          /\ DOMAIN hs = 1..(Len(gs) + 1)
          /\ \A x \in 1..Len(gs) : hs[x] = gs[x]
          /\ hs[Len(gs) + 1] = cores
      BY AppendParts
    <2> HIDE DEF hs
    <2>2. \A x \in DOMAIN hs : InRounds(hs[x])
      BY <2>1 DEF InOrder
    <2>3. ASSUME NEW x \in DOMAIN hs, NEW y \in DOMAIN hs, x < y,
                 NEW a \in DOMAIN hs[x], NEW b \in DOMAIN hs[y]
          PROVE  LlcBefore(hs[x][a], hs[y][b])
      <3>1. x \in DOMAIN gs /\ hs[x] = gs[x]
        BY <2>1, <2>3
      <3>2. CASE y \in DOMAIN gs
        <4>1. hs[y] = gs[y]
          BY <2>1, <3>2
        <4> QED BY <2>3, <3>1, <3>2, <4>1 DEF InOrder
      <3>3. CASE y = Len(gs) + 1
        BY <2>1, <2>3, <3>1, <3>3
      <3> QED BY <2>1, <3>2, <3>3
    <2>4. InOrder(hs)
      BY <2>2, <2>3 DEF InOrder
    <2> QED BY <1>2, <2>4 DEF Kept, hs
  <1> QED BY <1>1, <1>2

\* Grouping takes the cores of an LLC in rounds and the LLCs in order.
LEMMA RoundsStep == TypeOK /\ ScanInv /\ RoundsInv /\ [Next]_vars => RoundsInv'
  <1> SUFFICES ASSUME TypeOK, ScanInv, RoundsInv, [Next]_vars PROVE RoundsInv'
    OBVIOUS
  <1>0. /\ inputs' = inputs /\ Usable' = Usable /\ tree \in Topology
        /\ \A p : Ahead(p)' = Ahead(p) /\ PerfLevel(p)' = PerfLevel(p)
        /\ node \in Nat \ {0} /\ llc_index \in Nat \ {0} /\ k \in Nat \ {0}
        /\ cores_in_group \in Seq(Places) /\ groups \in Seq(Seq(Places))
        /\ levels \in Seq(Seq(Seq(Places)))
    BY InputsKept, UsableKept, AheadKept DEF TypeOK
  <1>1. (k' = 1) => Passing' = {}
    <2> SUFFICES ASSUME k' = 1, NEW q \in Usable, q[3] < 1 PROVE FALSE
      BY <1>0 DEF Passing
    <2> QED BY <1>0, UsableParts
  <1>2. IsFiniteSet({}) /\ Cardinality({}) = 0
    BY FS_EmptySet
  <1>3. levels' = levels => \A v \in DOMAIN levels' : InOrder(levels[v])'
    BY <1>0 DEF RoundsInv, InOrder, InRounds, LlcBefore
  <1>4. CASE OpenLevel
    <2>1. k' = 1 /\ cores_in_group' = <<>> /\ groups' = <<>> /\ levels' = levels
      BY <1>4 DEF OpenLevel
    <2>2. Len(cores_in_group') = 0 /\ DOMAIN cores_in_group' = {} /\ DOMAIN groups' = {}
      BY <2>1
    <2> QED BY <1>1, <1>2, <1>3, <2>1, <2>2 DEF RoundsInv, InRounds, InOrder
  <1>5. CASE ScanCore
    <2> DEFINE q == <<node, llc_index, k>>
    <2>1. /\ UNCHANGED <<lvl, llc_index, node, groups, levels>> /\ k' = k + 1 /\ pc = "scan"
          /\ Belongs(q) => cores_in_group' = Append(cores_in_group, q)
          /\ ~Belongs(q) => cores_in_group' = cores_in_group
          /\ k <= Len(CoresHere) /\ node \in DOMAIN Nodes
      BY <1>5 DEF ScanCore, TypeOK
    <2>2. q \in Places
      BY <1>0, <2>1, ScannedPlace
    <2>3. /\ IsFiniteSet(Passing) /\ Len(cores_in_group) = Cardinality(Passing)
          /\ InRounds(cores_in_group) /\ InOrder(groups)
      BY <2>1 DEF RoundsInv
    <2>4. InOrder(groups)'
      BY <1>0, <2>1, <2>3 DEF InOrder, InRounds, LlcBefore
    <2>5. CASE Belongs(q)
      <3>1. q \in Usable /\ PerfLevel(q) = lvl
        <4>1. q \in CorePlaces
          BY <2>2 DEF Places, CorePlaces
        <4> QED BY <2>5, <4>1 DEF Belongs, Usable
      <3>2. q \notin Passing /\ Passing' = Passing \cup {q}
        <4>1. q[1] = node /\ q[2] = llc_index /\ q[3] = k
          OBVIOUS
        <4> HIDE DEF q
        <4>2. \A p \in Usable : p[1] = node /\ p[2] = llc_index /\ p[3] = k => p = q
          BY <1>0, UsableParts DEF q
        <4>3. \A p \in Usable : p[3] \in Nat
          BY <1>0, UsableParts
        <4> QED BY <1>0, <2>1, <3>1, <4>1, <4>2, <4>3 DEF Passing
      <3>3. Ahead(q) = Passing
        BY <3>1 DEF Ahead, Passing
      <3>4. IsFiniteSet(Passing') /\ Cardinality(Passing') = Cardinality(Passing) + 1
        BY <2>3, <3>2, FS_AddElement
      <3> HIDE DEF q
      <3>5. /\ cores_in_group' = Append(cores_in_group, q)
            /\ Len(cores_in_group) \in Nat /\ DOMAIN cores_in_group = 1..Len(cores_in_group)
            /\ DOMAIN cores_in_group' = 1..(Len(cores_in_group) + 1)
            /\ Len(cores_in_group') = Len(cores_in_group) + 1
            /\ \A a \in 1..Len(cores_in_group) : cores_in_group'[a] = cores_in_group[a]
            /\ cores_in_group'[Len(cores_in_group) + 1] = q
        <4>1. /\ cores_in_group' = Append(cores_in_group, q) /\ cores_in_group \in Seq(Places)
              /\ q \in Places
          BY <1>0, <2>1, <2>2, <2>5
        <4>2. Len(Append(cores_in_group, q)) = Len(cores_in_group) + 1
          BY ONLY <4>1
        <4> QED BY <4>1, <4>2, AppendParts
      <3>6. InRounds(cores_in_group)'
        <4> SUFFICES ASSUME NEW a \in DOMAIN cores_in_group'
                     PROVE  Cardinality(Ahead(cores_in_group'[a])) = a - 1
          BY <1>0 DEF InRounds
        <4>1. CASE a \in 1..Len(cores_in_group)
          BY <2>3, <3>5, <4>1 DEF InRounds
        <4>2. CASE a = Len(cores_in_group) + 1
          BY <2>3, <3>3, <3>5, <4>2
        <4> QED BY <3>5, <4>1, <4>2
      <3> QED BY <1>3, <2>1, <2>3, <2>4, <3>4, <3>5, <3>6 DEF RoundsInv
    <2>6. CASE ~Belongs(q)
      <3>1. Passing' = Passing
        <4>1. \A p \in Usable : p[3] \in Nat /\ NumThreads(p) > 0
          BY <1>0, UsableParts DEF Usable
        <4>2. \A p \in Usable : p[1] = node /\ p[2] = llc_index /\ p[3] = k => p = q
          BY <1>0, UsableParts
        <4> HIDE DEF q
        <4> QED BY <1>0, <2>1, <2>6, <4>1, <4>2 DEF Passing, Belongs
      <3> HIDE DEF q
      <3>2. InRounds(cores_in_group)'
        BY <1>0, <2>1, <2>3, <2>6 DEF InRounds
      <3> QED BY <1>3, <2>1, <2>3, <2>4, <2>6, <3>1, <3>2 DEF RoundsInv
    <2> QED BY <2>5, <2>6
  <1>6. CASE CloseGroup
    <2>1. /\ pc = "scan" /\ k' = 1 /\ cores_in_group' = <<>> /\ levels' = levels
          /\ groups' = Kept(groups, cores_in_group)
      BY <1>6 DEF CloseGroup
    <2>2. \A x \in DOMAIN groups : \A a \in DOMAIN groups[x], b \in DOMAIN cores_in_group :
            LlcBefore(groups[x][a], cores_in_group[b])
      BY <2>1 DEF ScanInv, LlcBefore
    <2>3. InOrder(Kept(groups, cores_in_group))
      BY <1>0, <2>1, <2>2, KeptInOrder DEF RoundsInv
    <2>4. InOrder(groups)'
      BY <1>0, <2>1, <2>3 DEF InOrder, InRounds, LlcBefore
    <2>5. Len(cores_in_group') = 0 /\ DOMAIN cores_in_group' = {}
      BY <2>1
    <2> QED BY <1>1, <1>2, <1>3, <2>1, <2>4, <2>5 DEF RoundsInv, InRounds
  <1>7. CASE GroupsBuilt
    <2>1. pc = "scan" /\ pc' # "scan" /\ levels' = Append(levels, groups)
      BY <1>7 DEF GroupsBuilt, StartInterleave
    <2>2. /\ DOMAIN levels = 1..Len(levels) /\ Len(levels) \in Nat
          /\ DOMAIN levels' = 1..(Len(levels) + 1)
          /\ \A v \in 1..Len(levels) : levels'[v] = levels[v]
          /\ levels'[Len(levels) + 1] = groups
      BY <1>0, <2>1, AppendParts
    <2>3. \A v \in DOMAIN levels' : InOrder(levels'[v])
      BY <2>1, <2>2 DEF RoundsInv
    <2>4. \A v \in DOMAIN levels' : InOrder(levels[v])'
      BY <1>0, <2>3 DEF InOrder, InRounds, LlcBefore
    <2> QED BY <2>1, <2>4 DEF RoundsInv
  <1>8. CASE Emitted
    <2>1. pc' # "scan" /\ (levels' = levels \/ levels' = <<>>)
      BY <1>8 DEF Emitted
    <2>2. levels' = <<>> => DOMAIN levels' = {}
      OBVIOUS
    <2> QED BY <1>3, <2>1, <2>2 DEF RoundsInv
  <1>9. CASE UNCHANGED vars
    <2>1. UNCHANGED <<pc, lvl, llc_index, node, k, cores_in_group, groups, levels>>
      BY <1>9 DEF vars, scanVars
    <2>2. Passing' = Passing
      BY <1>0, <2>1 DEF Passing
    <2>3. InOrder(groups) => InOrder(groups)'
      BY <1>0, <2>1 DEF InOrder, InRounds, LlcBefore
    <2>4. InRounds(cores_in_group) => InRounds(cores_in_group)'
      BY <1>0, <2>1 DEF InRounds
    <2> QED BY <1>3, <2>1, <2>2, <2>3, <2>4 DEF RoundsInv
  <1>10. ASSUME Begin \/ LevelsDone \/ Deal \/ NextRound \/ LevelDealt \/ Interleaved
                \/ AddThread \/ NextList \/ Terminating
         PROVE  RoundsInv'
    <2>1. levels' = levels /\ pc' # "scan"
      BY <1>10 DEF Begin, LevelsDone, StartInterleave, Deal, NextRound, LevelDealt,
         Interleaved, AddThread, NextList, Terminating, vars
    <2> QED BY <1>3, <2>1 DEF RoundsInv
  <1> QED BY <1>4, <1>5, <1>6, <1>7, <1>8, <1>9, <1>10 DEF Next

\* A core dealt earlier comes before one dealt later.
LEMMA PassedBefore ==
  ASSUME TypeOK, LevelsInv, RoundsInv,
         level \in DOMAIN levels, g \in DOMAIN levels[level],
         i \in DOMAIN levels[level][g],
         NEW v \in DOMAIN levels, NEW x \in DOMAIN levels[v],
         NEW a \in DOMAIN levels[v][x], Passed(v, x, a)
  PROVE  DealtBefore(levels[v][x][a], levels[level][g][i])
  <1> DEFINE p == levels[v][x][a]
             q == levels[level][g][i]
  <1>1. /\ v \in Nat /\ x \in Nat /\ a \in Nat /\ Len(levels) \in Nat /\ lvl \in Nat
        /\ level \in Nat /\ g \in Nat /\ i \in Nat
        /\ p \in Places /\ q \in Places
    <2>1. levels \in Seq(Seq(Seq(Places)))
      BY DEF TypeOK
    <2>2. levels[v] \in Seq(Seq(Places)) /\ levels[level] \in Seq(Seq(Places))
      BY ONLY <2>1, v \in DOMAIN levels, level \in DOMAIN levels, SeqElement
    <2>3. levels[v][x] \in Seq(Places) /\ levels[level][g] \in Seq(Places)
      BY ONLY <2>2, x \in DOMAIN levels[v], g \in DOMAIN levels[level], SeqElement
    <2>4. p \in Places /\ q \in Places
      BY ONLY <2>3, a \in DOMAIN levels[v][x], i \in DOMAIN levels[level][g], SeqElement
    <2>5. v \in Nat /\ x \in Nat /\ a \in Nat /\ Len(levels) \in Nat
      BY ONLY <2>1, <2>2, <2>3, v \in DOMAIN levels, x \in DOMAIN levels[v],
              a \in DOMAIN levels[v][x], SeqIndex
    <2> QED BY <2>4, <2>5 DEF TypeOK
  <1>2. /\ PerfLevel(p) + Len(levels) + 1 = lvl + v
        /\ PerfLevel(q) + Len(levels) + 1 = lvl + level
    BY DEF LevelsInv
  <1>3. PerfLevel(p) \in Nat /\ PerfLevel(q) \in Nat
    BY <1>1, PlaceParts DEF TypeOK
  <1>4. InOrder(levels[v]) /\ InOrder(levels[level])
    BY DEF RoundsInv
  <1>5. Cardinality(Ahead(p)) = a - 1 /\ Cardinality(Ahead(q)) = i - 1
    BY <1>4 DEF InOrder, InRounds
  <1>6. v = level /\ x < g => LlcBefore(p, q)
    BY <1>4 DEF InOrder
  <1> HIDE DEF p, q
  <1>9. (v < level => PerfLevel(p) < PerfLevel(q)) /\ (v = level => PerfLevel(p) = PerfLevel(q))
    <2> DEFINE u == PerfLevel(p)
               w == PerfLevel(q)
               n == Len(levels)
    <2>1. /\ u \in Nat /\ w \in Nat /\ n \in Nat /\ v \in Nat /\ level \in Nat /\ lvl \in Nat
          /\ u + n + 1 = lvl + v /\ w + n + 1 = lvl + level
      BY <1>1, <1>2, <1>3
    <2> HIDE DEF u, w, n
    <2>2. (v < level => u < w) /\ (v = level => u = w)
      BY ONLY <2>1
    <2> QED BY <2>2 DEF u, w
  <1>7. CASE v < level
    <2>1. PerfLevel(p) < PerfLevel(q)
      BY <1>7, <1>9
    <2> QED BY <2>1 DEF DealtBefore, p, q
  <1>8. CASE v = level /\ (a < i \/ (a = i /\ x < g))
    <2>1. PerfLevel(p) = PerfLevel(q)
      BY <1>8, <1>9
    <2>2. \/ Cardinality(Ahead(p)) < Cardinality(Ahead(q))
          \/ Cardinality(Ahead(p)) = Cardinality(Ahead(q)) /\ LlcBefore(p, q)
      BY <1>1, <1>5, <1>6, <1>8
    <2> QED BY <2>1, <2>2 DEF DealtBefore, p, q
  <1> QED BY <1>7, <1>8 DEF Passed

\* Interleaving deals to the ends of the lists, so these stay sorted.
LEMMA SortedStep ==
  TypeOK /\ LevelsInv /\ ListsInv /\ RoundsInv /\ SortedInv /\ [Next]_vars => SortedInv'
  <1> SUFFICES ASSUME TypeOK, LevelsInv, ListsInv, RoundsInv, SortedInv, [Next]_vars,
                      pc' \in {"interleave", "emit"}
               PROVE  SortedInv'
    BY DEF SortedInv
  <1>0. \A p, q : DealtBefore(p, q)' <=> DealtBefore(p, q)
    <2>1. \A p : PerfLevel(p)' = PerfLevel(p) /\ Ahead(p)' = Ahead(p)
      BY InputsKept, UsableKept, AheadKept
    <2> QED BY ONLY <2>1 DEF DealtBefore, LlcBefore
  <1> SUFFICES \A r \in DOMAIN thread_lists' : \A b, c \in DOMAIN thread_lists'[r] :
                 b < c => DealtBefore(thread_lists'[r][b][1], thread_lists'[r][c][1])
    BY <1>0 DEF SortedInv
  <1>1. CASE StartInterleave
    <2>1. \A r \in DOMAIN thread_lists' : thread_lists'[r] = <<>>
      BY <1>1 DEF StartInterleave, EmptyLists
    <2> QED BY <2>1
  <1>2. CASE thread_lists' = thread_lists /\ pc \in {"interleave", "emit"}
    BY <1>2 DEF SortedInv
  <1>3. CASE Deal
    <2>1. /\ pc = "interleave" /\ levels \in Seq(Seq(Seq(Places)))
          /\ level \in Nat \ {0} /\ g \in Nat \ {0} /\ i \in Nat \ {0}
          /\ level <= Len(levels) /\ g <= Len(levels[level])
      BY <1>3 DEF Deal, TypeOK
    <2>2. level \in DOMAIN levels /\ levels[level] \in Seq(Seq(Places))
      BY ONLY <2>1, SeqElement
    <2>3. g \in DOMAIN levels[level] /\ levels[level][g] \in Seq(Places)
      BY ONLY <2>1, <2>2, SeqElement
    <2>4. CASE i <= Len(levels[level][g])
      <3>1. i \in DOMAIN levels[level][g]
        BY ONLY <2>1, <2>3, <2>4
      <3> DEFINE q == levels[level][g][i]
      <3>2. thread_lists' = Dealt(q)
        BY <1>3, <2>4 DEF Deal
      <3>3. \A r \in DOMAIN thread_lists : \A b \in DOMAIN thread_lists[r] :
              DealtBefore(thread_lists[r][b][1], q)
        <4> SUFFICES ASSUME NEW r \in DOMAIN thread_lists, NEW b \in DOMAIN thread_lists[r]
                     PROVE  DealtBefore(thread_lists[r][b][1], q)
          OBVIOUS
        <4>1. PICK v \in DOMAIN levels : \E x \in DOMAIN levels[v] :
                \E a \in DOMAIN levels[v][x] :
                  levels[v][x][a] = thread_lists[r][b][1] /\ Passed(v, x, a)
          BY <2>1 DEF ListsInv
        <4>2. PICK x \in DOMAIN levels[v] : \E a \in DOMAIN levels[v][x] :
                levels[v][x][a] = thread_lists[r][b][1] /\ Passed(v, x, a)
          BY <4>1
        <4>3. PICK a \in DOMAIN levels[v][x] :
                levels[v][x][a] = thread_lists[r][b][1] /\ Passed(v, x, a)
          BY <4>2
        <4>4. DealtBefore(levels[v][x][a], levels[level][g][i])
          BY <2>2, <2>3, <3>1, <4>3, PassedBefore
        <4> QED BY <4>3, <4>4
      <3> HIDE DEF q
      <3> SUFFICES ASSUME NEW r \in DOMAIN thread_lists', NEW b \in DOMAIN thread_lists'[r],
                          NEW c \in DOMAIN thread_lists'[r], b < c
                   PROVE  DealtBefore(thread_lists'[r][b][1], thread_lists'[r][c][1])
        OBVIOUS
      <3>4. r \in DOMAIN thread_lists /\ thread_lists[r] \in Seq(Processors)
        BY <3>2, SeqElement DEF Dealt, TypeOK
      <3>5. \A y, z \in DOMAIN thread_lists[r] :
              y < z => DealtBefore(thread_lists[r][y][1], thread_lists[r][z][1])
        BY <2>1, <3>4 DEF SortedInv
      <3>6. CASE thread_lists'[r] = thread_lists[r]
        BY <3>5, <3>6
      <3>7. CASE thread_lists'[r] = Append(thread_lists[r], <<q, r>>)
        <4> DEFINE s == thread_lists[r]
                   w == Append(s, <<q, r>>)
        <4>1. /\ DOMAIN s = 1..Len(s) /\ Len(s) \in Nat /\ DOMAIN w = 1..(Len(s) + 1)
              /\ \A y \in 1..Len(s) : w[y] = s[y]
              /\ w[Len(s) + 1] = <<q, r>>
          BY <3>4, AppendParts
        <4>2. b \in 1..(Len(s) + 1) /\ c \in 1..(Len(s) + 1) /\ b < c
          BY <3>7, <4>1
        <4>3. b \in DOMAIN s /\ w[b] = s[b]
          BY <4>1, <4>2
        <4>4. CASE c \in DOMAIN s
          <5>1. w[c] = s[c]
            BY <4>1, <4>4
          <5> QED BY <3>5, <3>7, <4>2, <4>3, <4>4, <5>1
        <4>5. CASE c = Len(s) + 1
          <5>1. w[c][1] = q
            BY <4>1, <4>5
          <5> QED BY <3>3, <3>4, <3>7, <4>3, <5>1
        <4> QED BY <4>1, <4>2, <4>4, <4>5
      <3> QED BY <3>2, <3>4, <3>6, <3>7 DEF Dealt
    <2>5. CASE ~(i <= Len(levels[level][g]))
      BY <1>2, <1>3, <2>1, <2>5 DEF Deal
    <2> QED BY <2>4, <2>5
  <1> QED
    BY <1>1, <1>2, <1>3 DEF Next, vars, interVars, Begin, OpenLevel, ScanCore, CloseGroup,
       GroupsBuilt, LevelsDone, NextRound, LevelDealt, Interleaved, AddThread,
       NextList, Emitted, Terminating

LEMMA BoundStep == TypeOK /\ BoundInv /\ [Next]_vars => BoundInv'
  <1> SUFFICES ASSUME TypeOK, BoundInv, [Next]_vars PROVE BoundInv'
    OBVIOUS
  <1>1. lvl \in Nat /\ tree.perf_level_count \in Nat /\ tree' = tree
    BY TreeParts, InputsKept, UsableKept DEF TypeOK
  <1> QED
    BY <1>1 DEF BoundInv, Next, vars, Begin, OpenLevel, ScanCore, CloseGroup,
       GroupsBuilt, LevelsDone, StartInterleave, Deal, NextRound, LevelDealt,
       Interleaved, AddThread, NextList, Emitted, Terminating

\* Groups and lists are in the policy's order in every reachable state.
THEOREM OrderInvariant == Spec => []OrderInv
  <1>1. Init => OrderInv
    <2> SUFFICES ASSUME Init PROVE OrderInv
      OBVIOUS
    <2>1. tree.perf_level_count \in Nat
      BY TreesAssumption, TreeParts DEF Init
    <2> QED BY <2>1 DEF Init, OrderInv, RoundsInv, SortedInv, BoundInv
  <1>2. TypeOK /\ OnceInv /\ OrderInv /\ [Next]_vars => OrderInv'
    BY RoundsStep, SortedStep, BoundStep DEF OrderInv, OnceInv
  <1> QED BY <1>1, <1>2, TypeCorrect, OnceInvariant, PTL DEF Spec

\* Every place enumerated can be followed.
LEMMA CorePlaceParts ==
  ASSUME tree \in Topology, NEW q \in CorePlaces
  PROVE  q \in Places /\ CoreAt(q).threads \in Seq(LogicalProcessor)
  <1>1. PICK n \in DOMAIN Nodes : \E l \in DOMAIN Nodes[n] :
          \E c \in DOMAIN Nodes[n][l] : q = <<n, l, c>>
    BY DEF CorePlaces
  <1>2. PICK l \in DOMAIN Nodes[n] : \E c \in DOMAIN Nodes[n][l] : q = <<n, l, c>>
    BY <1>1
  <1>3. PICK c \in DOMAIN Nodes[n][l] : q = <<n, l, c>>
    BY <1>2
  <1>4. Nodes \in Seq(NumaNode) /\ Nodes[n] \in Seq(Seq(Core)) /\ Nodes[n][l] \in Seq(Core)
    BY TreeParts
  <1>5. n \in Nat /\ l \in Nat /\ c \in Nat
    BY ONLY <1>4, n \in DOMAIN Nodes, l \in DOMAIN Nodes[n],
            c \in DOMAIN Nodes[n][l], SeqIndex
  <1>6. q \in Places
    BY <1>3, <1>5 DEF Places
  <1> QED BY <1>6, PlaceParts DEF Core

\* What MappingPolicy reads of the tree is what the loops read.
LEMMA PolicyReads ==
  ASSUME tree \in Topology
  PROVE  /\ Policy!CorePlaces = CorePlaces
         /\ \A p : Policy!LevelOf(p) = PerfLevel(p)
         /\ \A p : Policy!ThreadsOf(p) = CoreAt(p).threads
         /\ \A p : Policy!Round(p) = Cardinality(Ahead(p))
  <1>1. Policy!CorePlaces = CorePlaces
    BY DEF Policy!CorePlaces, Policy!CoresOf, CorePlaces, Nodes
  <1>2. \A p : Policy!LevelOf(p) = PerfLevel(p)
    BY DEF Policy!LevelOf, Policy!CoresOf, PerfLevel, CoreAt, Nodes
  <1>3. \A p : Policy!ThreadsOf(p) = CoreAt(p).threads
    BY DEF Policy!ThreadsOf, Policy!CoresOf, CoreAt, Nodes
  <1>4. \A q \in CorePlaces : Policy!ThreadsOf(q) # <<>> <=> NumThreads(q) > 0
    BY <1>3, CorePlaceParts DEF NumThreads
  <1>5. ASSUME NEW p PROVE Policy!Round(p) = Cardinality(Ahead(p))
    <2>1. {q \in Policy!CorePlaces :
              /\ q[1] = p[1] /\ q[2] = p[2] /\ q[3] < p[3]
              /\ Policy!LevelOf(q) = Policy!LevelOf(p) /\ Policy!ThreadsOf(q) # <<>>}
            = Ahead(p)
      BY <1>1, <1>2, <1>4 DEF Ahead, Usable
    <2>2. Policy!Cardinality(Ahead(p)) = Cardinality(Ahead(p))
      BY DEF Policy!Cardinality, Cardinality, Policy!IsFiniteSet, IsFiniteSet
    <2> QED BY <2>1, <2>2 DEF Policy!Round
  <1> QED BY <1>1, <1>2, <1>3, <1>5

\* The processors of the policy are those of the cores that can be used.
LEMMA PolicyProcessor ==
  ASSUME tree \in Topology, NEW th
  PROVE  th \in Policy!Processors <=>
           \E p \in Usable : \E r \in 1..NumThreads(p) :
             th = <<p, r>> /\ PerfLevel(p) < tree.perf_level_count
  <1>2. \A p \in CorePlaces : /\ DOMAIN CoreAt(p).threads = 1..NumThreads(p)
                              /\ NumThreads(p) \in Nat
    BY CorePlaceParts DEF NumThreads
  <1>3. th \in Policy!Processors <=>
          \E p \in CorePlaces : \E r \in 1..NumThreads(p) :
            th = <<p, r>> /\ PerfLevel(p) < tree.perf_level_count
    BY <1>2, PolicyReads DEF Policy!Processors
  <1> QED BY <1>2, <1>3 DEF Usable

\* The order of processors, as a tuple of numbers.
LEMMA Joined ==
  ASSUME NEW a, NEW b, NEW c, NEW d, NEW e
  PROVE  <<a, b>> \o <<c, d, e>> = <<a, b, c, d, e>>
  <1> DEFINE S == {a, b, c, d, e}
  <1>1. <<a, b>> \in Seq(S) /\ <<c, d, e>> \in Seq(S)
    OBVIOUS
  <1>2. Len(<<a, b>>) = 2 /\ Len(<<c, d, e>>) = 3
    OBVIOUS
  <1> DEFINE s == <<a, b>> \o <<c, d, e>>
  <1>3. /\ s \in Seq(S) /\ Len(s) = 5
        /\ \A n \in 1..5 : s[n] = IF n <= 2 THEN <<a, b>>[n] ELSE <<c, d, e>>[n - 2]
    BY <1>1, <1>2, ConcatProperties
  <1> HIDE DEF s
  <1>4. s[1] = a /\ s[2] = b /\ s[3] = c /\ s[4] = d /\ s[5] = e
    BY <1>3
  <1>5. s = <<s[1], s[2], s[3], s[4], s[5]>>
    BY <1>3
  <1> QED BY <1>4, <1>5 DEF s

LEMMA PolicyKey ==
  ASSUME tree \in Topology, NEW p, NEW r
  PROVE  Policy!Key(<<p, r>>) =
           IF policy = "numa"
           THEN <<r, PerfLevel(p), Cardinality(Ahead(p)), p[2], p[1]>>
           ELSE <<PerfLevel(p), r, Cardinality(Ahead(p)), p[2], p[1]>>
  <1> DEFINE th == <<p, r>>
             c == Cardinality(Ahead(p))
  <1>1. th[1] = p /\ th[2] = r /\ Policy!Round(p) = c /\ Policy!LevelOf(p) = PerfLevel(p)
    BY PolicyReads
  <1>2. /\ <<r, PerfLevel(p)>> \o <<c, p[2], p[1]>> = <<r, PerfLevel(p), c, p[2], p[1]>>
        /\ <<PerfLevel(p), r>> \o <<c, p[2], p[1]>> = <<PerfLevel(p), r, c, p[2], p[1]>>
    BY Joined
  <1> HIDE DEF th, c
  <1>3. Policy!Key(th) = IF policy = "numa"
                         THEN <<r, PerfLevel(p)>> \o <<c, p[2], p[1]>>
                         ELSE <<PerfLevel(p), r>> \o <<c, p[2], p[1]>>
    BY <1>1 DEF Policy!Key
  <1> QED BY <1>2, <1>3 DEF th, c

\* Tuples are ordered by their first elements that differ.
LEMMA Lexicographic ==
  ASSUME NEW a1, NEW a2, NEW a3, NEW a4, NEW a5,
         NEW b1, NEW b2, NEW b3, NEW b4, NEW b5,
         \/ a1 < b1
         \/ a1 = b1 /\ a2 < b2
         \/ a1 = b1 /\ a2 = b2 /\ a3 < b3
         \/ a1 = b1 /\ a2 = b2 /\ a3 = b3 /\ a4 < b4
         \/ a1 = b1 /\ a2 = b2 /\ a3 = b3 /\ a4 = b4 /\ a5 < b5
  PROVE  Policy!Precedes(<<a1, a2, a3, a4, a5>>, <<b1, b2, b3, b4, b5>>)
  <1> DEFINE a == <<a1, a2, a3, a4, a5>>
             b == <<b1, b2, b3, b4, b5>>
  <1>1. /\ 1 \in DOMAIN a /\ 2 \in DOMAIN a /\ 3 \in DOMAIN a /\ 4 \in DOMAIN a /\ 5 \in DOMAIN a
        /\ a[1] = a1 /\ a[2] = a2 /\ a[3] = a3 /\ a[4] = a4 /\ a[5] = a5
        /\ b[1] = b1 /\ b[2] = b2 /\ b[3] = b3 /\ b[4] = b4 /\ b[5] = b5
    OBVIOUS
  <1> HIDE DEF a, b
  <1>2. /\ \A y \in 1..(1 - 1) : FALSE
        /\ \A y \in 1..(2 - 1) : y = 1
        /\ \A y \in 1..(3 - 1) : y = 1 \/ y = 2
        /\ \A y \in 1..(4 - 1) : y = 1 \/ y = 2 \/ y = 3
        /\ \A y \in 1..(5 - 1) : y = 1 \/ y = 2 \/ y = 3 \/ y = 4
    OBVIOUS
  <1>3. \E x \in DOMAIN a : a[x] < b[x] /\ \A y \in 1..(x - 1) : a[y] = b[y]
    <2>1. CASE a1 < b1
      BY <1>1, <1>2, <2>1
    <2>2. CASE a1 = b1 /\ a2 < b2
      BY <1>1, <1>2, <2>2
    <2>3. CASE a1 = b1 /\ a2 = b2 /\ a3 < b3
      BY <1>1, <1>2, <2>3
    <2>4. CASE a1 = b1 /\ a2 = b2 /\ a3 = b3 /\ a4 < b4
      BY <1>1, <1>2, <2>4
    <2>5. CASE a1 = b1 /\ a2 = b2 /\ a3 = b3 /\ a4 = b4 /\ a5 < b5
      BY <1>1, <1>2, <2>5
    <2> QED BY <2>1, <2>2, <2>3, <2>4, <2>5
  <1>4. Policy!Precedes(a, b)
    BY <1>3 DEF Policy!Precedes
  <1> QED BY <1>4 DEF a, b

\* Two processors of one rank and level are in the order of their cores.
LEMMA KeysOrdered ==
  ASSUME tree \in Topology, policy \in Policies, NEW p, NEW q, NEW r, NEW s,
         \/ policy = "numa" /\ (r < s \/ (r = s /\ DealtBefore(p, q)))
         \/ /\ policy = "phte"
            /\ \/ PerfLevel(p) < PerfLevel(q)
               \/ PerfLevel(p) = PerfLevel(q) /\ (r < s \/ (r = s /\ DealtBefore(p, q)))
  PROVE  Policy!Precedes(Policy!Key(<<p, r>>), Policy!Key(<<q, s>>))
  <1> DEFINE c == Cardinality(Ahead(p))
             d == Cardinality(Ahead(q))
             u == PerfLevel(p)
             w == PerfLevel(q)
  <1>1. DealtBefore(p, q) <=>
          \/ u < w
          \/ u = w /\ c < d
          \/ u = w /\ c = d /\ p[2] < q[2]
          \/ u = w /\ c = d /\ p[2] = q[2] /\ p[1] < q[1]
    BY DEF DealtBefore, LlcBefore
  <1>2. CASE policy = "numa"
    <2>1. /\ Policy!Key(<<p, r>>) = <<r, u, c, p[2], p[1]>>
          /\ Policy!Key(<<q, s>>) = <<s, w, d, q[2], q[1]>>
      BY <1>2, PolicyKey
    <2> HIDE DEF c, d, u, w
    <2>2. r < s \/ (r = s /\ DealtBefore(p, q))
      BY <1>2
    <2> QED BY <1>1, <2>1, <2>2, Lexicographic
  <1>3. CASE policy = "phte"
    <2>1. /\ Policy!Key(<<p, r>>) = <<u, r, c, p[2], p[1]>>
          /\ Policy!Key(<<q, s>>) = <<w, s, d, q[2], q[1]>>
      BY <1>3, PolicyKey
    <2>2. \/ u < w
          \/ u = w /\ (r < s \/ (r = s /\ DealtBefore(p, q)))
      BY <1>3
    <2> HIDE DEF c, d, u, w
    <2> QED BY <1>1, <2>1, <2>2, Lexicographic
  <1> QED BY <1>2, <1>3 DEF Policies

\* The processor being copied is one the policy has not used.
LEMMA CopiedUnused ==
  ASSUME TypeOK, OnceInv, OrderInv, pc = "emit",
         t \in DOMAIN thread_lists, j \in DOMAIN thread_lists[t]
  PROVE  /\ thread_lists[t][j] = <<thread_lists[t][j][1], t>>
         /\ thread_lists[t][j][1] \in Usable
         /\ PerfLevel(thread_lists[t][j][1]) < lvl
         /\ policy = "phte" => PerfLevel(thread_lists[t][j][1]) + 1 = lvl
         /\ thread_lists[t][j] \in Policy!Unused
  <1> DEFINE th == thread_lists[t][j]
             p  == th[1]
  <1>1. /\ thread_lists[t] \in Seq(Processors) /\ th \in Processors /\ tree \in Topology
        /\ levels \in Seq(Seq(Seq(Places))) /\ lvl \in Nat /\ j \in Nat /\ t \in Nat
        /\ tree.perf_level_count \in Nat /\ lvl <= tree.perf_level_count
    BY SeqElement, TreeParts DEF TypeOK, OrderInv, BoundInv
  <1>2. th[2] = t
    BY DEF OnceInv, ListsInv
  <1>3. p \in Places /\ th = <<p, t>> /\ t \in 1..NumThreads(p)
    BY <1>1, <1>2 DEF Processors
  <1>4. PerfLevel(p) \in Nat /\ NumThreads(p) \in Nat
    BY <1>1, <1>3, PlaceParts
  <1>5. p \in Usable
    <2>1. p \in CorePlaces
      BY <1>3 DEF Places, CorePlaces
    <2> QED BY <1>3, <1>4, <2>1 DEF Usable
  <1>6. PICK v \in DOMAIN levels : \E x \in DOMAIN levels[v] :
          \E a \in DOMAIN levels[v][x] : levels[v][x][a] = p
    BY DEF OnceInv, ListsInv
  <1>7. /\ PerfLevel(p) + Len(levels) + 1 = lvl + v
        /\ v \in 1..Len(levels) /\ Len(levels) \in Nat
        /\ policy = "phte" => Len(levels) = 1
    <2>1. PerfLevel(p) + Len(levels) + 1 = lvl + v
      BY <1>6 DEF OnceInv, LevelsInv
    <2> QED BY <1>1, <2>1 DEF OnceInv, LevelsInv
  <1>8. PerfLevel(p) < lvl /\ (policy = "phte" => PerfLevel(p) + 1 = lvl)
    <2> DEFINE u == PerfLevel(p)
               n == Len(levels)
    <2>1. /\ u \in Nat /\ n \in Nat /\ lvl \in Nat /\ v \in 1..n /\ u + n + 1 = lvl + v
          /\ policy = "phte" => n = 1
      BY <1>1, <1>4, <1>7
    <2> HIDE DEF u, n
    <2>2. u < lvl /\ (n = 1 => u + 1 = lvl)
      BY ONLY <2>1
    <2> QED BY <2>1, <2>2 DEF u
  <1>9. th \in Policy!Processors
    <2> DEFINE u == PerfLevel(p)
               n == tree.perf_level_count
    <2>1. u < n
      <3>1. u \in Nat /\ n \in Nat /\ lvl \in Nat /\ u < lvl /\ lvl <= n
        BY <1>1, <1>4, <1>8
      <3> HIDE DEF u, n
      <3> QED BY <3>1
    <2> QED BY <1>1, <1>3, <1>5, <2>1, PolicyProcessor
  <1>10. ASSUME NEW x \in DOMAIN result PROVE result[x] # th
    <2>1. CASE policy = "phte" /\ PerfLevel(result[x][1]) + 1 < lvl
      BY <1>4, <1>8, <2>1
    <2>2. CASE result[x][2] < t
      BY <1>1, <1>2, <2>2
    <2>3. CASE result[x][2] = t /\ \E b \in DOMAIN thread_lists[t] :
                                     b < j /\ thread_lists[t][b] = result[x]
      <3>1. NoRepeat(thread_lists[t])
        BY DEF OnceInv, ListsInv
      <3> QED BY <1>1, <2>3, <3>1 DEF NoRepeat
    <2> QED BY <2>1, <2>2, <2>3 DEF OnceInv, ResultInv
  <1> QED BY <1>3, <1>5, <1>8, <1>9, <1>10 DEF Policy!Unused

\* A processor the policy has not used, if it is not the one being copied,
\* comes after it.
LEMMA UnusedLater ==
  ASSUME TypeOK, OnceInv, AllInv, OrderInv, pc = "emit",
         t \in DOMAIN thread_lists, j \in DOMAIN thread_lists[t],
         NEW o \in Policy!Unused, o # thread_lists[t][j]
  PROVE  Policy!Precedes(Policy!Key(thread_lists[t][j]), Policy!Key(o))
  <1> DEFINE p == thread_lists[t][j][1]
  <1>1. /\ thread_lists[t][j] = <<p, t>> /\ p \in Usable /\ PerfLevel(p) < lvl
        /\ policy = "phte" => PerfLevel(p) + 1 = lvl
    BY CopiedUnused
  <1>2. /\ tree \in Topology /\ policy \in Policies /\ lvl \in Nat /\ t \in Nat /\ j \in Nat
        /\ PerfLevel(p) \in Nat
    <2>1. tree \in Topology /\ policy \in Policies /\ lvl \in Nat /\ t \in Nat
          /\ thread_lists[t] \in Seq(Processors)
      BY SeqElement DEF TypeOK
    <2>2. j \in Nat
      BY ONLY <2>1, j \in DOMAIN thread_lists[t], SeqIndex
    <2> QED BY <1>1, <2>1, <2>2, UsableParts
  <1>a. PICK q \in Usable : \E s \in 1..NumThreads(q) :
          o = <<q, s>> /\ PerfLevel(q) < tree.perf_level_count
    BY <1>2, PolicyProcessor DEF Policy!Unused
  <1>3. PICK s \in 1..NumThreads(q) :
          o = <<q, s>> /\ PerfLevel(q) < tree.perf_level_count
    BY <1>a
  <1>4. PerfLevel(q) \in Nat /\ s \in Nat
    BY <1>2, <1>3, UsableParts
  <1>5. ~InList(result, <<q, s>>)
    BY <1>3 DEF Policy!Unused, InList
  <1>6. ASSUME Pending(q)
        PROVE  s > t \/ (s = t /\ DealtBefore(p, q))
    <2>1. s \in DOMAIN thread_lists /\ InList(thread_lists[s], <<q, s>>)
      <3>1. PICK v \in DOMAIN levels : InGroups(levels[v], q)
        BY <1>6 DEF AllInv, WaitingInv
      <3>a. PICK x \in DOMAIN levels[v] : \E a \in DOMAIN levels[v][x] : levels[v][x][a] = q
        BY <3>1 DEF InGroups
      <3>2. PICK a \in DOMAIN levels[v][x] : levels[v][x][a] = q
        BY <3>a
      <3>3. Passed(v, x, a)
        <4>1. level > Len(levels) /\ levels \in Seq(Seq(Seq(Places))) /\ level \in Nat
          BY DEF AllInv, DealtInv, TypeOK
        <4>2. v < level
          BY ONLY <4>1, v \in DOMAIN levels
        <4> QED BY <4>2 DEF Passed
      <3>4. InList(thread_lists[s], <<q, s>>)
        BY <1>3, <3>2, <3>3 DEF AllInv, DealtInv
      <3>5. NumThreads(q) <= max_threads /\ Len(thread_lists) = max_threads
        BY <3>2 DEF AllInv, RanksInv
      <3>6. s \in DOMAIN thread_lists
        <4>1. thread_lists \in Seq(Seq(Processors)) /\ NumThreads(q) \in Nat /\ max_threads \in Nat
          BY <1>2, UsableParts DEF TypeOK
        <4> QED BY ONLY <3>5, <4>1, s \in 1..NumThreads(q)
      <3> QED BY <3>4, <3>6
    <2>2. PICK b \in DOMAIN thread_lists[s] : thread_lists[s][b] = <<q, s>>
      BY <2>1 DEF InList
    <2>3. ~(s < t \/ (s = t /\ b < j))
      BY <1>5, <2>1, <2>2 DEF AllInv, CopiedInv
    <2>4. b \in Nat
      <3>1. thread_lists[s] \in Seq(Processors)
        BY <2>1, SeqElement DEF TypeOK
      <3> QED BY ONLY <3>1, b \in DOMAIN thread_lists[s], SeqIndex
    <2>5. s = t => j < b
      BY <1>2, <1>3, <2>2, <2>3, <2>4
    <2>6. s = t => DealtBefore(p, q)
      <3>1. SUFFICES ASSUME s = t PROVE DealtBefore(p, thread_lists[t][b][1])
        BY <2>2
      <3> QED BY <2>2, <2>5, <3>1 DEF OrderInv, SortedInv
    <2> QED BY <1>2, <1>4, <2>3, <2>6
  <1> HIDE DEF p
  <1>7. CASE policy = "numa"
    <2>1. lvl >= tree.perf_level_count /\ tree.perf_level_count \in Nat
      BY <1>2, <1>7, TreeParts DEF AllInv, WaitingInv
    <2>2. Pending(q)
      BY <1>2, <1>3, <1>4, <1>7, <2>1 DEF Pending
    <2> QED BY <1>1, <1>2, <1>3, <1>4, <1>6, <1>7, <2>2, KeysOrdered
  <1>8. CASE policy = "phte"
    <2>1. CASE PerfLevel(q) + 1 < lvl
      <3>1. Finished(q)
        BY <1>8, <2>1 DEF Finished
      <3> QED BY <1>3, <1>5, <3>1 DEF AllInv, FinishedInv
    <2>2. CASE PerfLevel(q) + 1 = lvl
      <3>1. Pending(q) /\ PerfLevel(p) = PerfLevel(q)
        BY <1>1, <1>2, <1>4, <1>8, <2>2 DEF Pending
      <3> QED BY <1>1, <1>2, <1>3, <1>4, <1>6, <1>8, <3>1, KeysOrdered
    <2>3. CASE PerfLevel(q) >= lvl
      <3>1. PerfLevel(p) < PerfLevel(q)
        BY <1>1, <1>2, <1>4, <2>3
      <3> QED BY <1>1, <1>2, <1>3, <1>8, <3>1, KeysOrdered
    <2> QED BY <1>2, <1>4, <2>1, <2>2, <2>3
  <1> QED BY <1>2, <1>7, <1>8 DEF Policies

\* A step of the loops hands out the next processor of the policy, or none.
LEMMA PolicyStep ==
  TypeOK /\ OnceInv /\ AllInv /\ OrderInv /\ [Next]_vars
    => [Policy!PlaceNext]_(Policy!policy_vars)
  <1> SUFFICES ASSUME TypeOK, OnceInv, AllInv, OrderInv, [Next]_vars
               PROVE  [Policy!PlaceNext]_(Policy!policy_vars)
    OBVIOUS
  <1>1. policy' = policy /\ tree' = tree
    BY InputsKept, UsableKept
  <1>2. CASE AddThread
    <2> DEFINE th == thread_lists[t][j]
    <2>1. /\ pc = "emit" /\ t \in Nat \ {0} /\ j \in Nat \ {0}
          /\ thread_lists \in Seq(Seq(Processors))
          /\ t <= Len(thread_lists) /\ j <= Len(thread_lists[t])
          /\ result' = Append(result, th)
      BY <1>2 DEF AddThread, TypeOK
    <2>2. t \in DOMAIN thread_lists /\ thread_lists[t] \in Seq(Processors)
      BY ONLY <2>1, SeqElement
    <2>3. j \in DOMAIN thread_lists[t]
      BY ONLY <2>1, <2>2
    <2>4. th \in Policy!Unused
      BY <2>1, <2>2, <2>3, CopiedUnused
    <2>5. \A o \in Policy!Unused \ {th} : Policy!Precedes(Policy!Key(th), Policy!Key(o))
      BY <2>1, <2>2, <2>3, UnusedLater
    <2> HIDE DEF th
    <2>6. Policy!PlaceNext
      BY <1>1, <2>1, <2>4, <2>5 DEF Policy!PlaceNext
    <2> QED BY <2>6
  <1>3. CASE ~AddThread
    <2>1. result' = result
      BY <1>3 DEF Next, vars, emitVars, Begin, OpenLevel, ScanCore, CloseGroup,
         GroupsBuilt, LevelsDone, StartInterleave, Deal, NextRound, LevelDealt,
         Interleaved, NextList, Emitted, Terminating
    <2> QED BY <1>1, <2>1 DEF Policy!policy_vars
  <1> QED BY <1>2, <1>3

\* The loops hand out the processors in the order of MappingPolicy, each step
\* the next or none, whatever the topology (the safety of PolicySpec).
THEOREM FollowsPolicy == Spec => Policy!Safety
  <1>1. Init => Policy!Init
    BY DEF Init, Policy!Init
  <1> QED
    BY <1>1, PolicyStep, TypeCorrect, OnceInvariant, AllInvariant, OrderInvariant, PTL
       DEF Spec, Policy!Safety
-----------------------------------------------------------------------------
(* The default number of workers, and the balance between LLCs.            *)

\* Handing out the next processor leaves the rest after all handed out.
LEMMA ClosedStep ==
  TypeOK /\ OnceInv /\ AllInv /\ OrderInv /\ ClosedInv /\ [Next]_vars => ClosedInv'
  <1> SUFFICES ASSUME TypeOK, OnceInv, AllInv, OrderInv, ClosedInv, [Next]_vars
               PROVE  ClosedInv'
    OBVIOUS
  <1>1. policy' = policy /\ tree' = tree
    BY InputsKept, UsableKept
  <1>2. /\ \A th : Policy!Key(th)' = Policy!Key(th)
        /\ Policy!Processors' = Policy!Processors
    BY <1>1 DEF Policy!Key, Policy!Round, Policy!Processors, Policy!CorePlaces,
       Policy!LevelOf, Policy!ThreadsOf, Policy!CoresOf
  <1>3. CASE AddThread
    <2> DEFINE th == thread_lists[t][j]
    <2>1. /\ pc = "emit" /\ t \in Nat \ {0} /\ j \in Nat \ {0}
          /\ thread_lists \in Seq(Seq(Processors)) /\ result \in Seq(Processors)
          /\ t <= Len(thread_lists) /\ j <= Len(thread_lists[t])
          /\ result' = Append(result, th)
      BY <1>3 DEF AddThread, TypeOK
    <2>2. t \in DOMAIN thread_lists /\ thread_lists[t] \in Seq(Processors)
      BY ONLY <2>1, SeqElement
    <2>3. j \in DOMAIN thread_lists[t]
      BY ONLY <2>1, <2>2
    <2>4. \A o \in Policy!Unused \ {th} : Policy!Precedes(Policy!Key(th), Policy!Key(o))
      BY <2>1, <2>2, <2>3, UnusedLater
    <2>5. th \in Processors
      BY ONLY <2>2, <2>3, SeqElement
    <2> HIDE DEF th
    <2>6. /\ DOMAIN result' = DOMAIN result \cup {Len(result) + 1}
          /\ \A x \in DOMAIN result : result'[x] = result[x]
          /\ result'[Len(result) + 1] = th
      BY ONLY <2>1, <2>5, AppendParts
    <2>7. Policy!Unused' = Policy!Unused \ {th}
      BY <1>2, <2>6 DEF Policy!Unused
    <2>8. ASSUME NEW x \in DOMAIN result', NEW o \in Policy!Unused'
          PROVE  Policy!Precedes(Policy!Key(result'[x]), Policy!Key(o))
      <3>1. CASE x \in DOMAIN result
        BY <2>6, <2>7, <2>8, <3>1 DEF ClosedInv
      <3>2. CASE x = Len(result) + 1
        BY <2>4, <2>6, <2>7, <2>8, <3>2
      <3> QED BY <2>6, <3>1, <3>2
    <2> QED BY <1>2, <2>8 DEF ClosedInv, Policy!Precedes
  <1>4. CASE ~AddThread
    <2>1. result' = result
      BY <1>4 DEF Next, vars, emitVars, Begin, OpenLevel, ScanCore, CloseGroup,
         GroupsBuilt, LevelsDone, StartInterleave, Deal, NextRound, LevelDealt,
         Interleaved, NextList, Emitted, Terminating
    <2>2. Policy!Unused' = Policy!Unused
      BY <1>2, <2>1 DEF Policy!Unused
    <2> QED BY <1>2, <2>1, <2>2 DEF ClosedInv, Policy!Precedes
  <1> QED BY <1>3, <1>4

\* While a list is copied, the processors handed out are of its rank or lower.
LEMMA RankStep ==
  TypeOK /\ OnceInv /\ RankInv /\ [Next]_vars => RankInv'
  <1> SUFFICES ASSUME TypeOK, OnceInv, RankInv, [Next]_vars, policy' = "numa",
                      NEW x \in DOMAIN result', NEW y \in DOMAIN result', x < y
               PROVE  result'[x][2] <= result'[y][2]
    BY DEF RankInv
  <1>1. policy = "numa"
    BY InputsKept DEF inputs
  <1>2. CASE AddThread
    <2> DEFINE th == thread_lists[t][j]
    <2>1. /\ pc = "emit" /\ t \in Nat \ {0} /\ j \in Nat \ {0}
          /\ thread_lists \in Seq(Seq(Processors)) /\ result \in Seq(Processors)
          /\ t <= Len(thread_lists) /\ j <= Len(thread_lists[t])
          /\ result' = Append(result, th)
      BY <1>2 DEF AddThread, TypeOK
    <2>2. t \in DOMAIN thread_lists /\ thread_lists[t] \in Seq(Processors)
      BY ONLY <2>1, SeqElement
    <2>3. j \in DOMAIN thread_lists[t]
      BY ONLY <2>1, <2>2
    <2>4. th \in Processors
      BY ONLY <2>2, <2>3, SeqElement
    <2>5. th[2] = t
      BY <2>1, <2>2, <2>3 DEF OnceInv, ListsInv
    <2>6. \A a \in DOMAIN result : result[a][2] < t \/ result[a][2] = t
      BY <1>1, <2>1 DEF OnceInv, ResultInv
    <2>7. \A a \in DOMAIN result : result[a][2] \in Nat
      <3>1. \A a \in DOMAIN result : result[a] \in Processors
        BY ONLY <2>1, SeqElement
      <3> QED BY <3>1 DEF Processors
    <2> HIDE DEF th
    <2>8. /\ DOMAIN result' = DOMAIN result \cup {Len(result) + 1}
          /\ \A a \in DOMAIN result : result'[a] = result[a]
          /\ result'[Len(result) + 1] = th
      BY ONLY <2>1, <2>4, AppendParts
    <2>9. CASE x \in DOMAIN result /\ y \in DOMAIN result
      BY <1>1, <2>8, <2>9 DEF RankInv
    <2>10. CASE x \in DOMAIN result /\ y = Len(result) + 1
      <3>1. result'[x][2] = result[x][2] /\ result'[y][2] = t
        BY ONLY <2>5, <2>8, <2>10
      <3> DEFINE r == result[x][2]
      <3>2. r \in Nat /\ t \in Nat /\ (r < t \/ r = t)
        BY <2>1, <2>6, <2>7, <2>10
      <3> HIDE DEF r
      <3>3. r <= t
        BY ONLY <3>2
      <3> QED BY <3>1, <3>3 DEF r
    <2>11. CASE x = Len(result) + 1
      <3>1. y <= x
        BY ONLY <2>1, <2>8, <2>11, y \in DOMAIN result'
      <3>2. x \in Nat /\ y \in Nat
        BY ONLY <2>1, <2>8, <2>11, y \in DOMAIN result'
      <3> QED BY <3>1, <3>2
    <2> QED BY <2>8, <2>9, <2>10, <2>11
  <1>3. CASE ~AddThread
    <2>1. result' = result
      BY <1>3 DEF Next, vars, emitVars, Begin, OpenLevel, ScanCore, CloseGroup,
         GroupsBuilt, LevelsDone, StartInterleave, Deal, NextRound, LevelDealt,
         Interleaved, NextList, Emitted, Terminating
    <2> QED BY <1>1, <2>1 DEF RankInv
  <1> QED BY <1>2, <1>3

\* The processors handed out come before all others, at every moment, and
\* rank by rank in create_mapping_numa: the inductive invariant.
THEOREM HandedInvariant == Spec => []HandedInv
  <1>1. Init => HandedInv
    BY DEF Init, HandedInv, ClosedInv, RankInv
  <1> QED
    BY <1>1, ClosedStep, RankStep, TypeCorrect, OnceInvariant, AllInvariant,
       OrderInvariant, PTL DEF Spec, HandedInv

\* Induction, in a form without an operator parameter: a set of numbers that
\* is not empty has a least element, so the least counterexample can be taken.
LEMMA LeastNat ==
  ASSUME NEW T, T \subseteq Nat, T # {}
  PROVE  \E n \in T : \A m \in Nat : m < n => m \notin T
  <1>1. PICK n \in T : \A m \in T : ~(<<m, n>> \in OpToRel(<, Nat))
    BY NatLessThanWellFounded, WFMin
  <1>2. \A m \in T : ~(m < n)
    BY <1>1 DEF OpToRel
  <1> QED BY <1>2

\* A set that grows by one finite part after another has as many elements as
\* the parts.
LEMMA PartsCounted ==
  ASSUME NEW N \in Nat, NEW U, NEW P, U[0] = {},
         \A n \in 1..N : /\ IsFiniteSet(P[n]) /\ U[n] = U[n - 1] \cup P[n]
                         /\ U[n - 1] \cap P[n] = {}
  PROVE  \A n \in 0..N :
           /\ IsFiniteSet(U[n]) /\ Cardinality(U[n]) \in Nat
           /\ Cardinality(U[n]) = IF n = 0 THEN 0
                                  ELSE Cardinality(U[n - 1]) + Cardinality(P[n])
  <1> DEFINE T == {n \in Nat : n <= N /\ ~IsFiniteSet(U[n])}
  <1>1. T = {}
    <2> SUFFICES ASSUME T # {} PROVE FALSE
      OBVIOUS
    <2>1. PICK n \in T : \A m \in Nat : m < n => m \notin T
      <3> HIDE DEF T
      <3>1. T \subseteq Nat
        BY DEF T
      <3> QED BY <3>1, LeastNat
    <2>2. n \in 1..N
      BY FS_EmptySet
    <2>3. IsFiniteSet(U[n - 1])
      BY <2>1, <2>2
    <2>4. IsFiniteSet(U[n - 1] \cup P[n])
      BY <2>2, <2>3, FS_Union
    <2> QED BY <2>1, <2>2, <2>4
  <1>2. \A n \in 0..N : IsFiniteSet(U[n]) /\ Cardinality(U[n]) \in Nat
    BY <1>1, FS_CardinalityType
  <1>3. ASSUME NEW n \in 1..N
        PROVE  Cardinality(U[n]) = Cardinality(U[n - 1]) + Cardinality(P[n])
    <2>1. n - 1 \in 0..N /\ IsFiniteSet(P[n]) /\ Cardinality(P[n]) \in Nat
      BY <1>3, FS_CardinalityType
    <2> DEFINE a == U[n - 1]
               b == P[n]
    <2>2. /\ IsFiniteSet(a) /\ Cardinality(a) \in Nat /\ IsFiniteSet(b) /\ Cardinality(b) \in Nat
          /\ U[n] = a \cup b /\ a \cap b = {}
      BY <1>2, <2>1
    <2> HIDE DEF a, b
    <2>3. Cardinality(a \cup b) = Cardinality(a) + Cardinality(b) - Cardinality(a \cap b)
      BY ONLY <2>2, FS_Union
    <2>4. Cardinality(U[n]) = Cardinality(a) + Cardinality(b)
      BY <2>2, <2>3, FS_EmptySet
    <2> QED BY <2>4 DEF a, b
  <1> QED BY <1>2, <1>3, FS_EmptySet

\* Two running sums that grow alike have the same total.
LEMMA TotalsEqual ==
  ASSUME NEW N \in Nat, NEW c, NEW d, c[0] = d[0],
         \A n \in 1..N : c[n - 1] = d[n - 1] => c[n] = d[n]
  PROVE  c[N] = d[N]
  <1> DEFINE T == {n \in Nat : n <= N /\ c[n] # d[n]}
  <1>1. T = {}
    <2> SUFFICES ASSUME T # {} PROVE FALSE
      OBVIOUS
    <2>1. PICK n \in T : \A m \in Nat : m < n => m \notin T
      <3> HIDE DEF T
      <3>1. T \subseteq Nat
        BY DEF T
      <3> QED BY <3>1, LeastNat
    <2>2. n \in 1..N
      OBVIOUS
    <2>3. c[n - 1] = d[n - 1]
      BY <2>1, <2>2
    <2> QED BY <2>1, <2>2, <2>3
  <1> QED BY <1>1

\* The places of the cores of an LLC group, of the first l groups of a node,
\* and of the first n nodes.
LlcPlaces(n, l) == {<<n, l, c>> : c \in DOMAIN Nodes[n][l]}
NodePlaces(n, l) == {p \in CorePlaces : p[1] = n /\ p[2] <= l}
TreePlaces(n) == {p \in CorePlaces : p[1] <= n}

\* An LLC group has as many places as cores.
LEMMA LlcCounted ==
  ASSUME tree \in Topology, NEW n \in DOMAIN Nodes, NEW l \in DOMAIN Nodes[n]
  PROVE  IsFiniteSet(LlcPlaces(n, l)) /\ Cardinality(LlcPlaces(n, l)) = Len(Nodes[n][l])
  <1> DEFINE S == DOMAIN Nodes[n][l]
             f == [c \in S |-> <<n, l, c>>]
  <1>1. S = 1..Len(Nodes[n][l]) /\ Len(Nodes[n][l]) \in Nat
    BY TreeParts
  <1>2. IsFiniteSet(S) /\ Cardinality(S) = Len(Nodes[n][l])
    BY <1>1, FS_Interval
  <1> HIDE DEF S
  <1>3. f \in Bijection(S, LlcPlaces(n, l))
    <2>1. LlcPlaces(n, l) = {<<n, l, c>> : c \in S}
      BY DEF LlcPlaces, S
    <2>2. f \in [S -> LlcPlaces(n, l)] /\ \A a, b \in S : f[a] = f[b] => a = b
      BY <2>1
    <2>3. \A p \in LlcPlaces(n, l) : \E c \in S : f[c] = p
      BY <2>1
    <2> HIDE DEF f
    <2> QED BY <2>2, <2>3 DEF Bijection, Injection, Surjection, IsInjective
  <1>4. ExistsBijection(S, LlcPlaces(n, l))
    BY <1>3 DEF ExistsBijection
  <1> QED BY <1>2, <1>4, FS_Bijection

\* A place is a node, an LLC group of it and a core of that.
LEMMA CorePlaceShape ==
  ASSUME tree \in Topology, NEW p
  PROVE  p \in CorePlaces <=>
           /\ p = <<p[1], p[2], p[3]>> /\ p[1] \in 1..Len(Nodes)
           /\ p[2] \in 1..Len(Nodes[p[1]]) /\ p[3] \in DOMAIN Nodes[p[1]][p[2]]
  <1>1. DOMAIN Nodes = 1..Len(Nodes)
    BY TreeParts
  <1>2. \A n \in DOMAIN Nodes : DOMAIN Nodes[n] = 1..Len(Nodes[n])
    BY TreeParts
  <1>3. p \in CorePlaces <=> \E n \in DOMAIN Nodes : \E l \in DOMAIN Nodes[n] :
                               \E c \in DOMAIN Nodes[n][l] : p = <<n, l, c>>
    BY DEF CorePlaces
  <1> QED BY <1>1, <1>2, <1>3

\* A node has as many places as CoresOfNode counts.
LEMMA NodeCounted ==
  ASSUME tree \in Topology, NEW n \in DOMAIN Nodes
  PROVE  /\ IsFiniteSet(NodePlaces(n, Len(Nodes[n])))
         /\ Cardinality(NodePlaces(n, Len(Nodes[n]))) = CoresOfNode(Nodes[n])
  <1> DEFINE nd == Nodes[n]
             N == Len(nd)
             U == [l \in 0..N |-> NodePlaces(n, l)]
             P == [l \in 1..N |-> LlcPlaces(n, l)]
             D == [l \in 0..N |-> Cardinality(U[l])]
             f == CHOOSE h : h = [l \in 0..N |-> IF l = 0 THEN 0 ELSE h[l - 1] + Len(nd[l])]
  <1>1. N \in Nat /\ DOMAIN nd = 1..N /\ n \in 1..Len(Nodes)
    BY TreeParts
  <1>2. U[0] = {}
    <2>1. \A p \in CorePlaces : p[2] \in 1..Len(Nodes[p[1]])
      BY CorePlaceShape
    <2>2. \A p \in CorePlaces : p[1] = n => ~(p[2] <= 0)
      BY <1>1, <2>1
    <2>3. NodePlaces(n, 0) = {}
      BY <2>2 DEF NodePlaces
    <2> QED BY <1>1, <2>3
  <1>3. ASSUME NEW l \in 1..N
        PROVE  /\ IsFiniteSet(P[l]) /\ Cardinality(P[l]) = Len(nd[l])
               /\ U[l] = U[l - 1] \cup P[l] /\ U[l - 1] \cap P[l] = {}
    <2>1. l \in Nat /\ l - 1 \in 0..N /\ l \in 0..N /\ l \in DOMAIN Nodes[n]
      BY <1>1
    <2>2. P[l] = LlcPlaces(n, l) /\ U[l] = NodePlaces(n, l) /\ U[l - 1] = NodePlaces(n, l - 1)
      BY <2>1
    <2>3. \A p \in CorePlaces : p[1] = n => p[2] \in Nat
      BY <1>1, CorePlaceShape
    <2>4. \A p : p \in LlcPlaces(n, l) <=> p \in CorePlaces /\ p[1] = n /\ p[2] = l
      BY <1>1, <2>1, CorePlaceShape DEF LlcPlaces
    <2>5. NodePlaces(n, l) = NodePlaces(n, l - 1) \cup LlcPlaces(n, l)
      BY <2>1, <2>3, <2>4 DEF NodePlaces
    <2>6. NodePlaces(n, l - 1) \cap LlcPlaces(n, l) = {}
      BY <2>1, <2>3, <2>4 DEF NodePlaces
    <2>7. IsFiniteSet(LlcPlaces(n, l)) /\ Cardinality(LlcPlaces(n, l)) = Len(nd[l])
      BY <2>1, LlcCounted
    <2> QED BY <2>2, <2>5, <2>6, <2>7
  <1>4. CoresOfNode(nd) = f[N]
    BY DEF CoresOfNode
  <1> HIDE DEF nd, N, U, P, f
  <1>5. \A l \in 0..N : /\ IsFiniteSet(U[l])
                        /\ Cardinality(U[l]) = IF l = 0 THEN 0
                             ELSE Cardinality(U[l - 1]) + Cardinality(P[l])
    <2>1. N \in Nat /\ U[0] = {}
      BY <1>1, <1>2
    <2>2. \A l \in 1..N : /\ IsFiniteSet(P[l]) /\ U[l] = U[l - 1] \cup P[l]
                         /\ U[l - 1] \cap P[l] = {}
      BY <1>3
    <2> QED BY ONLY <2>1, <2>2, PartsCounted
  <1>6. \A l \in 0..N : D[l] = IF l = 0 THEN 0 ELSE D[l - 1] + Len(nd[l])
    <2>1. \A l \in 0..N : l = 0 \/ (l \in 1..N /\ l - 1 \in 0..N)
      BY <1>1
    <2> QED BY <1>3, <1>5, <2>1
  <1>7. D = [l \in 0..N |-> IF l = 0 THEN 0 ELSE D[l - 1] + Len(nd[l])]
    BY <1>6
  <1> HIDE DEF D
  <1>8. f = [l \in 0..N |-> IF l = 0 THEN 0 ELSE f[l - 1] + Len(nd[l])]
    BY <1>7 DEF f
  <1>9. f[N] = D[N]
    <2>1. \A l \in 1..N : l \in 0..N /\ l # 0
      BY <1>1
    <2>2. 0 \in 0..N
      BY <1>1
    <2>3. f[0] = D[0]
      BY <1>6, <1>8, <2>2
    <2>4. \A l \in 1..N : f[l - 1] = D[l - 1] => f[l] = D[l]
      BY <1>6, <1>8, <2>1
    <2>5. N \in Nat
      BY <1>1
    <2> QED BY ONLY <2>3, <2>4, <2>5, TotalsEqual
  <1>10. D[N] = Cardinality(U[N]) /\ IsFiniteSet(U[N]) /\ U[N] = NodePlaces(n, N)
    <2>1. N \in 0..N
      BY <1>1
    <2>2. D[N] = Cardinality(U[N])
      BY <2>1 DEF D
    <2>3. U[N] = NodePlaces(n, N)
      BY <2>1 DEF U
    <2> QED BY <1>5, <2>1, <2>2, <2>3
  <1> QED BY <1>4, <1>9, <1>10 DEF N, nd

\* get_default_thread_count counts the cores of the tree.
LEMMA CoresCounted ==
  ASSUME tree \in Topology
  PROVE  IsFiniteSet(CorePlaces) /\ Cardinality(CorePlaces) = DefaultThreadCount(tree)
  <1> DEFINE N == Len(Nodes)
             U == [n \in 0..N |-> TreePlaces(n)]
             P == [n \in 1..N |-> NodePlaces(n, Len(Nodes[n]))]
             D == [n \in 0..N |-> Cardinality(U[n])]
             f == CHOOSE h : h = [n \in 0..N |-> IF n = 0 THEN 0
                                                 ELSE h[n - 1] + CoresOfNode(Nodes[n])]
  <1>1. N \in Nat /\ DOMAIN Nodes = 1..N
    BY TreeParts
  <1>2. U[0] = {} /\ U[N] = CorePlaces
    <2>1. \A p \in CorePlaces : p[1] \in 1..N
      BY CorePlaceShape
    <2>2. \A p \in CorePlaces : ~(p[1] <= 0) /\ p[1] <= N
      BY <1>1, <2>1
    <2>3. TreePlaces(0) = {} /\ TreePlaces(N) = CorePlaces
      BY <2>2 DEF TreePlaces
    <2> QED BY <1>1, <2>3
  <1>3. ASSUME NEW n \in 1..N
        PROVE  /\ IsFiniteSet(P[n]) /\ Cardinality(P[n]) = CoresOfNode(Nodes[n])
               /\ U[n] = U[n - 1] \cup P[n] /\ U[n - 1] \cap P[n] = {}
    <2>1. n \in Nat /\ n - 1 \in 0..N /\ n \in 0..N /\ n \in DOMAIN Nodes
      BY <1>1
    <2>2. /\ P[n] = NodePlaces(n, Len(Nodes[n]))
          /\ U[n] = TreePlaces(n) /\ U[n - 1] = TreePlaces(n - 1)
      BY <2>1
    <2>3. \A p \in CorePlaces : /\ p[1] \in Nat
                                /\ p[1] = n => p[2] <= Len(Nodes[n])
      <3>1. Nodes[n] \in Seq(Seq(Core))
        BY <2>1, TreeParts
      <3>2. \A p \in CorePlaces : p[1] \in 1..N /\ p[2] \in 1..Len(Nodes[p[1]])
        BY CorePlaceShape
      <3>3. ASSUME NEW p \in CorePlaces, p[1] = n PROVE p[2] <= Len(Nodes[n])
        BY <3>1, <3>2, <3>3
      <3> QED BY <1>1, <3>2, <3>3
    <2>4. TreePlaces(n) = TreePlaces(n - 1) \cup P[n]
      BY <2>1, <2>2, <2>3 DEF NodePlaces, TreePlaces
    <2>5. TreePlaces(n - 1) \cap P[n] = {}
      BY <2>1, <2>2, <2>3 DEF NodePlaces, TreePlaces
    <2>6. IsFiniteSet(P[n]) /\ Cardinality(P[n]) = CoresOfNode(Nodes[n])
      BY <2>1, <2>2, NodeCounted
    <2> QED BY <2>2, <2>4, <2>5, <2>6
  <1>4. DefaultThreadCount(tree) = f[N]
    BY DEF DefaultThreadCount, Nodes
  <1> HIDE DEF N, U, P, f
  <1>5. \A n \in 0..N : /\ IsFiniteSet(U[n])
                        /\ Cardinality(U[n]) = IF n = 0 THEN 0
                             ELSE Cardinality(U[n - 1]) + Cardinality(P[n])
    <2>1. N \in Nat /\ U[0] = {}
      BY <1>1, <1>2
    <2>2. \A n \in 1..N : /\ IsFiniteSet(P[n]) /\ U[n] = U[n - 1] \cup P[n]
                         /\ U[n - 1] \cap P[n] = {}
      BY <1>3
    <2> QED BY ONLY <2>1, <2>2, PartsCounted
  <1>6. \A n \in 0..N : D[n] = IF n = 0 THEN 0 ELSE D[n - 1] + CoresOfNode(Nodes[n])
    <2>1. \A n \in 0..N : n = 0 \/ (n \in 1..N /\ n - 1 \in 0..N)
      BY <1>1
    <2> QED BY <1>3, <1>5, <2>1
  <1>7. D = [n \in 0..N |-> IF n = 0 THEN 0 ELSE D[n - 1] + CoresOfNode(Nodes[n])]
    BY <1>6
  <1> HIDE DEF D
  <1>8. f = [n \in 0..N |-> IF n = 0 THEN 0 ELSE f[n - 1] + CoresOfNode(Nodes[n])]
    BY <1>7 DEF f
  <1>9. f[N] = D[N]
    <2>1. \A n \in 1..N : n \in 0..N /\ n # 0
      BY <1>1
    <2>2. 0 \in 0..N
      BY <1>1
    <2>3. f[0] = D[0]
      BY <1>6, <1>8, <2>2
    <2>4. \A n \in 1..N : f[n - 1] = D[n - 1] => f[n] = D[n]
      BY <1>6, <1>8, <2>1
    <2>5. N \in Nat
      BY <1>1
    <2> QED BY ONLY <2>3, <2>4, <2>5, TotalsEqual
  <1>10. D[N] = Cardinality(U[N]) /\ IsFiniteSet(U[N])
    BY <1>1, <1>5 DEF D
  <1> QED BY <1>2, <1>4, <1>9, <1>10

\* What has been handed out is processors of cores that can be used.
LEMMA HandedOut ==
  ASSUME TypeOK
  PROVE  /\ DOMAIN result = 1..Len(result) /\ Len(result) \in Nat
         /\ \A x \in DOMAIN result :
              /\ result[x] = <<result[x][1], result[x][2]>> /\ result[x][1] \in Usable
              /\ result[x][2] \in 1..NumThreads(result[x][1])
              /\ NumThreads(result[x][1]) \in Nat
  <1>1. result \in Seq(Processors) /\ tree \in Topology
    BY DEF TypeOK
  <1>2. ASSUME NEW x \in DOMAIN result
        PROVE  /\ result[x] = <<result[x][1], result[x][2]>> /\ result[x][1] \in Usable
               /\ result[x][2] \in 1..NumThreads(result[x][1])
               /\ NumThreads(result[x][1]) \in Nat
    <2> DEFINE p == result[x][1]
    <2>1. result[x] \in Processors
      BY <1>1, SeqElement
    <2>2. p \in Places /\ result[x] = <<p, result[x][2]>> /\ result[x][2] \in 1..NumThreads(p)
      BY <2>1 DEF Processors
    <2>3. NumThreads(p) \in Nat
      BY <1>1, <2>2, PlaceParts
    <2>4. p \in CorePlaces
      BY <2>2 DEF Places, CorePlaces
    <2> QED BY <2>2, <2>3, <2>4 DEF Usable
  <1> QED BY <1>1, <1>2

\* With the default number of workers every worker of the "numa" mapping has
\* a core of its own, on any topology with a usable thread in each core.
LEMMA DefaultFromOrder ==
  TypeOK /\ MappedOnce /\ AllMapped /\ RankInv => DefaultThreadsOnOwnCores
  <1> SUFFICES ASSUME TypeOK, MappedOnce, AllMapped, RankInv,
                      pc = "done", policy = "numa", EveryCoreUsable
               PROVE  /\ DefaultThreadCount(tree) <= Len(result)
                      /\ \A x, y \in 1..DefaultThreadCount(tree) :
                           result[x][1] = result[y][1] => x = y
    BY DEF DefaultThreadsOnOwnCores
  <1> DEFINE N == DefaultThreadCount(tree)
             f == [p \in CorePlaces |-> CHOOSE x \in DOMAIN result : result[x] = <<p, 1>>]
  <1>1. IsFiniteSet(CorePlaces) /\ Cardinality(CorePlaces) = N /\ N \in Nat
    BY CoresCounted, FS_CardinalityType DEF TypeOK
  <1> HIDE DEF N
  <1>2. /\ DOMAIN result = 1..Len(result) /\ Len(result) \in Nat
        /\ \A x \in DOMAIN result : result[x] = <<result[x][1], result[x][2]>>
                                    /\ result[x][2] \in Nat \ {0}
    BY HandedOut
  <1>3. ASSUME NEW p \in CorePlaces
        PROVE  \E x \in DOMAIN result : result[x] = <<p, 1>>
    <2>1. tree \in Topology
      BY DEF TypeOK
    <2>2. PICK n \in DOMAIN Nodes : \E l \in DOMAIN Nodes[n] :
            \E c \in DOMAIN Nodes[n][l] : p = <<n, l, c>>
      BY DEF CorePlaces
    <2>3. PICK l \in DOMAIN Nodes[n] : \E c \in DOMAIN Nodes[n][l] : p = <<n, l, c>>
      BY <2>2
    <2>4. PICK c \in DOMAIN Nodes[n][l] : p = <<n, l, c>>
      BY <2>3
    <2>5. NumThreads(p) > 0 /\ PerfLevel(p) < tree.perf_level_count
      BY <2>4 DEF EveryCoreUsable
    <2>6. NumThreads(p) \in Nat
      BY <2>1, CorePlaceParts, PlaceParts
    <2>7. 1 \in 1..NumThreads(p)
      BY <2>5, <2>6
    <2> QED BY <2>4, <2>5, <2>7 DEF AllMapped
  <1>4. \A p \in CorePlaces : f[p] \in DOMAIN result /\ result[f[p]] = <<p, 1>>
    BY <1>3
  <1>5. ASSUME NEW m \in Nat, \A p \in CorePlaces : f[p] \in 1..m
        PROVE  N <= m
    <2>1. f \in [CorePlaces -> 1..m]
      BY <1>5
    <2> HIDE DEF f
    <2>2. ASSUME NEW p \in CorePlaces, NEW q \in CorePlaces, f[p] = f[q] PROVE p = q
      <3>1. <<p, 1>> = <<q, 1>>
        BY <1>4, <2>2
      <3> QED BY ONLY <3>1
    <2>3. f \in Injection(CorePlaces, 1..m)
      BY <2>1, <2>2 DEF Injection, IsInjective
    <2>4. IsFiniteSet(1..m) /\ Cardinality(1..m) = m
      BY FS_Interval
    <2>5. Cardinality(CorePlaces) <= Cardinality(1..m)
      BY ONLY <2>3, <2>4, FS_Injection
    <2> QED BY <1>1, <2>4, <2>5
  <1> HIDE DEF f
  <1>6. N <= Len(result)
    BY <1>2, <1>4, <1>5
  <1>7. ASSUME NEW x \in 1..N PROVE x \in DOMAIN result /\ result[x] = <<result[x][1], 1>>
    <2>1. x \in DOMAIN result /\ x \in Nat /\ x - 1 \in Nat
      BY <1>1, <1>2, <1>6
    <2>2. result[x][2] = 1
      <3> SUFFICES ASSUME result[x][2] # 1 PROVE FALSE
        OBVIOUS
      <3>1. ASSUME NEW p \in CorePlaces PROVE f[p] \in 1..(x - 1)
        <4> DEFINE y == f[p]
        <4>1. y \in DOMAIN result /\ result[y][2] = 1 /\ y \in 1..Len(result)
          BY <1>2, <1>4
        <4>2. ~(x < y)
          <5>1. SUFFICES ASSUME x < y PROVE FALSE
            OBVIOUS
          <5>2. result[x][2] <= result[y][2] /\ result[x][2] \in Nat \ {0}
            BY <1>2, <2>1, <4>1, <5>1 DEF RankInv
          <5> DEFINE r == result[x][2]
          <5>3. r <= 1 /\ r \in Nat \ {0} /\ r # 1
            BY <4>1, <5>2
          <5> HIDE DEF r
          <5> QED BY ONLY <5>3
        <4>3. x # y
          BY <4>1
        <4> HIDE DEF y
        <4>4. y \in 1..(x - 1)
          BY ONLY <1>2, <2>1, <4>1, <4>2, <4>3
        <4> QED BY <4>4 DEF y
      <3>2. N <= x - 1
        BY <1>5, <2>1, <3>1
      <3> QED BY <1>1, <3>2
    <2> QED BY <1>2, <2>1, <2>2
  <1>8. ASSUME NEW x \in 1..N, NEW y \in 1..N, result[x][1] = result[y][1]
        PROVE  x = y
    BY <1>7, <1>8 DEF MappedOnce
  <1> QED BY <1>6, <1>8 DEF N

\* The default number of workers have a core each, whatever the topology.
THEOREM DefaultWorkersApart == Spec => []DefaultThreadsOnOwnCores
  <1>1. HandedInv => RankInv
    BY DEF HandedInv
  <1> QED
    BY <1>1, DefaultFromOrder, TypeCorrect, NoProcessorTwice, EveryProcessorMapped,
       HandedInvariant, PTL

\* The cores of a level in an LLC group that can be used, and those of them
\* whose first thread has been handed out.
LevelCores(n, l, v) == {p \in Usable : p[1] = n /\ p[2] = l /\ PerfLevel(p) = v}
Started(n, l, v) == {p \in LevelCores(n, l, v) : InList(result, <<p, 1>>)}

LEMMA LevelCoresCounted ==
  ASSUME tree \in Topology, NEW n \in DOMAIN Nodes, NEW l \in DOMAIN Nodes[n], NEW v
  PROVE  /\ IsFiniteSet(LevelCores(n, l, v))
         /\ Cardinality(LevelCores(n, l, v)) = CoresOfLevel(n, l, v)
  <1> DEFINE S == {c \in DOMAIN Nodes[n][l] : /\ PerfLevel(<<n, l, c>>) = v
                                              /\ NumThreads(<<n, l, c>>) > 0}
             f == [c \in S |-> <<n, l, c>>]
  <1>1. IsFiniteSet(S)
    <2>1. DOMAIN Nodes[n][l] = 1..Len(Nodes[n][l]) /\ Len(Nodes[n][l]) \in Nat
      BY TreeParts
    <2>2. IsFiniteSet(1..Len(Nodes[n][l]))
      BY <2>1, FS_Interval
    <2> QED BY <2>1, <2>2, FS_Subset
  <1>2. CoresOfLevel(n, l, v) = Cardinality(S)
    BY DEF CoresOfLevel
  <1>3. \A c \in S : <<n, l, c>> \in LevelCores(n, l, v)
    <2>1. ASSUME NEW c \in S PROVE <<n, l, c>> \in LevelCores(n, l, v)
      <3>1. <<n, l, c>> \in CorePlaces
        BY DEF CorePlaces
      <3> QED BY <3>1 DEF LevelCores, Usable
    <2> QED BY <2>1
  <1>4. ASSUME NEW p \in LevelCores(n, l, v) PROVE \E c \in S : p = <<n, l, c>>
    <2>1. /\ p \in CorePlaces /\ p[1] = n /\ p[2] = l /\ NumThreads(p) > 0 /\ PerfLevel(p) = v
      BY DEF LevelCores, Usable
    <2>2. p = <<n, l, p[3]>> /\ p[3] \in DOMAIN Nodes[n][l]
      BY <2>1, CorePlaceShape
    <2> QED BY <2>1, <2>2
  <1> HIDE DEF S
  <1>5. f \in Bijection(S, LevelCores(n, l, v))
    <2>1. f \in [S -> LevelCores(n, l, v)]
      BY <1>3
    <2>2. \A a, b \in S : f[a] = f[b] => a = b
      OBVIOUS
    <2>3. \A p \in LevelCores(n, l, v) : \E c \in S : f[c] = p
      BY <1>4
    <2> HIDE DEF f
    <2> QED BY <2>1, <2>2, <2>3 DEF Bijection, Injection, Surjection, IsInjective
  <1>6. ExistsBijection(S, LevelCores(n, l, v))
    BY <1>5 DEF ExistsBijection
  <1> QED BY <1>1, <1>2, <1>6, FS_Bijection

\* First threads and the cores they are of are as many.
LEMMA StartedCounted ==
  ASSUME TypeOK, MappedOnce, NEW n, NEW l, NEW v
  PROVE  /\ IsFiniteSet(Started(n, l, v))
         /\ Cardinality(Started(n, l, v)) = FirstThreads(result, n, l, v)
         /\ FirstThreads(result, n, l, v) \in Nat
  <1> DEFINE S == {x \in DOMAIN result : /\ result[x][2] = 1 /\ PerfLevel(result[x][1]) = v
                                         /\ result[x][1][1] = n /\ result[x][1][2] = l}
             f == [x \in S |-> result[x][1]]
  <1>1. /\ DOMAIN result = 1..Len(result) /\ Len(result) \in Nat
        /\ \A x \in DOMAIN result : /\ result[x] = <<result[x][1], result[x][2]>>
                                    /\ result[x][1] \in Usable
    BY HandedOut
  <1>2. IsFiniteSet(S)
    <2>1. IsFiniteSet(1..Len(result))
      BY <1>1, FS_Interval
    <2> QED BY <1>1, <2>1, FS_Subset
  <1>3. FirstThreads(result, n, l, v) = Cardinality(S)
    BY DEF FirstThreads
  <1>4. ASSUME NEW x \in S
        PROVE  result[x][1] \in Started(n, l, v) /\ result[x] = <<result[x][1], 1>>
    <2>1. x \in DOMAIN result /\ result[x] = <<result[x][1], 1>> /\ result[x][1] \in Usable
      BY <1>1
    <2>2. result[x][1] \in LevelCores(n, l, v)
      BY <2>1 DEF LevelCores
    <2> QED BY <2>1, <2>2 DEF Started, InList
  <1>5. ASSUME NEW p \in Started(n, l, v) PROVE \E x \in S : result[x][1] = p
    <2>1. p \in Usable /\ p[1] = n /\ p[2] = l /\ PerfLevel(p) = v
      BY DEF Started, LevelCores
    <2>2. PICK x \in DOMAIN result : result[x] = <<p, 1>>
      BY DEF Started, InList
    <2> QED BY <2>1, <2>2
  <1>6. ASSUME NEW x \in S, NEW y \in S, result[x][1] = result[y][1] PROVE x = y
    <2>1. result[x] = result[y]
      BY <1>4, <1>6
    <2> QED BY <2>1 DEF MappedOnce
  <1> HIDE DEF S
  <1>7. f \in Bijection(S, Started(n, l, v))
    <2>1. f \in [S -> Started(n, l, v)]
      BY <1>4
    <2>2. \A x, y \in S : f[x] = f[y] => x = y
      BY <1>6
    <2>3. \A p \in Started(n, l, v) : \E x \in S : f[x] = p
      BY <1>5
    <2> HIDE DEF f
    <2> QED BY <2>1, <2>2, <2>3 DEF Bijection, Injection, Surjection, IsInjective
  <1>8. ExistsBijection(S, Started(n, l, v))
    BY <1>7 DEF ExistsBijection
  <1> QED BY <1>2, <1>3, <1>8, FS_Bijection, FS_CardinalityType

\* The cores of an LLC and a level are dealt one per round.
LEMMA OneARound ==
  ASSUME tree \in Topology, NEW p \in Usable, NEW q \in Usable,
         p[1] = q[1], p[2] = q[2], PerfLevel(p) = PerfLevel(q), p[3] < q[3]
  PROVE  Cardinality(Ahead(p)) < Cardinality(Ahead(q))
  <1>1. \A r \in Usable : r[3] \in Nat
    BY UsableParts
  <1>2. IsFiniteSet(CorePlaces)
    BY CoresCounted
  <1>3. IsFiniteSet(Ahead(p)) /\ IsFiniteSet(Ahead(q))
    <2>1. Ahead(p) \in SUBSET CorePlaces /\ Ahead(q) \in SUBSET CorePlaces
      BY DEF Ahead, Usable
    <2> QED BY <1>2, <2>1, FS_Subset
  <1>4. Ahead(p) \cup {p} \in SUBSET Ahead(q) /\ p \notin Ahead(p)
    BY <1>1 DEF Ahead
  <1>5. Cardinality(Ahead(p) \cup {p}) = Cardinality(Ahead(p)) + 1
    BY <1>3, <1>4, FS_AddElement
  <1>6. Cardinality(Ahead(p) \cup {p}) <= Cardinality(Ahead(q))
    BY <1>3, <1>4, FS_Subset
  <1>7. Cardinality(Ahead(p)) \in Nat /\ Cardinality(Ahead(q)) \in Nat
    BY <1>3, FS_CardinalityType
  <1> QED BY <1>5, <1>6, <1>7

\* Of two processors alike in rank and level, one that precedes the other is
\* of a core dealt in the same round or before.
LEMMA RoundsOrdered ==
  ASSUME NEW a1 \in Nat, NEW a2 \in Nat, NEW a3 \in Nat, NEW a4, NEW a5,
         NEW b3 \in Nat, NEW b4, NEW b5,
         Policy!Precedes(<<a1, a2, a3, a4, a5>>, <<a1, a2, b3, b4, b5>>)
  PROVE  a3 <= b3
  <1> DEFINE a == <<a1, a2, a3, a4, a5>>
             b == <<a1, a2, b3, b4, b5>>
  <1>1. /\ DOMAIN a = 1..5 /\ a[1] = a1 /\ a[2] = a2 /\ a[3] = a3
        /\ b[1] = a1 /\ b[2] = a2 /\ b[3] = b3
    OBVIOUS
  <1>2. Policy!Precedes(a, b)
    OBVIOUS
  <1> HIDE DEF a, b
  <1>3. PICK x \in 1..5 : a[x] < b[x] /\ \A y \in 1..(x - 1) : a[y] = b[y]
    BY <1>1, <1>2 DEF Policy!Precedes
  <1>4. x # 1 /\ x # 2
    BY <1>1, <1>3
  <1>5. CASE x = 3
    BY <1>1, <1>3, <1>5
  <1>6. CASE x > 3
    <2>1. 3 \in 1..(x - 1)
      BY <1>6
    <2> QED BY <1>1, <1>3, <2>1
  <1> QED BY <1>3, <1>4, <1>5, <1>6

\* A core handed out is of the round of any core left of its level, or of one
\* before.
LEMMA StartedBefore ==
  ASSUME TypeOK, ClosedInv, NEW p \in Usable, NEW q \in Usable,
         PerfLevel(p) = PerfLevel(q), PerfLevel(q) < tree.perf_level_count,
         InList(result, <<p, 1>>), ~InList(result, <<q, 1>>)
  PROVE  Cardinality(Ahead(p)) <= Cardinality(Ahead(q))
  <1>1. tree \in Topology /\ policy \in Policies
    BY DEF TypeOK
  <1>2. PICK x \in DOMAIN result : result[x] = <<p, 1>>
    BY DEF InList
  <1>3. <<q, 1>> \in Policy!Unused
    <2>1. 1 \in 1..NumThreads(q)
      BY <1>1, UsableParts
    <2>2. <<q, 1>> \in Policy!Processors
      BY <1>1, <2>1, PolicyProcessor
    <2> QED BY <2>2 DEF Policy!Unused, InList
  <1>4. Policy!Precedes(Policy!Key(<<p, 1>>), Policy!Key(<<q, 1>>))
    BY <1>2, <1>3 DEF ClosedInv
  <1> DEFINE c == Cardinality(Ahead(p))
             d == Cardinality(Ahead(q))
             u == PerfLevel(p)
  <1>5. c \in Nat /\ d \in Nat /\ u \in Nat
    <2>1. Ahead(p) \in SUBSET CorePlaces /\ Ahead(q) \in SUBSET CorePlaces
      BY DEF Ahead, Usable
    <2>2. IsFiniteSet(CorePlaces)
      BY <1>1, CoresCounted
    <2>3. IsFiniteSet(Ahead(p)) /\ IsFiniteSet(Ahead(q))
      BY <2>1, <2>2, FS_Subset
    <2> QED BY <1>1, <2>3, FS_CardinalityType, UsableParts
  <1>6. CASE policy = "numa"
    <2>1. /\ Policy!Key(<<p, 1>>) = <<1, u, c, p[2], p[1]>>
          /\ Policy!Key(<<q, 1>>) = <<1, u, d, q[2], q[1]>>
      BY <1>1, <1>6, PolicyKey
    <2> HIDE DEF c, d, u
    <2>2. c <= d
      BY <1>4, <1>5, <2>1, RoundsOrdered
    <2> QED BY <2>2 DEF c, d
  <1>7. CASE policy = "phte"
    <2>1. /\ Policy!Key(<<p, 1>>) = <<u, 1, c, p[2], p[1]>>
          /\ Policy!Key(<<q, 1>>) = <<u, 1, d, q[2], q[1]>>
      BY <1>1, <1>7, PolicyKey
    <2> HIDE DEF c, d, u
    <2>2. c <= d
      BY <1>4, <1>5, <2>1, RoundsOrdered
    <2> QED BY <2>2 DEF c, d
  <1> QED BY <1>1, <1>6, <1>7 DEF Policies

\* Cores of one LLC and level dealt up to round d are at most d + 1.
LEMMA AtMostRounds ==
  ASSUME tree \in Topology, NEW n, NEW l, NEW v, NEW S \in SUBSET LevelCores(n, l, v),
         NEW d \in Nat, \A p \in S : Cardinality(Ahead(p)) <= d
  PROVE  Cardinality(S) <= d + 1
  <1> DEFINE f == [p \in S |-> Cardinality(Ahead(p))]
  <1>1. \A p \in S : p \in Usable /\ p[1] = n /\ p[2] = l /\ PerfLevel(p) = v
    BY DEF LevelCores
  <1>2. ASSUME NEW p \in S PROVE f[p] \in 0..d /\ f[p] = Cardinality(Ahead(p))
    <2>1. Ahead(p) \in SUBSET CorePlaces
      BY DEF Ahead, Usable
    <2>2. Cardinality(Ahead(p)) \in Nat
      BY <2>1, CoresCounted, FS_Subset, FS_CardinalityType
    <2> QED BY <2>2
  <1>3. f \in [S -> 0..d]
    BY <1>2
  <1> HIDE DEF f
  <1>4. ASSUME NEW p \in S, NEW q \in S, f[p] = f[q] PROVE p = q
    <2>1. Cardinality(Ahead(p)) = Cardinality(Ahead(q)) /\ f[p] \in 0..d
      BY <1>2, <1>4
    <2>2. ~(p[3] < q[3]) /\ ~(q[3] < p[3])
      <3> DEFINE c == Cardinality(Ahead(p))
                 e == Cardinality(Ahead(q))
      <3>1. c = e /\ c \in 0..d
        BY <1>2, <2>1
      <3>2. p[3] < q[3] => c < e
        BY <1>1, OneARound
      <3>3. q[3] < p[3] => e < c
        BY <1>1, OneARound
      <3> HIDE DEF c, e
      <3> QED BY <3>1, <3>2, <3>3
    <2>3. p[3] \in Nat /\ q[3] \in Nat
      BY <1>1, UsableParts
    <2>4. p = <<n, l, p[3]>> /\ q = <<n, l, q[3]>>
      BY <1>1, UsableParts
    <2>5. p[3] = q[3]
      BY <2>2, <2>3
    <2> QED BY <2>4, <2>5
  <1>5. f \in Injection(S, 0..d)
    BY <1>3, <1>4 DEF Injection, IsInjective
  <1>6. IsFiniteSet(0..d) /\ Cardinality(0..d) = d + 1
    BY FS_Interval
  <1>7. Cardinality(S) <= Cardinality(0..d)
    BY ONLY <1>5, <1>6, FS_Injection
  <1> QED BY <1>6, <1>7

\* An LLC with cores left has a first one left: those ahead of it are started.
LEMMA FirstLeft ==
  ASSUME tree \in Topology, NEW n, NEW l, NEW v,
         Started(n, l, v) # LevelCores(n, l, v)
  PROVE  \E q \in LevelCores(n, l, v) \ Started(n, l, v) : Ahead(q) \subseteq Started(n, l, v)
  <1> DEFINE Left == LevelCores(n, l, v) \ Started(n, l, v)
             T == {q[3] : q \in Left}
  <1>1. \A q \in LevelCores(n, l, v) :
          q \in Usable /\ q[1] = n /\ q[2] = l /\ PerfLevel(q) = v /\ q[3] \in Nat
    BY UsableParts DEF LevelCores
  <1>2. Left # {}
    BY DEF Started
  <1>3. T \subseteq Nat /\ T # {}
    BY <1>1, <1>2
  <1>4. PICK c \in T : \A m \in Nat : m < c => m \notin T
    <2> HIDE DEF T
    <2> QED BY <1>3, LeastNat
  <1>5. PICK q \in Left : q[3] = c
    OBVIOUS
  <1>6. ASSUME NEW p \in Ahead(q) PROVE p \in Started(n, l, v)
    <2>1. p \in LevelCores(n, l, v) /\ p[3] < q[3]
      BY <1>1 DEF Ahead, LevelCores
    <2>2. p[3] \notin T
      BY <1>1, <1>4, <1>5, <2>1
    <2> QED BY <2>1, <2>2
  <1> QED BY <1>6

\* At every moment two LLCs differ by at most one in the cores in use.
LEMMA BalancedFromOrder == TypeOK /\ MappedOnce /\ ClosedInv => Balanced
  <1> SUFFICES ASSUME TypeOK, MappedOnce, ClosedInv,
                      NEW v \in 0..(tree.perf_level_count - 1),
                      NEW n1 \in DOMAIN Nodes, NEW n2 \in DOMAIN Nodes,
                      NEW l1 \in DOMAIN Nodes[n1], NEW l2 \in DOMAIN Nodes[n2],
                      FirstThreads(result, n1, l1, v) # CoresOfLevel(n1, l1, v)
               PROVE  FirstThreads(result, n2, l2, v) <= FirstThreads(result, n1, l1, v) + 1
    BY DEF Balanced
  <1>1. tree \in Topology /\ v < tree.perf_level_count
    <2>1. tree \in Topology
      BY DEF TypeOK
    <2>2. tree.perf_level_count \in Nat
      BY <2>1, TreeParts
    <2> QED BY ONLY <2>1, <2>2, v \in 0..(tree.perf_level_count - 1)
  <1>2. Started(n1, l1, v) # LevelCores(n1, l1, v)
    BY <1>1, StartedCounted, LevelCoresCounted
  <1>3. PICK q \in LevelCores(n1, l1, v) \ Started(n1, l1, v) :
          Ahead(q) \subseteq Started(n1, l1, v)
    BY <1>1, <1>2, FirstLeft
  <1>4. q \in Usable /\ PerfLevel(q) = v /\ ~InList(result, <<q, 1>>)
    BY <1>3 DEF Started, LevelCores
  <1> DEFINE behind == FirstThreads(result, n1, l1, v)
             d == Cardinality(Ahead(q))
             other == FirstThreads(result, n2, l2, v)
  <1>5. /\ d \in Nat /\ d <= behind /\ behind \in Nat
    <2>1. /\ IsFiniteSet(Started(n1, l1, v)) /\ behind \in Nat
          /\ Cardinality(Started(n1, l1, v)) = behind
      BY StartedCounted
    <2>2. IsFiniteSet(Ahead(q)) /\ Cardinality(Ahead(q)) <= Cardinality(Started(n1, l1, v))
      BY <1>3, <2>1, FS_Subset
    <2> QED BY <2>1, <2>2, FS_CardinalityType
  <1>6. \A p \in Started(n2, l2, v) : Cardinality(Ahead(p)) <= d
    BY <1>1, <1>4, StartedBefore DEF Started, LevelCores
  <1>7. other <= d + 1 /\ other \in Nat
    <2>1. Started(n2, l2, v) \in SUBSET LevelCores(n2, l2, v)
      BY DEF Started
    <2>2. Cardinality(Started(n2, l2, v)) <= d + 1
      BY <1>1, <1>5, <1>6, <2>1, AtMostRounds
    <2> QED BY <2>2, StartedCounted
  <1> HIDE DEF behind, d, other
  <1>8. other <= behind + 1
    BY <1>5, <1>7
  <1> QED BY <1>8 DEF other, behind

\* However many workers are started, LLCs share them evenly, on any topology.
THEOREM LoadIsBalanced == Spec => []Balanced
  <1>1. HandedInv => ClosedInv
    BY DEF HandedInv
  <1> QED
    BY <1>1, BalancedFromOrder, TypeCorrect, NoProcessorTwice, HandedInvariant, PTL

-----------------------------------------------------------------------------
(* Affinity: workers and the processors they are pinned to, for every      *)
(* tree, number of workers, order of their calls and hotplug of CPUs.  A   *)
(* mapping holds no processor twice (NoProcessorTwice), and a confined     *)
(* worker is confined by its own entry of a mapping that is finished, so   *)
(* two of them never meet on a CPU.                                        *)

\* A program with workers runs Mapping: its other steps leave that alone.
LEMMA MapsAsSpecified == Program => Spec
<1>1. ProgramInit => Init
  BY DEF ProgramInit
<1>2. [ProgramNext]_allVars => [Next]_vars
  BY DEF ProgramNext, allVars, MapStep, StartWorkers, Hotplug, AssignThread
<1> QED BY <1>1, <1>2, PTL DEF Program, Spec

\* What is read from the tree.
LEMMA ReadsKept ==
  ASSUME tree' = tree
  PROVE  /\ AllCpus' = AllCpus /\ \A p : CoreAt(p)' = CoreAt(p)
         /\ \A th : Lp(th)' = Lp(th)
  BY DEF AllCpus, CoreAt, Nodes, Lp

\* The place of a processor among those of the tree.
PlaceOf(lp) == <<lp[1][1], lp[1][2], lp[1][3], lp[2]>>

\* A processor that a mapping may hold has a place, and the CPU there.
LEMMA ProcessorPlace ==
  ASSUME tree \in Topology, NEW th \in Processors
  PROVE  /\ PlaceOf(th) \in CpuPlaces(tree)
         /\ Lp(th) = CpuAt(tree, PlaceOf(th))
         /\ Lp(th) \in AllCpus /\ Lp(th) \in LogicalProcessor
         /\ th = <<th[1], th[2]>> /\ th[1] = <<th[1][1], th[1][2], th[1][3]>>
<1> DEFINE p == th[1]
           r == th[2]
<1>1. /\ p \in Places /\ r \in Nat /\ r \in 1..NumThreads(p) /\ th = <<p, r>>
      /\ p = <<p[1], p[2], p[3]>>
  BY DEF Processors, Places
<1>2. CoreAt(p) \in Core /\ NumThreads(p) = Len(CoreAt(p).threads)
  BY <1>1, PlaceParts DEF NumThreads
<1>3. CoreAt(p).threads \in Seq(LogicalProcessor) /\ r \in DOMAIN CoreAt(p).threads
  BY <1>1, <1>2 DEF Core
<1>4. Lp(th) = CoreAt(p).threads[r] /\ Lp(th) \in LogicalProcessor
  BY <1>3, SeqElement DEF Lp
<1>5. CoreAt(p) = tree.numa_nodes[p[1]][p[2]][p[3]]
  BY DEF CoreAt, Nodes
<1>6. /\ p[1] \in DOMAIN tree.numa_nodes /\ p[2] \in DOMAIN tree.numa_nodes[p[1]]
      /\ p[3] \in DOMAIN tree.numa_nodes[p[1]][p[2]]
  BY <1>1 DEF Places, Nodes
<1> HIDE DEF p, r
<1>7. r \in DOMAIN tree.numa_nodes[p[1]][p[2]][p[3]].threads
  BY <1>3, <1>5
<1>8. <<p[1], p[2], p[3], r>> \in CpuPlaces(tree)
  BY <1>6, <1>7 DEF CpuPlaces
<1>9. CpuAt(tree, <<p[1], p[2], p[3], r>>) = CoreAt(p).threads[r]
  BY <1>5 DEF CpuAt
<1> QED BY <1>1, <1>4, <1>8, <1>9 DEF PlaceOf, AllCpus, CpusOf, p, r

\* An entry of the mapping is a processor of the tree.
LEMMA EntryProcessor ==
  ASSUME TypeOK, thread_mapping \in {BasicMapping, result}, NEW w \in Nat, HasEntry(w)
  PROVE  /\ w + 1 \in DOMAIN result /\ thread_mapping = result
         /\ thread_mapping[w + 1] \in Processors
<1>1. result \in Seq(Processors)
  BY DEF TypeOK
<1>2. thread_mapping = result
  BY DEF HasEntry, BasicMapping
<1>3. w + 1 \in DOMAIN result
  BY <1>1, <1>2 DEF HasEntry
<1>4. result[w + 1] \in Processors
  BY <1>1, <1>3, SeqElement
<1> QED BY <1>2, <1>3, <1>4

\* Where there are workers, the CPU assign_thread asks for is that of its
\* entry: a system without groups has them all in group 0.
LEMMA AskedIsEntry ==
  ASSUME OneProgram, thread_count > 0, NEW cpu \in AllCpus, cpu \in LogicalProcessor
  PROVE  Asked(cpu) = cpu
<1>1. platform # "windows" => cpu.group_id = 0
  BY AffinityAssumption DEF OneProgram, AllCpus
<1>2. cpu = [os_id |-> cpu.os_id, group_id |-> cpu.group_id]
  BY DEF LogicalProcessor
<1> QED BY <1>1, <1>2 DEF Asked

\* Nobody is confined before the workers start.
LEMMA InitPinned == ProgramInit => PinnedInv
<1> SUFFICES ASSUME ProgramInit PROVE PinnedInv
  OBVIOUS
<1>1. OneProgram
  BY DEF ProgramInit, OneProgram
<1>2. allowed \subseteq AllCpus
  BY <1>1, AffinityAssumption DEF OneProgram, AllCpus
<1> QED BY <1>1, <1>2
        DEF ProgramInit, PinnedInv, MadeFirst, Confined, PinnedUnlessRefused

\* A mapping that is finished stays as it is.
LEMMA DoneStays ==
  ASSUME pc = "done", Next PROVE UNCHANGED vars
  BY DEF Next, Begin, OpenLevel, ScanCore, CloseGroup, GroupsBuilt, LevelsDone,
         Deal, NextRound, LevelDealt, Interleaved, AddThread, NextList, Emitted,
         Terminating

\* No step of the mapping changes its inputs.
LEMMA InputsStay ==
  ASSUME Next PROVE tree' = tree
  BY DEF Next, Begin, OpenLevel, ScanCore, CloseGroup, GroupsBuilt, LevelsDone,
         Deal, NextRound, LevelDealt, Interleaved, AddThread, NextList, Emitted,
         Terminating, vars, inputs

\* The CPUs allowed to a program are some of the machine.
LEMMA AllowedCpus == ASSUME OneProgram PROVE allowed \subseteq AllCpus
  BY AffinityAssumption DEF OneProgram, AllCpus

\* While the workers and their CPUs stay, so does what is said of them.
LEMMA PinnedKept ==
  ASSUME PinnedInv, UNCHANGED <<tree, program, waiting, affinity, cpus>>,
         MadeFirst', \/ UNCHANGED <<result, thread_mapping>>
                     \/ waiting = Workers
  PROVE  PinnedInv'
<1>1. /\ Workers' = Workers /\ AllCpus' = AllCpus /\ \A th : Lp(th)' = Lp(th)
      /\ platform' = platform /\ allowed' = allowed /\ affinity' = affinity
      /\ waiting' = waiting /\ \A lp : Asked(lp)' = Asked(lp)
  BY ReadsKept DEF Workers, program, Asked
<1>2. \A w \in Workers' : Confined(w)' => PinnedBy(w)'
  <2>1. CASE waiting = Workers
    BY <1>1, <2>1 DEF PinnedInv, Confined, PinnedBy
  <2>2. CASE UNCHANGED <<result, thread_mapping>>
    BY <1>1, <2>2 DEF PinnedInv, Confined, PinnedBy, HasEntry
  <2> QED BY <2>1, <2>2
<1>3. PinnedUnlessRefused'
  <2>1. CASE waiting = Workers
    BY <1>1, <2>1 DEF PinnedUnlessRefused
  <2>2. CASE UNCHANGED <<result, thread_mapping>>
    BY <1>1, <2>2 DEF PinnedInv, PinnedUnlessRefused, cpus
  <2> QED BY <2>1, <2>2
<1>4. OneProgram'
  BY DEF PinnedInv, OneProgram, program
<1> QED BY <1>1, <1>2, <1>3, <1>4 DEF PinnedInv, cpus

\* assign_thread.
LEMMA AssignStep ==
  ASSUME TypeOK, PinnedInv, NEW w \in Workers, AssignThread(w)
  PROVE  PinnedInv'
<1> DEFINE lp == Lp(thread_mapping[w + 1])
           cpu == Asked(lp)
           given == HasEntry(w) /\ Grants(cpu)
<1>1. /\ started /\ w \in waiting /\ waiting' = waiting \ {w}
      /\ UNCHANGED <<vars, program, manager, cpus>>
      /\ given => affinity' = [affinity EXCEPT ![w] = {cpu}]
      /\ ~given => affinity' = affinity
  BY DEF AssignThread
<1>2. /\ tree' = tree /\ result' = result /\ pc' = pc /\ Workers' = Workers
      /\ thread_mapping' = thread_mapping /\ started' = started
      /\ online' = online /\ gone' = gone /\ AllCpus' = AllCpus
      /\ platform' = platform /\ allowed' = allowed /\ thread_count' = thread_count
      /\ \A th : Lp(th)' = Lp(th)
      /\ \A c : Asked(c)' = Asked(c)
  BY <1>1, ReadsKept DEF vars, inputs, emitVars, manager, cpus, program, Workers, Asked
<1>3. \A v \in Workers : v \in Nat
  BY AffinityAssumption DEF PinnedInv, OneProgram, Workers
<1>4. thread_mapping \in {BasicMapping, result} /\ pc = "done"
  BY <1>1 DEF PinnedInv, MadeFirst
<1>5. HasEntry(w) => /\ cpu \in AllCpus /\ cpu \in LogicalProcessor
                      /\ cpu = lp /\ lp = Lp(result[w + 1])
  <2> SUFFICES ASSUME HasEntry(w)
               PROVE  /\ cpu \in AllCpus /\ cpu \in LogicalProcessor
                      /\ cpu = lp /\ lp = Lp(result[w + 1])
    OBVIOUS
  <2>1. thread_mapping = result /\ thread_mapping[w + 1] \in Processors
    BY <1>3, <1>4, EntryProcessor
  <2>2. lp \in AllCpus /\ lp \in LogicalProcessor
    BY <2>1, ProcessorPlace DEF TypeOK
  <2>3. thread_count > 0 /\ OneProgram
    BY <1>3, AffinityAssumption DEF PinnedInv, OneProgram, Workers
  <2>4. cpu = lp
    BY <2>2, <2>3, AskedIsEntry
  <2> QED BY <2>1, <2>2, <2>4
<1> HIDE DEF cpu, lp
<1>6. /\ affinity' \in [Workers -> SUBSET AllCpus]
      /\ \A v \in Workers \ {w} : affinity'[v] = affinity[v]
      /\ given => affinity'[w] = {cpu}
      /\ ~given => affinity'[w] = affinity[w]
  BY <1>1, <1>5 DEF PinnedInv
<1>7. \A v \in Workers : Confined(v)' => PinnedBy(v)'
  <2> SUFFICES ASSUME NEW v \in Workers, Confined(v)' PROVE PinnedBy(v)'
    OBVIOUS
  <2>1. CASE v = w /\ given
    BY <1>1, <1>2, <1>6, <2>1 DEF PinnedBy, HasEntry, cpu, lp
  <2>2. CASE v = w /\ ~given
    <3>1. affinity[w] \in {allowed, AllCpus}
      BY <1>1 DEF PinnedInv, PinnedBy, Confined
    <3> QED BY <1>2, <1>6, <2>2, <3>1 DEF Confined
  <2>3. CASE v # w
    <3>1. Confined(v)
      BY <1>2, <1>6, <2>3 DEF Confined
    <3> QED BY <1>1, <1>2, <1>6, <2>3, <3>1 DEF PinnedInv, PinnedBy, HasEntry
  <2> QED BY <2>1, <2>2, <2>3
<1>8. PinnedUnlessRefused'
  <2> SUFFICES ASSUME NEW v \in Workers \ waiting', v < Len(thread_mapping),
                      platform # "other"
               PROVE  LET c == Lp(result[v + 1])
                      IN  \/ affinity'[v] = {c}
                          \/ c \notin allowed
                          \/ platform = "linux" /\ (c \in gone \/ c.os_id >= CpuSetSize)
    BY <1>1, <1>2 DEF PinnedUnlessRefused
  <2>1. CASE v # w
    BY <1>1, <1>6, <2>1 DEF PinnedInv, PinnedUnlessRefused
  <2>2. CASE v = w
    <3>1. HasEntry(w)
      BY <2>2 DEF HasEntry
    <3>2. CASE given
      BY <1>5, <1>6, <2>2, <3>1, <3>2
    <3>3. CASE ~given
      <4>1. \/ cpu \notin allowed
            \/ platform = "linux" /\ ~(cpu.os_id < CpuSetSize /\ cpu \in online)
        <5>1. platform \in {"linux", "windows"}
          BY AffinityAssumption DEF PinnedInv, OneProgram
        <5> QED BY <3>1, <3>3, <5>1 DEF Grants
      <4>2. cpu.os_id \in Nat /\ CpuSetSize \in Nat /\ cpu \in AllCpus
        BY <1>5, <3>1, AffinityAssumption DEF LogicalProcessor
      <4> QED BY <1>5, <2>2, <3>1, <4>1, <4>2 DEF PinnedInv
    <3> QED BY <3>2, <3>3
  <2> QED BY <2>1, <2>2
<1>9. MadeFirst'
  BY <1>1, <1>2 DEF PinnedInv, MadeFirst
<1> QED BY <1>1, <1>2, <1>6, <1>7, <1>8, <1>9 DEF PinnedInv, OneProgram

\* CPUs go offline and come back.
LEMMA HotplugStep ==
  ASSUME TypeOK, PinnedInv, Hotplug PROVE PinnedInv'
<1>1. /\ platform = "linux"
      /\ UNCHANGED <<vars, program, manager, waiting>>
      /\ \/ \E c \in online : GoOffline(c)
         \/ \E c \in AllCpus \ online : ComeOnline(c)
  BY DEF Hotplug
<1>2. /\ tree' = tree /\ result' = result /\ pc' = pc /\ Workers' = Workers
      /\ thread_mapping' = thread_mapping /\ started' = started /\ waiting' = waiting
      /\ AllCpus' = AllCpus /\ platform' = platform /\ allowed' = allowed
      /\ \A th : Lp(th)' = Lp(th)
      /\ \A c : Asked(c)' = Asked(c)
  BY <1>1, ReadsKept DEF vars, inputs, emitVars, manager, program, Workers, Asked
<1>3. /\ MadeFirst' /\ OneProgram' /\ waiting' \subseteq Workers'
  BY <1>1, <1>2 DEF PinnedInv, MadeFirst, OneProgram, program
<1>4. ASSUME NEW c \in online, GoOffline(c) PROVE PinnedInv'
  <2>1. /\ online' = online \ {c} /\ gone' = gone \cup {c}
        /\ affinity' = [w \in Workers |-> IF affinity[w] \cap online' = {}
                                          THEN Fallback(online') ELSE affinity[w]]
    BY <1>4 DEF GoOffline
  <2>0. Fallback(online') \in {allowed, AllCpus} /\ allowed \subseteq AllCpus
    BY AllowedCpus DEF Fallback, PinnedInv
  <2>2. affinity' \in [Workers -> SUBSET AllCpus] /\ AllCpus \ online' \subseteq gone'
    BY <2>0, <2>1 DEF PinnedInv
  <2>3. \A w \in Workers :
          \/ affinity'[w] \in {allowed, AllCpus} /\ affinity[w] \cap online' = {}
          \/ affinity'[w] = affinity[w]
    BY <2>0, <2>1
  <2>4. \A w \in Workers : Confined(w)' => PinnedBy(w)'
    BY <1>2, <2>3 DEF PinnedInv, Confined, PinnedBy, HasEntry
  <2>5. PinnedUnlessRefused'
    <3> SUFFICES ASSUME NEW w \in Workers \ waiting, w < Len(thread_mapping)
                 PROVE  LET lp == Lp(result[w + 1])
                        IN  \/ affinity'[w] = {lp}
                            \/ lp \notin allowed
                            \/ lp \in gone' \/ lp.os_id >= CpuSetSize
      BY <1>1, <1>2 DEF PinnedUnlessRefused
    <3> DEFINE cpu == Lp(result[w + 1])
    <3>1. \/ affinity[w] = {cpu}
          \/ cpu \notin allowed
          \/ cpu \in gone \/ cpu.os_id >= CpuSetSize
      BY <1>1 DEF PinnedInv, PinnedUnlessRefused
    <3> HIDE DEF cpu
    <3>2. CASE affinity[w] = {cpu} /\ affinity[w] \cap online' = {}
      <4>1. cpu \in AllCpus /\ cpu \notin online'
        BY <3>2 DEF PinnedInv
      <4> QED BY <2>2, <4>1 DEF cpu
    <3> QED BY <2>1, <2>3, <3>1, <3>2 DEF cpu
  <2> QED BY <1>2, <1>3, <2>2, <2>4, <2>5 DEF PinnedInv
<1>5. ASSUME NEW c \in AllCpus \ online, ComeOnline(c) PROVE PinnedInv'
  <2>1. online' = online \cup {c} /\ gone' = gone /\ affinity' = affinity
    BY <1>5 DEF ComeOnline
  <2>2. \A w \in Workers : Confined(w)' => PinnedBy(w)'
    BY <1>2, <2>1 DEF PinnedInv, Confined, PinnedBy, HasEntry
  <2>3. PinnedUnlessRefused'
    BY <1>1, <1>2, <2>1 DEF PinnedInv, PinnedUnlessRefused
  <2> QED BY <1>2, <1>3, <2>1, <2>2, <2>3 DEF PinnedInv
<1> QED BY <1>1, <1>4, <1>5

\* Every step of the program keeps the invariant.
LEMMA NextPinned == TypeOK /\ PinnedInv /\ [ProgramNext]_allVars => PinnedInv'
<1> SUFFICES ASSUME TypeOK, PinnedInv, [ProgramNext]_allVars PROVE PinnedInv'
  OBVIOUS
<1>1. CASE MapStep
  <2>1. Next /\ UNCHANGED <<program, started, thread_mapping, waiting, affinity, cpus>>
    BY <1>1 DEF MapStep, workers, manager
  <2>2. tree' = tree /\ Workers' = Workers
    BY <2>1, InputsStay DEF Workers, program
  <2>3. started => UNCHANGED vars
    BY <2>1, DoneStays DEF PinnedInv, MadeFirst
  <2>4. MadeFirst'
    BY <2>1, <2>2, <2>3 DEF PinnedInv, MadeFirst, vars, emitVars
  <2>5. UNCHANGED <<result, thread_mapping>> \/ waiting = Workers
    BY <2>1, <2>3 DEF PinnedInv, MadeFirst, vars, emitVars
  <2> QED BY <2>1, <2>2, <2>4, <2>5, PinnedKept
<1>2. CASE StartWorkers
  <2>1. /\ pc = "done" /\ ~started /\ started' /\ thread_mapping' \in {BasicMapping, result}
        /\ UNCHANGED <<vars, program, waiting, affinity, cpus>>
    BY <1>2 DEF StartWorkers
  <2>2. MadeFirst' /\ waiting = Workers /\ tree' = tree
    BY <2>1 DEF PinnedInv, MadeFirst, vars, inputs, emitVars, BasicMapping
  <2> QED BY <2>1, <2>2, PinnedKept
<1>3. CASE Hotplug
  BY <1>3, HotplugStep
<1>4. CASE \E w \in Workers : AssignThread(w)
  BY <1>4, AssignStep
<1>5. CASE UNCHANGED allVars
  <2>1. /\ MadeFirst' /\ UNCHANGED <<result, thread_mapping>>
        /\ UNCHANGED <<tree, program, waiting, affinity, cpus>>
    BY <1>5 DEF allVars, vars, inputs, emitVars, workers, manager, program, cpus,
                PinnedInv, MadeFirst, Workers
  <2> QED BY <2>1, PinnedKept
<1> QED BY <1>1, <1>2, <1>3, <1>4, <1>5 DEF ProgramNext

\* Two workers with different entries have entries for different CPUs.
LEMMA EntriesApart ==
  ASSUME TypeOK, MappedOnce, PinnedInv PROVE PinnedApart
<1> SUFFICES ASSUME NEW v \in Workers, NEW w \in Workers, v # w,
                    Confined(v), Confined(w)
             PROVE  affinity[v] \cap affinity[w] = {}
  BY DEF PinnedApart
<1> DEFINE a == thread_mapping[v + 1]
           b == thread_mapping[w + 1]
<1>1. v \in Nat /\ w \in Nat /\ thread_count > 0
  BY AffinityAssumption DEF PinnedInv, OneProgram, Workers
<1>2. /\ HasEntry(v) /\ affinity[v] = {Asked(Lp(a))}
      /\ HasEntry(w) /\ affinity[w] = {Asked(Lp(b))}
  BY DEF PinnedInv, PinnedBy
<1>3. thread_mapping \in {BasicMapping, result}
  BY DEF PinnedInv, MadeFirst, PinnedBy
<1>4. /\ v + 1 \in DOMAIN result /\ w + 1 \in DOMAIN result /\ thread_mapping = result
      /\ a \in Processors /\ b \in Processors
  BY <1>1, <1>2, <1>3, EntryProcessor
<1>5. a # b
  BY <1>1, <1>4 DEF MappedOnce
<1>6. tree \in Topology
  BY DEF TypeOK
<1> HIDE DEF a, b
<1>7. PlaceOf(a) = PlaceOf(b) => a = b
  <2>1. /\ a = <<a[1], a[2]>> /\ a[1] = <<a[1][1], a[1][2], a[1][3]>>
        /\ b = <<b[1], b[2]>> /\ b[1] = <<b[1][1], b[1][2], b[1][3]>>
    BY <1>4, <1>6, ProcessorPlace
  <2>2. PlaceOf(a) = PlaceOf(b) =>
          a[1][1] = b[1][1] /\ a[1][2] = b[1][2] /\ a[1][3] = b[1][3] /\ a[2] = b[2]
    BY DEF PlaceOf
  <2> QED BY <2>1, <2>2
<1>8. Lp(a) = Lp(b) => PlaceOf(a) = PlaceOf(b)
  BY <1>1, <1>4, <1>6, ProcessorPlace, AffinityAssumption DEF PinnedInv, OneProgram
<1>9. Asked(Lp(a)) = Lp(a) /\ Asked(Lp(b)) = Lp(b)
  BY <1>1, <1>4, <1>6, ProcessorPlace, AskedIsEntry DEF PinnedInv
<1> QED BY <1>2, <1>5, <1>7, <1>8, <1>9

-----------------------------------------------------------------------------
(* The results.                                                            *)

\* The invariant of a program with workers.
THEOREM PinnedInvariance == Program => []PinnedInv
<1>1. Program => ProgramInit /\ [][ProgramNext]_allVars
  BY PTL DEF Program
<1> QED BY <1>1, InitPinned, NextPinned, MapsAsSpecified, TypeCorrect, PTL

\* PinnedApart: assign_thread never puts two workers on one CPU, whatever
\* mapping they were given, whatever CPUs went away and however many processor
\* groups the CPUs are in.
THEOREM WorkersApart == Program => []PinnedApart
<1>1. OnceInv => MappedOnce
  BY DEF OnceInv
<1> QED BY <1>1, EntriesApart, PinnedInvariance, MapsAsSpecified, TypeCorrect,
           OnceInvariant, PTL

\* PinnedUnlessRefused: the refusals assign_thread ignores leave a worker
\* unpinned only where its CPU is not allowed to the program, was offline or
\* is out of reach of a cpu_set_t.
THEOREM OnlyRefusedUnpinned == Program => []PinnedUnlessRefused
<1>1. PinnedInv => PinnedUnlessRefused
  BY DEF PinnedInv
<1> QED BY <1>1, PinnedInvariance, PTL

=============================================================================
