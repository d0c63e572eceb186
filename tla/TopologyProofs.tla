--------------------------- MODULE TopologyProofs ---------------------------
(***************************************************************************)
(* Topology, for every machine, every set of CPUs and any hotplug: a tree  *)
(* that is returned has each CPU the build was told of once, no core has   *)
(* a level that is not counted, CPUs whose place was told truly are        *)
(* together just when they are on the machine, and levels follow           *)
(* capacities on a machine that holds still.                               *)
(***************************************************************************)
EXTENDS Topology, FiniteSetTheorems, TLAPS

-----------------------------------------------------------------------------
(* The inductive invariant behind the properties of Topology: which CPUs   *)
(* the nested map holds while it is filled, that each of them is there     *)
(* once, and what is known of its place and its level.                     *)

MachineInv == /\ \A c \in Cpus : Online(c) \/ c \in touched
              /\ IsFiniteSet(capacities)

\* The CPUs filed are those of S, each as one thread, which knows its core.
FiledOnce(map, S) ==
  /\ IsFiniteSet(DOMAIN map)
  /\ \A q \in DOMAIN map : map[q].core_id = q[3]
  /\ \A q \in DOMAIN map : \A r \in DOMAIN map[q].threads :
       /\ map[q].threads[r].thread_index = r - 1
       /\ map[q].threads[r].core_id = q[3]
       /\ CpuIn(map[q].threads[r]) \in S
  /\ \A q, u \in DOMAIN map :
       \A r \in DOMAIN map[q].threads, s \in DOMAIN map[u].threads :
         CpuIn(map[q].threads[r]) = CpuIn(map[u].threads[s]) => q = u /\ r = s
  /\ \A c \in S : \E q \in DOMAIN map : \E r \in DOMAIN map[q].threads :
       CpuIn(map[q].threads[r]) = c

\* The tree is the map when the build is over, and empty before.
TreeInv ==
  platform # "mac" => tree.numa_nodes = IF pc = "done" THEN NodesOf(topo) ELSE <<>>

-----------------------------------------------------------------------------
(* Linux.                                                                  *)

\* No CPU is listed twice.  The second pass is at entry x.
EntriesInv ==
  /\ pc \in {"list", "node", "core", "llc", "insert", "done", "terminated"}
  /\ \A a \in DOMAIN cpu_entries : cpu_entries[a][1] \in Cpus \ unlisted
  /\ \A a, b \in DOMAIN cpu_entries : cpu_entries[a][1] = cpu_entries[b][1] => a = b
  /\ x <= Len(cpu_entries) + 1
  /\ pc = "list" => x = 1 /\ topo = <<>>
  /\ pc \in {"core", "llc", "insert"} => EntriesLeft
  /\ pc = "done" => ~EntriesLeft
  /\ pc # "list" => /\ capacities = {e[2] : e \in Range(cpu_entries)}
                    /\ tree.perf_level_count = Cardinality(capacities)

FiledBefore == {cpu_entries[a][1] : a \in 1..(x - 1)}

\* What was read of a CPU that has not changed since is true of it.
ReadsInv ==
  Cpu \notin touched =>
    /\ pc \in {"core", "llc", "insert"} => node_id = hw[Cpu].node
    /\ pc \in {"llc", "insert"} => core_id = hw[Cpu].core
    /\ pc = "insert" => llc_id = LlcRead(Cpu)

PlacesInv ==
  \A q \in DOMAIN topo : \A r \in DOMAIN topo[q].threads :
    LET c == CpuIn(topo[q].threads[r])
    IN  c \notin touched => q = <<hw[c].node, LlcRead(c), hw[c].core>>

\* Every level is one that is counted, and that of the core's CPUs where the
\* machine has held still.
LinuxLevels ==
  /\ \A q \in DOMAIN topo : topo[q].perf_level < Cardinality(capacities)
  /\ touched = {} =>
       /\ \A a \in DOMAIN cpu_entries :
            cpu_entries[a][2] = hw[cpu_entries[a][1]].capacity
       /\ HonestCores =>
            \A q \in DOMAIN topo : \A r \in DOMAIN topo[q].threads :
              topo[q].perf_level = Tier(hw[CpuIn(topo[q].threads[r])].capacity)

LinuxInv == /\ EntriesInv /\ FiledOnce(topo, FiledBefore) /\ PlacesInv /\ LinuxLevels
            /\ pc \in {"core", "llc", "insert"} => ReadsInv

-----------------------------------------------------------------------------
(* Windows.                                                                *)

CoreRecordsRead == Of({"core"}) \ unread
CpusRead == IF pc \in {"cores", "done"} THEN UNION {r.mask : r \in CoreRecordsRead} ELSE {}
L3 == {r \in Of({"cache"}) : r.level = 3}

\* The records of the buffer describe the machine: those of cores are of
\* different cores, those of caches of different caches, and one of a node
\* has all or none of the CPUs of a core.
BufferInv ==
  /\ \A r \in buffer : r.relation \in {"core", "node", "cache"} /\ r.mask \subseteq Cpus
  /\ \A r \in Of({"core"}) :
       /\ r.mask # {} /\ r.efficiency_class \in Nat
       /\ \A c \in r.mask : HonestCores => hw[c].capacity = r.efficiency_class
  /\ \A r, s \in Of({"core"}) : \A c \in r.mask, d \in s.mask :
       HwPlace(c) = HwPlace(d) <=> r = s
  /\ \A r \in Of({"node"}) : \A c \in r.mask : r.node_number = hw[c].node
  /\ \A r \in Of({"node"}), s \in Of({"core"}) :
       s.mask \cap r.mask # {} => s.mask \subseteq r.mask
  /\ \A r, s \in L3 : \A c \in r.mask, d \in s.mask : hw[c].llc = hw[d].llc <=> r = s
  /\ \A s \in Of({"core"}) : \A c \in s.mask :
       hw[c].llc # NoLlc <=> \E r \in L3 : c \in r.mask

\* The places noted are those of the records read.  An LLC has a number of
\* its own.
NotedInv ==
  /\ pc = "places" => unread \cap Of({"core"}) = {}
  /\ pc \in {"cores", "done"} => unread \subseteq Of({"core"})
  /\ \A c \in DOMAIN cpu_to_numa : cpu_to_numa[c] = hw[c].node
  /\ \A r \in Of({"node"}) \ unread : r.mask \subseteq DOMAIN cpu_to_numa
  /\ \A r \in L3 \ unread : r.mask \subseteq DOMAIN cpu_to_llc
  /\ \A c \in DOMAIN cpu_to_llc : /\ \E r \in L3 \ unread : c \in r.mask
                                  /\ cpu_to_llc[c] < llc_counter
  /\ \A c, d \in DOMAIN cpu_to_llc : cpu_to_llc[c] = cpu_to_llc[d] <=> hw[c].llc = hw[d].llc

\* CPUs are together in the map just when they are on the machine.
RecordsInv ==
  \A q \in DOMAIN topo :
    /\ q[3] < core_counter
    /\ \A r \in DOMAIN topo[q].threads :
         LET c == CpuIn(topo[q].threads[r])
         IN  /\ q[1] = PlaceOf(cpu_to_numa, c) \/ \A s \in Of({"node"}) : c \notin s.mask
             /\ q[2] = PlaceOf(cpu_to_llc, c)
             /\ \A u \in DOMAIN topo : \A s \in DOMAIN topo[u].threads :
                  HwPlace(c) = HwPlace(CpuIn(topo[u].threads[s])) => q = u
             /\ \A s \in DOMAIN topo[q].threads :
                  HwPlace(c) = HwPlace(CpuIn(topo[q].threads[s]))

\* Levels are classes until they are ranked.
WindowsLevels ==
  /\ pc \in {"cores", "done"} =>
       \A q \in DOMAIN topo : \E cap \in capacities :
         /\ topo[q].perf_level = IF pc = "done" THEN Tier(cap) ELSE cap
         /\ HonestCores => \A r \in DOMAIN topo[q].threads :
                             hw[CpuIn(topo[q].threads[r])].capacity = cap
  /\ \A cap \in capacities : \E r \in CoreRecordsRead : r.efficiency_class = cap
  /\ pc = "done" => unread = {} /\ tree.perf_level_count = Cardinality(capacities)

WindowsInv ==
  /\ pc \in {"length", "fetch", "places", "cores", "done"}
  /\ pc \in {"length", "fetch"} => buffer = {} /\ unread = {} /\ cpu_to_numa = <<>>
                                   /\ cpu_to_llc = <<>>
  /\ pc \notin {"cores", "done"} => topo = <<>> /\ capacities = {}
                                   /\ tree.perf_level_count = 0
  /\ BufferInv /\ NotedInv /\ RecordsInv /\ WindowsLevels
  /\ FiledOnce(topo, CpusRead)

-----------------------------------------------------------------------------
(* macOS.                                                                  *)

MacInv ==
  /\ pc \in {"levels", "done"}
  /\ Len(llc_groups) = x - 1
  /\ \A l \in DOMAIN llc_groups : \A i \in DOMAIN llc_groups[l] :
       /\ llc_groups[l][i] = MadeUpCore(llc_groups[l][i].core_id, l - 1)
       /\ llc_groups[l][i].core_id < gid
  /\ \A l, m \in DOMAIN llc_groups :
       \A i \in DOMAIN llc_groups[l], k \in DOMAIN llc_groups[m] :
         llc_groups[l][i].core_id = llc_groups[m][k].core_id => l = m /\ i = k
  /\ \A id \in 0..(gid - 1) : \E l \in DOMAIN llc_groups :
       \E i \in DOMAIN llc_groups[l] : llc_groups[l][i].core_id = id
  /\ tree.numa_nodes = IF pc = "done" THEN <<llc_groups>> ELSE <<>>
  /\ pc = "done" => tree.perf_level_count = Len(llc_groups)

OtherInv == pc = "done" /\ topo = <<>>

TopologyInv ==
  /\ MachineInv /\ TreeInv
  /\ platform = "linux" => LinuxInv
  /\ platform = "windows" => WindowsInv
  /\ platform = "mac" => MacInv /\ counts \in LevelCounts
  /\ platform = "other" => OtherInv

-----------------------------------------------------------------------------
(* Finite sets of numbers, and their elements in order.                    *)

\* Above(S, e) is the place of e in S counted from the greatest.
Above(S, e) == Cardinality({d \in S : d > e})

\* The places of the elements are the numbers below the size of the set, and
\* the greater the element the smaller its place.
LEMMA Ranking ==
  ASSUME NEW S, IsFiniteSet(S), S \subseteq Nat
  PROVE  /\ Cardinality(S) \in Nat
         /\ \A e \in S : Above(S, e) \in 0..(Cardinality(S) - 1)
         /\ \A a, b \in S : a < b <=> Above(S, b) < Above(S, a)
         /\ \A m \in 0..(Cardinality(S) - 1) : \E e \in S : Above(S, e) = m
  <1> DEFINE n == Cardinality(S)
             up(e) == {d \in S : d > e}
             f == [e \in S |-> Above(S, e)]
  <1>1. n \in Nat
    BY FS_CardinalityType
  <1>2. \A e \in Nat : IsFiniteSet(up(e)) /\ Cardinality(up(e)) \in Nat
    BY FS_Subset, FS_CardinalityType
  <1>3. ASSUME NEW e \in S PROVE Above(S, e) \in 0..(n - 1)
    <2>1. /\ up(e) \in SUBSET (S \ {e}) /\ IsFiniteSet(S \ {e})
          /\ Cardinality(S \ {e}) = n - 1
      BY FS_RemoveElement
    <2>2. Cardinality(up(e)) <= n - 1
      BY <2>1, FS_Subset
    <2> QED BY <1>1, <1>2, <2>2 DEF Above
  <1>4. ASSUME NEW a \in S, NEW b \in S, a < b PROVE Above(S, b) < Above(S, a)
    <2>1. up(b) \in SUBSET up(a) /\ b \in up(a) /\ b \notin up(b)
      <3>1. a \in Nat /\ b \in Nat /\ \A d \in S : d \in Nat
        OBVIOUS
      <3>2. \A d \in S : d > b => d > a
        BY <1>4, <3>1
      <3>3. \A d \in up(b) : d \in up(a)
        BY <3>2
      <3>4. b > a /\ ~(b > b)
        BY <1>4, <3>1
      <3> QED BY <3>3, <3>4
    <2>2. Cardinality(up(b)) <= Cardinality(up(a)) /\ Cardinality(up(b)) # Cardinality(up(a))
      <3> HIDE DEF up
      <3> QED BY <1>2, <2>1, FS_Subset
    <2> QED BY <1>2, <2>2 DEF Above
  <1>5. ASSUME NEW a \in S, NEW b \in S, Above(S, b) < Above(S, a) PROVE a < b
    <2>1. a = b \/ a < b \/ b < a
      OBVIOUS
    <2>2. Above(S, a) \in Int /\ Above(S, b) \in Int
      BY <1>1, <1>3
    <2>3. b < a => Above(S, a) < Above(S, b)
      BY <1>4
    <2> QED BY <1>5, <2>1, <2>2, <2>3
  <1>6. ASSUME NEW m \in 0..(n - 1) PROVE \E e \in S : Above(S, e) = m
    <2>1. f \in [S -> 0..(n - 1)]
      BY <1>3
    <2>2. \A a, b \in S : f[a] = f[b] => a = b
      <3> SUFFICES ASSUME NEW a \in S, NEW b \in S, f[a] = f[b], a # b PROVE FALSE
        OBVIOUS
      <3>1. a < b \/ b < a
        OBVIOUS
      <3>2. Above(S, a) = Above(S, b) /\ Above(S, a) \in Int
        BY <1>1, <1>3
      <3> QED BY <1>4, <3>1, <3>2
    <2>3. f \in Injection(S, 0..(n - 1))
      BY <2>1, <2>2 DEF Injection, IsInjective
    <2>4. IsFiniteSet(0..(n - 1)) /\ Cardinality(0..(n - 1)) = n
      BY <1>1, FS_Interval
    <2>5. f \in Surjection(S, 0..(n - 1))
      BY <2>3, <2>4, FS_Injection
    <2> QED BY <2>5 DEF Surjection
  <1> QED BY <1>1, <1>3, <1>4, <1>5, <1>6

\* Ordered(S) has each element once, the smaller before the greater.
LEMMA OrderedParts ==
  ASSUME NEW S, IsFiniteSet(S), S \subseteq Nat
  PROVE  /\ Cardinality(S) \in Nat
         /\ Ordered(S) \in [1..Cardinality(S) -> S]
         /\ \A a, b \in 1..Cardinality(S) : a < b <=> Ordered(S)[a] < Ordered(S)[b]
         /\ \A a, b \in 1..Cardinality(S) : Ordered(S)[a] = Ordered(S)[b] => a = b
         /\ \A e \in S : \E a \in 1..Cardinality(S) : Ordered(S)[a] = e
  <1> DEFINE n == Cardinality(S)
             o == Ordered(S)
             s == [m \in 1..n |-> CHOOSE e \in S : Above(S, e) = n - m]
  <1>1. n \in Nat
    BY FS_CardinalityType
  <1>2. \A m \in 1..n : s[m] \in S /\ Above(S, s[m]) = n - m
    <2> SUFFICES ASSUME NEW m \in 1..n PROVE s[m] \in S /\ Above(S, s[m]) = n - m
      OBVIOUS
    <2>1. n - m \in 0..(n - 1)
      BY <1>1
    <2>2. \E e \in S : Above(S, e) = n - m
      BY <2>1, Ranking
    <2> QED BY <2>2
  <1>3. \A a, b \in DOMAIN s : a < b => s[a] < s[b]
    <2> SUFFICES ASSUME NEW a \in 1..n, NEW b \in 1..n, a < b PROVE s[a] < s[b]
      OBVIOUS
    <2>1. n - b < n - a
      BY <1>1
    <2> HIDE DEF s, n
    <2>2. s[a] \in S /\ s[b] \in S /\ Above(S, s[b]) < Above(S, s[a])
      BY <1>2, <2>1
    <2> QED BY <2>2, Ranking
  <1>4. s \in [1..n -> S]
    BY <1>2
  <1>5. o \in [1..n -> S] /\ \A a, b \in DOMAIN o : a < b => o[a] < o[b]
    <2> HIDE DEF s
    <2> QED BY <1>3, <1>4 DEF Ordered
  <1> HIDE DEF o, s
  <1>6. \A a, b \in 1..n : a < b => o[a] < o[b]
    BY <1>5
  <1>7. \A a \in 1..n : o[a] \in Nat
    BY <1>5
  <1>8. \A a, b \in 1..n : o[a] = o[b] => a = b
    <2> SUFFICES ASSUME NEW a \in 1..n, NEW b \in 1..n, o[a] = o[b], a # b PROVE FALSE
      OBVIOUS
    <2>1. a < b \/ b < a
      BY <1>1
    <2> QED BY <1>6, <1>7, <2>1
  <1>9. \A a, b \in 1..n : o[a] < o[b] => a < b
    <2> SUFFICES ASSUME NEW a \in 1..n, NEW b \in 1..n, o[a] < o[b], ~(a < b) PROVE FALSE
      OBVIOUS
    <2>1. a = b \/ b < a
      BY <1>1
    <2> QED BY <1>6, <1>7, <2>1
  <1>10. \A e \in S : \E a \in 1..n : o[a] = e
    <2>1. o \in Injection(1..n, S)
      BY <1>5, <1>8 DEF Injection, IsInjective
    <2>2. IsFiniteSet(1..n) /\ Cardinality(1..n) = n
      BY <1>1, FS_Interval
    <2>3. o \in Surjection(1..n, S)
      BY <2>1, <2>2, FS_Injection
    <2> QED BY <2>3 DEF Surjection
  <1> QED BY <1>1, <1>5, <1>6, <1>8, <1>9, <1>10 DEF o

\* A finite set of numbers that is not empty has a least element.
LEMMA MinIn ==
  ASSUME NEW S, IsFiniteSet(S), S \subseteq Nat, S # {} PROVE Min(S) \in S
  <1>1. Cardinality(S) \in Nat /\ Cardinality(S) # 0
    BY FS_CardinalityType, FS_EmptySet
  <1> DEFINE e == Ordered(S)[1]
  <1>2. 1 \in 1..Cardinality(S) /\ e \in S
    <2>1. 1 \in 1..Cardinality(S)
      BY <1>1
    <2>2. Ordered(S) \in [1..Cardinality(S) -> S]
      BY OrderedParts
    <2> QED BY <2>1, <2>2
  <1>3. \A d \in S : e <= d
    <2> SUFFICES ASSUME NEW d \in S PROVE e <= d
      OBVIOUS
    <2>1. PICK a \in 1..Cardinality(S) : Ordered(S)[a] = d
      BY OrderedParts
    <2>2. a = 1 \/ 1 < a
      BY <1>1
    <2>3. 1 < a => e < d
      BY <1>2, <2>1, OrderedParts
    <2> HIDE DEF e
    <2>4. e \in Nat /\ d \in Nat
      BY <1>2
    <2>5. a = 1 => e = d
      BY <2>1 DEF e
    <2> QED BY <2>2, <2>3, <2>4, <2>5
  <1> HIDE DEF e
  <1> QED BY <1>2, <1>3 DEF Min

\* What a function with a finite domain gives is a finite set.
LEMMA FiniteImage ==
  ASSUME NEW D, IsFiniteSet(D), NEW f, f = [q \in D |-> f[q]],
         NEW T, \A y \in T : \E q \in D : y = f[q], \A q \in D : f[q] \in T
  PROVE  IsFiniteSet(T)
  <1>1. f \in [D -> T]
    OBVIOUS
  <1>2. f \in Surjection(D, T)
    BY <1>1 DEF Surjection
  <1> QED BY <1>2, FS_Surjection

-----------------------------------------------------------------------------
(* The vectors made of the map: their positions and the keys of the map    *)
(* correspond.                                                             *)

FiniteMap(map) == IsFiniteSet(DOMAIN map) /\ DOMAIN map \subseteq Nat \X Nat \X Nat

\* The key of position p.
KeyAt(map, p) ==
  LET n == NodeIds(map)[p[1]]
      l == LlcIds(map, n)[p[2]]
  IN  <<n, l, CoreIds(map, n, l)[p[3]]>>

\* The ids f gives for the keys of A: each once, in some order.
LEMMA IdsParts ==
  ASSUME NEW A, IsFiniteSet(A), NEW f, f = [q \in A |-> f[q]],
         \A q \in A : f[q] \in Nat, NEW T,
         \A y \in T : \E q \in A : y = f[q], \A q \in A : f[q] \in T
  PROVE  /\ \E m \in Nat : Ordered(T) \in [1..m -> Nat]
         /\ \A a, b \in DOMAIN Ordered(T) : Ordered(T)[a] = Ordered(T)[b] => a = b
         /\ \A q \in A : \E a \in DOMAIN Ordered(T) : Ordered(T)[a] = f[q]
         /\ \A a \in DOMAIN Ordered(T) : Ordered(T)[a] \in T
  <1>1. IsFiniteSet(T) /\ T \subseteq Nat
    BY FiniteImage
  <1>2. /\ Cardinality(T) \in Nat /\ Ordered(T) \in [1..Cardinality(T) -> T]
        /\ \A a, b \in 1..Cardinality(T) : Ordered(T)[a] = Ordered(T)[b] => a = b
        /\ \A e \in T : \E a \in 1..Cardinality(T) : Ordered(T)[a] = e
    BY <1>1, OrderedParts
  <1>3. Ordered(T) \in [1..Cardinality(T) -> Nat] /\ DOMAIN Ordered(T) = 1..Cardinality(T)
    BY <1>1, <1>2
  <1>4. \A a \in 1..Cardinality(T) : Ordered(T)[a] \in T
    BY <1>2
  <1> QED BY <1>2, <1>3, <1>4

LEMMA NodeIdsParts ==
  ASSUME NEW map, FiniteMap(map)
  PROVE  /\ \E m \in Nat : NodeIds(map) \in [1..m -> Nat]
         /\ \A a, b \in DOMAIN NodeIds(map) : NodeIds(map)[a] = NodeIds(map)[b] => a = b
         /\ \A q \in DOMAIN map : \E a \in DOMAIN NodeIds(map) : NodeIds(map)[a] = q[1]
  <1> DEFINE A == DOMAIN map
             f == [q \in A |-> q[1]]
             T == {q[1] : q \in A}
  <1>1. IsFiniteSet(A) /\ \A q \in A : f[q] \in Nat
    BY DEF FiniteMap
  <1>2. /\ f = [q \in A |-> f[q]] /\ \A y \in T : \E q \in A : y = f[q]
        /\ \A q \in A : f[q] \in T
    OBVIOUS
  <1>3. NodeIds(map) = Ordered(T) /\ \A q \in A : f[q] = q[1]
    BY DEF NodeIds
  <1> HIDE DEF A, f, T
  <1>4. /\ \E m \in Nat : Ordered(T) \in [1..m -> Nat]
        /\ \A a, b \in DOMAIN Ordered(T) : Ordered(T)[a] = Ordered(T)[b] => a = b
        /\ \A q \in A : \E a \in DOMAIN Ordered(T) : Ordered(T)[a] = f[q]
    BY <1>1, <1>2, IdsParts
  <1> QED BY <1>3, <1>4 DEF A

LEMMA LlcIdsParts ==
  ASSUME NEW map, FiniteMap(map), NEW n
  PROVE  /\ \E m \in Nat : LlcIds(map, n) \in [1..m -> Nat]
         /\ \A a, b \in DOMAIN LlcIds(map, n) : LlcIds(map, n)[a] = LlcIds(map, n)[b] => a = b
         /\ \A q \in DOMAIN map :
              q[1] = n => \E a \in DOMAIN LlcIds(map, n) : LlcIds(map, n)[a] = q[2]
  <1> DEFINE A == {p \in DOMAIN map : p[1] = n}
             f == [q \in A |-> q[2]]
             T == {q[2] : q \in A}
  <1>1. IsFiniteSet(A) /\ \A q \in A : f[q] \in Nat
    <2>1. IsFiniteSet(DOMAIN map) /\ A \in SUBSET DOMAIN map
      BY DEF FiniteMap
    <2>2. \A q \in A : f[q] \in Nat
      BY DEF FiniteMap
    <2> HIDE DEF A
    <2> QED BY <2>1, <2>2, FS_Subset
  <1>2. /\ f = [q \in A |-> f[q]] /\ \A y \in T : \E q \in A : y = f[q]
        /\ \A q \in A : f[q] \in T
    OBVIOUS
  <1>3. LlcIds(map, n) = Ordered(T) /\ \A q \in A : f[q] = q[2]
    BY DEF LlcIds
  <1>4. \A q \in DOMAIN map : q[1] = n => q \in A
    OBVIOUS
  <1> HIDE DEF A, f, T
  <1>5. /\ \E m \in Nat : Ordered(T) \in [1..m -> Nat]
        /\ \A a, b \in DOMAIN Ordered(T) : Ordered(T)[a] = Ordered(T)[b] => a = b
        /\ \A q \in A : \E a \in DOMAIN Ordered(T) : Ordered(T)[a] = f[q]
    BY <1>1, <1>2, IdsParts
  <1>6. \A q \in A : \E a \in DOMAIN Ordered(T) : Ordered(T)[a] = q[2]
    BY <1>3, <1>5
  <1> HIDE DEF LlcIds
  <1>7. \A q \in DOMAIN map : q[1] = n => \E a \in DOMAIN Ordered(T) : Ordered(T)[a] = q[2]
    BY <1>4, <1>6
  <1> QED BY <1>3, <1>5, <1>7

LEMMA CoreIdsParts ==
  ASSUME NEW map, FiniteMap(map), NEW n, NEW l
  PROVE  /\ \E m \in Nat : CoreIds(map, n, l) \in [1..m -> Nat]
         /\ \A a, b \in DOMAIN CoreIds(map, n, l) :
              CoreIds(map, n, l)[a] = CoreIds(map, n, l)[b] => a = b
         /\ \A q \in DOMAIN map : q[1] = n /\ q[2] = l =>
              \E a \in DOMAIN CoreIds(map, n, l) : CoreIds(map, n, l)[a] = q[3]
         /\ \A a \in DOMAIN CoreIds(map, n, l) : <<n, l, CoreIds(map, n, l)[a]>> \in DOMAIN map
  <1> DEFINE A == {p \in DOMAIN map : p[1] = n /\ p[2] = l}
             f == [q \in A |-> q[3]]
             T == {q[3] : q \in A}
  <1>1. IsFiniteSet(A) /\ \A q \in A : f[q] \in Nat
    <2>1. IsFiniteSet(DOMAIN map) /\ A \in SUBSET DOMAIN map
      BY DEF FiniteMap
    <2>2. \A q \in A : f[q] \in Nat
      BY DEF FiniteMap
    <2> HIDE DEF A
    <2> QED BY <2>1, <2>2, FS_Subset
  <1>2. /\ f = [q \in A |-> f[q]] /\ \A y \in T : \E q \in A : y = f[q]
        /\ \A q \in A : f[q] \in T
    OBVIOUS
  <1>3. CoreIds(map, n, l) = Ordered(T) /\ \A q \in A : f[q] = q[3]
    BY DEF CoreIds
  <1>4. \A q \in DOMAIN map : q[1] = n /\ q[2] = l => q \in A
    OBVIOUS
  <1>5. \A c \in T : <<n, l, c>> \in DOMAIN map
    <2> SUFFICES ASSUME NEW q \in DOMAIN map, q[1] = n, q[2] = l
                 PROVE  <<n, l, q[3]>> \in DOMAIN map
      OBVIOUS
    <2>1. q \in Nat \X Nat \X Nat
      BY DEF FiniteMap
    <2>2. q = <<q[1], q[2], q[3]>>
      BY <2>1
    <2> QED BY <2>2
  <1> HIDE DEF A, f, T
  <1>6. /\ \E m \in Nat : Ordered(T) \in [1..m -> Nat]
        /\ \A a, b \in DOMAIN Ordered(T) : Ordered(T)[a] = Ordered(T)[b] => a = b
        /\ \A q \in A : \E a \in DOMAIN Ordered(T) : Ordered(T)[a] = f[q]
        /\ \A a \in DOMAIN Ordered(T) : Ordered(T)[a] \in T
    BY <1>1, <1>2, IdsParts
  <1>7. \A q \in A : \E a \in DOMAIN Ordered(T) : Ordered(T)[a] = q[3]
    BY <1>3, <1>6
  <1>8. \A q \in DOMAIN map :
          q[1] = n /\ q[2] = l => \E a \in DOMAIN Ordered(T) : Ordered(T)[a] = q[3]
    BY <1>4, <1>7
  <1>9. \A a \in DOMAIN Ordered(T) : <<n, l, Ordered(T)[a]>> \in DOMAIN map
    BY <1>5, <1>6
  <1>10. /\ \E m \in Nat : CoreIds(map, n, l) \in [1..m -> Nat]
         /\ \A a, b \in DOMAIN CoreIds(map, n, l) :
              CoreIds(map, n, l)[a] = CoreIds(map, n, l)[b] => a = b
    BY <1>3, <1>6
  <1>11. \A a \in DOMAIN CoreIds(map, n, l) : <<n, l, CoreIds(map, n, l)[a]>> \in DOMAIN map
    BY <1>3, <1>9
  <1>12. \A q \in DOMAIN map : q[1] = n /\ q[2] = l =>
              \E a \in DOMAIN CoreIds(map, n, l) : CoreIds(map, n, l)[a] = q[3]
    BY <1>3, <1>8
  <1> QED BY <1>10, <1>11, <1>12

\* p starts with a position of the nested vectors.
InVectors(nodes, p) ==
  /\ p[1] \in DOMAIN nodes
  /\ p[2] \in DOMAIN nodes[p[1]]
  /\ p[3] \in DOMAIN nodes[p[1]][p[2]]

LEMMA NodesShape ==
  ASSUME NEW map, FiniteMap(map)
  PROVE  /\ DOMAIN NodesOf(map) = DOMAIN NodeIds(map)
         /\ \A n \in DOMAIN NodeIds(map) :
              LET node == NodeIds(map)[n]
              IN  /\ DOMAIN NodesOf(map)[n] = DOMAIN LlcIds(map, node)
                  /\ \A l \in DOMAIN LlcIds(map, node) :
                       LET llc == LlcIds(map, node)[l]
                       IN  /\ DOMAIN NodesOf(map)[n][l] = DOMAIN CoreIds(map, node, llc)
                           /\ \A c \in DOMAIN CoreIds(map, node, llc) :
                                NodesOf(map)[n][l][c] = map[<<node, llc, CoreIds(map, node, llc)[c]>>]
  BY DEF NodesOf

LEMMA NodesType ==
  ASSUME NEW map, FiniteMap(map), NEW V, \A q \in DOMAIN map : map[q] \in V
  PROVE  NodesOf(map) \in Seq(Seq(Seq(V)))
  <1> DEFINE T == NodesOf(map)
             N == NodeIds(map)
             L(n) == LlcIds(map, n)
             C(n, l) == CoreIds(map, n, l)
             llc_group(n, l) == [c \in DOMAIN C(n, l) |-> map[<<n, l, C(n, l)[c]>>]]
             node(n) == [l \in DOMAIN L(n) |-> llc_group(n, L(n)[l])]
  <1>1. T = [n \in DOMAIN N |-> node(N[n])]
    BY DEF NodesOf
  <1>2. \A n, l : llc_group(n, l) \in Seq(V)
    <2> TAKE n, l
    <2>1. PICK m \in Nat : C(n, l) \in [1..m -> Nat]
      BY NodeIdsParts, LlcIdsParts, CoreIdsParts
    <2>2. \A c \in DOMAIN C(n, l) : map[<<n, l, C(n, l)[c]>>] \in V
      BY NodeIdsParts, LlcIdsParts, CoreIdsParts
    <2>3. llc_group(n, l) \in [1..m -> V]
      BY <2>1, <2>2
    <2> HIDE DEF llc_group
    <2> QED BY <2>3
  <1> HIDE DEF llc_group
  <1>3. \A n : node(n) \in Seq(Seq(V))
    <2> TAKE n
    <2>1. PICK m \in Nat : L(n) \in [1..m -> Nat]
      BY NodeIdsParts, LlcIdsParts, CoreIdsParts
    <2> QED BY <1>2, <2>1
  <1> HIDE DEF node
  <1>4. PICK m \in Nat : N \in [1..m -> Nat]
    BY NodeIdsParts, LlcIdsParts, CoreIdsParts
  <1> QED BY <1>1, <1>3, <1>4

\* A position holds what the map has at its key.
LEMMA KeyHolds ==
  ASSUME NEW map, FiniteMap(map), NEW p, InVectors(NodesOf(map), p)
  PROVE  /\ KeyAt(map, p) \in DOMAIN map
         /\ NodesOf(map)[p[1]][p[2]][p[3]] = map[KeyAt(map, p)]
  <1> DEFINE n == NodeIds(map)[p[1]]
             l == LlcIds(map, n)[p[2]]
  <1>1. p[1] \in DOMAIN NodeIds(map)
    BY NodesShape DEF InVectors
  <1>2. p[2] \in DOMAIN LlcIds(map, n)
    BY <1>1, NodesShape DEF InVectors
  <1>3. p[3] \in DOMAIN CoreIds(map, n, l)
    BY <1>1, <1>2, NodesShape DEF InVectors
  <1>4. NodesOf(map)[p[1]][p[2]][p[3]] = map[<<n, l, CoreIds(map, n, l)[p[3]]>>]
    BY <1>1, <1>2, <1>3, NodesShape
  <1>5. <<n, l, CoreIds(map, n, l)[p[3]]>> \in DOMAIN map
    BY <1>3, NodeIdsParts, LlcIdsParts, CoreIdsParts
  <1> QED BY <1>4, <1>5 DEF KeyAt

\* Positions are in the same node, the same LLC group and the same core when
\* their keys are.
LEMMA KeysAgree ==
  ASSUME NEW map, FiniteMap(map), NEW p, NEW u,
         InVectors(NodesOf(map), p), InVectors(NodesOf(map), u)
  PROVE  LET a == KeyAt(map, p)
             b == KeyAt(map, u)
         IN  /\ a[1] = b[1] <=> p[1] = u[1]
             /\ a[1] = b[1] /\ a[2] = b[2] <=> p[1] = u[1] /\ p[2] = u[2]
             /\ a = b <=> p[1] = u[1] /\ p[2] = u[2] /\ p[3] = u[3]
  <1> DEFINE n == NodeIds(map)[p[1]]
             l == LlcIds(map, n)[p[2]]
             c == CoreIds(map, n, l)[p[3]]
             n2 == NodeIds(map)[u[1]]
             l2 == LlcIds(map, n2)[u[2]]
             c2 == CoreIds(map, n2, l2)[u[3]]
  <1>1. p[1] \in DOMAIN NodeIds(map) /\ u[1] \in DOMAIN NodeIds(map)
    BY NodesShape DEF InVectors
  <1>2. p[2] \in DOMAIN LlcIds(map, n) /\ u[2] \in DOMAIN LlcIds(map, n2)
    BY <1>1, NodesShape DEF InVectors
  <1>3. p[3] \in DOMAIN CoreIds(map, n, l) /\ u[3] \in DOMAIN CoreIds(map, n2, l2)
    BY <1>1, <1>2, NodesShape DEF InVectors
  <1>4. n = n2 <=> p[1] = u[1]
    BY <1>1, NodeIdsParts, LlcIdsParts, CoreIdsParts
  <1>5. n = n2 /\ l = l2 <=> p[1] = u[1] /\ p[2] = u[2]
    <2>1. ASSUME n = n2 PROVE l = l2 => p[2] = u[2]
      <3>1. \A a, b \in DOMAIN LlcIds(map, n) :
              LlcIds(map, n)[a] = LlcIds(map, n)[b] => a = b
        BY NodeIdsParts, LlcIdsParts, CoreIdsParts
      <3> QED BY <1>2, <2>1, <3>1
    <2> QED BY <1>4, <2>1
  <1>6. n = n2 /\ l = l2 /\ c = c2 <=> p[1] = u[1] /\ p[2] = u[2] /\ p[3] = u[3]
    BY <1>3, <1>5, NodeIdsParts, LlcIdsParts, CoreIdsParts
  <1>7. KeyAt(map, p) = <<n, l, c>> /\ KeyAt(map, u) = <<n2, l2, c2>>
    BY DEF KeyAt
  <1> HIDE DEF n, l, c, n2, l2, c2
  <1> QED BY <1>4, <1>5, <1>6, <1>7

\* Every key has a position.
LEMMA KeyFound ==
  ASSUME NEW map, FiniteMap(map), NEW q \in DOMAIN map
  PROVE  \E n, l, c : InVectors(NodesOf(map), <<n, l, c>>) /\ KeyAt(map, <<n, l, c>>) = q
  <1>1. q = <<q[1], q[2], q[3]>>
    BY DEF FiniteMap
  <1>2. PICK n \in DOMAIN NodeIds(map) : NodeIds(map)[n] = q[1]
    BY NodeIdsParts, LlcIdsParts, CoreIdsParts
  <1> DEFINE a == q[1]
             b == q[2]
  <1>3. /\ \E l \in DOMAIN LlcIds(map, a) : LlcIds(map, a)[l] = q[2]
        /\ \E c \in DOMAIN CoreIds(map, a, b) : CoreIds(map, a, b)[c] = q[3]
    <2>1. q[1] = a /\ q[2] = b
      OBVIOUS
    <2> HIDE DEF a, b
    <2>2. \E l \in DOMAIN LlcIds(map, a) : LlcIds(map, a)[l] = q[2]
      BY <2>1, LlcIdsParts
    <2>3. \E c \in DOMAIN CoreIds(map, a, b) : CoreIds(map, a, b)[c] = q[3]
      BY <2>1, CoreIdsParts
    <2> QED BY <2>2, <2>3
  <1>4. PICK l \in DOMAIN LlcIds(map, a) : LlcIds(map, a)[l] = q[2]
    BY <1>3
  <1>5. PICK c \in DOMAIN CoreIds(map, a, b) : CoreIds(map, a, b)[c] = q[3]
    BY <1>3
  <1>6. KeyAt(map, <<n, l, c>>) = q
    BY <1>1, <1>2, <1>4, <1>5 DEF KeyAt
  <1>7. InVectors(NodesOf(map), <<n, l, c>>)
    BY <1>2, <1>4, <1>5, NodesShape DEF InVectors
  <1> QED BY <1>6, <1>7

-----------------------------------------------------------------------------
(* Types.                                                                  *)

LEMMA HardwareParts ==
  ASSUME TypeOK, NEW c \in Cpus
  PROVE  /\ hw[c].capacity \in Nat /\ hw[c].node \in Nat /\ hw[c].core \in Nat
         /\ hw[c].llc \in Nat \cup {NoLlc} /\ NoLlc \notin Nat /\ c \in Nat
         /\ IsFiniteSet(Cpus) /\ GroupSize \in Nat \ {0}
  <1>1. hw \in HardwareType
    BY TopologyAssumption DEF TypeOK
  <1> QED BY <1>1, TopologyAssumption DEF HardwareType

\* What is typed, action by action: the variables of the build.
ThreadsTyped(map) == \A q \in DOMAIN map : q \in Nat \X Nat \X Nat /\ map[q] \in CoreType

LEMMA MapTyped == ASSUME TypeOK PROVE ThreadsTyped(topo)
  BY DEF TypeOK, ThreadsTyped

LEMMA WithTyped ==
  ASSUME NEW map, ThreadsTyped(map), NEW key \in Nat \X Nat \X Nat, NEW core \in CoreType
  PROVE  ThreadsTyped(With(map, key, core))
  BY DEF ThreadsTyped, With

LEMMA TierNat == ASSUME IsFiniteSet(capacities), NEW cap PROVE Tier(cap) \in Nat
  <1>1. {c \in capacities : c > cap} \in SUBSET capacities
    OBVIOUS
  <1> QED BY <1>1, FS_Subset, FS_CardinalityType DEF Tier

LEMMA FiledTyped ==
  ASSUME TypeOK, EntriesLeft, IsFiniteSet(capacities)
  PROVE  Filed(Key) \in CoreType /\ Key \in Nat \X Nat \X Nat
  <1>1. ThreadsAt(Key) \in Seq(ThreadType)
    BY MapTyped DEF ThreadsTyped, ThreadsAt, CoreType
  <1>2. cpu_entries[x] \in Cpus \X Nat
    BY DEF TypeOK, EntriesLeft
  <1>3. Cpu \in Nat /\ Capacity \in Nat
    BY <1>2, TopologyAssumption DEF Cpu, Capacity
  <1>4. /\ Len(ThreadsAt(Key)) \in Nat /\ core_id \in Nat
        /\ Key \in Nat \X Nat \X Nat
    BY <1>1 DEF TypeOK, Key
  <1>5. Append(ThreadsAt(Key), [thread_index |-> Len(ThreadsAt(Key)), core_id |-> core_id,
                                os_id |-> Cpu, group_id |-> 0]) \in Seq(ThreadType)
    <2>1. [thread_index |-> Len(ThreadsAt(Key)), core_id |-> core_id,
           os_id |-> Cpu, group_id |-> 0] \in ThreadType
      BY <1>3, <1>4 DEF ThreadType
    <2> QED BY <1>1, <2>1
  <1> QED BY <1>4, <1>5, TierNat DEF Filed, CoreType

LEMMA MaskOrdered ==
  ASSUME TypeOK, NEW mask, mask \subseteq Cpus
  PROVE  /\ IsFiniteSet(mask) /\ mask \subseteq Nat
         /\ Cardinality(mask) \in Nat
         /\ mask # {} => Cardinality(mask) # 0
         /\ Ordered(mask) \in [1..Cardinality(mask) -> mask]
         /\ DOMAIN Ordered(mask) = 1..Cardinality(mask)
         /\ \A a, b \in DOMAIN Ordered(mask) : Ordered(mask)[a] = Ordered(mask)[b] => a = b
         /\ \A e \in mask : \E a \in DOMAIN Ordered(mask) : Ordered(mask)[a] = e
  <1>1. IsFiniteSet(mask) /\ mask \subseteq Nat
    <2>1. IsFiniteSet(Cpus) /\ Cpus \subseteq Nat
      BY TopologyAssumption
    <2> QED BY <2>1, FS_Subset
  <1>2. mask # {} => Cardinality(mask) # 0
    BY <1>1, FS_EmptySet
  <1>3. /\ Cardinality(mask) \in Nat /\ Ordered(mask) \in [1..Cardinality(mask) -> mask]
        /\ \A a, b \in 1..Cardinality(mask) : Ordered(mask)[a] = Ordered(mask)[b] => a = b
        /\ \A e \in mask : \E a \in 1..Cardinality(mask) : Ordered(mask)[a] = e
    BY <1>1, OrderedParts
  <1>4. DOMAIN Ordered(mask) = 1..Cardinality(mask)
    BY <1>3
  <1> QED BY <1>1, <1>2, <1>3, <1>4

LEMMA RecordTyped ==
  ASSUME TypeOK, NEW r, r.mask \subseteq Cpus, r.efficiency_class \in Nat
  PROVE  LET cs == Ordered(r.mask)
         IN  /\ FiledRecord(r, cs) \in CoreType
             /\ RecordKey(cs) \in Nat \X Nat \X Nat
  <1> DEFINE cs == Ordered(r.mask)
  <1> DEFINE m == Cardinality(r.mask)
  <1>1. m \in Nat /\ cs \in [1..m -> r.mask]
    BY MaskOrdered
  <1>2. \A k \in 1..m : cs[k] \in Nat
    BY <1>1, MaskOrdered
  <1>3. core_counter \in Nat /\ GroupSize \in Nat \ {0}
    BY TopologyAssumption DEF TypeOK
  <1>4. /\ \A c : PlaceOf(cpu_to_numa, c) \in Nat
        /\ \A c : PlaceOf(cpu_to_llc, c) \in Nat
    BY DEF TypeOK, PlaceOf
  <1> HIDE DEF cs, m
  <1>5. RecordKey(cs) \in Nat \X Nat \X Nat
    BY <1>3, <1>4 DEF RecordKey
  <1> DEFINE th(k) == [thread_index |-> k - 1, core_id |-> core_counter,
                       os_id |-> cs[k] % GroupSize, group_id |-> cs[k] \div GroupSize]
  <1>6. \A k \in 1..m : th(k) \in ThreadType
    <2> SUFFICES ASSUME NEW k \in 1..m PROVE th(k) \in ThreadType
      OBVIOUS
    <2>1. cs[k] % GroupSize \in Nat /\ cs[k] \div GroupSize \in Nat
      BY <1>2, <1>3
    <2>2. k - 1 \in Nat
      BY <1>1
    <2> QED BY <1>3, <2>1, <2>2 DEF ThreadType
  <1>7. FiledRecord(r, cs) = [core_id |-> core_counter, perf_level |-> r.efficiency_class,
                              threads |-> [k \in DOMAIN cs |-> th(k)]]
    BY DEF FiledRecord
  <1> HIDE DEF th
  <1>8. [k \in DOMAIN cs |-> th(k)] \in Seq(ThreadType)
    <2>1. [k \in DOMAIN cs |-> th(k)] \in [1..m -> ThreadType]
      BY <1>1, <1>6
    <2> QED BY <1>1, <2>1
  <1>9. FiledRecord(r, cs) \in CoreType
    BY <1>3, <1>7, <1>8 DEF CoreType
  <1> QED BY <1>5, <1>9 DEF cs

LEMMA CapacitiesFinite ==
  ASSUME TypeOK
  PROVE  LET S == {e[2] : e \in Range(cpu_entries)} IN IsFiniteSet(S) /\ S \subseteq Nat
  <1> DEFINE D == DOMAIN cpu_entries
             f == [a \in D |-> cpu_entries[a][2]]
             S == {e[2] : e \in Range(cpu_entries)}
  <1>1. IsFiniteSet(D)
    <2>1. D = 1..Len(cpu_entries) /\ Len(cpu_entries) \in Nat
      BY DEF TypeOK
    <2> QED BY <2>1, FS_Interval
  <1>2. /\ f = [a \in D |-> f[a]] /\ \A y \in S : \E a \in D : y = f[a]
        /\ \A a \in D : f[a] \in S
    BY DEF Range
  <1>3. S \subseteq Nat
    BY DEF TypeOK, Range
  <1> HIDE DEF D, f, S
  <1>4. IsFiniteSet(S)
    BY <1>1, <1>2, FiniteImage
  <1> QED BY <1>3, <1>4 DEF S

LEMMA TreeTyped ==
  ASSUME NEW map, ThreadsTyped(map), IsFiniteSet(DOMAIN map)
  PROVE  FiniteMap(map) /\ NodesOf(map) \in Seq(Seq(Seq(CoreType)))
  <1>1. FiniteMap(map) /\ \A q \in DOMAIN map : map[q] \in CoreType
    BY DEF FiniteMap, ThreadsTyped
  <1> QED BY <1>1, NodesType

\* The variables that only the versions for the other systems use.
LEMMA LinuxTypes ==
  ASSUME TypeOK, TopologyInv, OnLinux(LinuxBuild), UNCHANGED platform PROVE TypeOK'
  <1> USE DEF machine, linuxVars, entries, reads, windowsVars, snapshot, counters, macVars
  <1>0. /\ UNCHANGED <<windowsVars, macVars>> /\ platform = "linux" /\ LinuxInv
        /\ IsFiniteSet(capacities)
    BY DEF OnLinux, TopologyInv, MachineInv
  <1>1. CASE ListCpu
    <2>1. PICK c \in unlisted :
            /\ cpu_entries' = Append(cpu_entries, <<c, SysCapacity(c)>>)
            /\ unlisted' = unlisted \ {c}
      BY <1>1 DEF ListCpu
    <2>2. c \in Cpus
      BY DEF TypeOK
    <2>3. SysCapacity(c) \in Nat
      BY <2>2, HardwareParts DEF SysCapacity, DefaultCapacity
    <2>4. cpu_entries' \in Seq(Cpus \X Nat) /\ unlisted' \subseteq Cpus
      BY <2>1, <2>2, <2>3 DEF TypeOK
    <2>5. UNCHANGED <<machine, pc, x, capacities, topo, tree, reads>>
      BY <1>1 DEF ListCpu
    <2> QED BY <1>0, <2>4, <2>5 DEF TypeOK
  <1>2. CASE SkipGone
    <2>1. unlisted' \subseteq Cpus
      BY <1>2 DEF SkipGone, TypeOK
    <2>2. UNCHANGED <<machine, pc, x, capacities, topo, tree, cpu_entries, reads>>
      BY <1>2 DEF SkipGone
    <2> QED BY <1>0, <2>1, <2>2 DEF TypeOK
  <1>3. CASE Rank
    <2>1. /\ capacities' = {e[2] : e \in Range(cpu_entries)}
          /\ tree' = [tree EXCEPT !.perf_level_count = Cardinality(capacities')]
          /\ pc' = "node" /\ UNCHANGED <<machine, x, topo, linuxVars>>
      BY <1>3 DEF Rank
    <2>2. capacities' \subseteq Nat /\ IsFiniteSet(capacities')
      BY <2>1, CapacitiesFinite
    <2>3. Cardinality(capacities') \in Nat
      BY <2>2, FS_CardinalityType
    <2>4. tree'.numa_nodes = tree.numa_nodes
          /\ tree'.perf_level_count = Cardinality(capacities')
      BY <2>1
    <2> QED BY <1>0, <2>1, <2>2, <2>3, <2>4 DEF TypeOK
  <1>4. CASE ReadNode
    <2>1. Cpu \in Cpus
      BY <1>4 DEF ReadNode, Cpu, EntriesLeft, TypeOK
    <2>2. node_id' \in Nat
      BY <1>4, <2>1, HardwareParts DEF ReadNode
    <2>3. /\ pc' \in {"terminated", "core"}
          /\ UNCHANGED <<machine, x, capacities, topo, tree, entries, core_id, llc_id>>
      BY <1>4 DEF ReadNode, AfterNode
    <2> QED BY <1>0, <2>2, <2>3 DEF TypeOK
  <1>5. CASE ReadCore
    <2>1. Cpu \in Cpus
      BY <1>0, <1>5 DEF ReadCore, LinuxInv, EntriesInv, EntriesLeft, Cpu, TypeOK
    <2>2. core_id' \in Nat
      BY <1>5, <2>1, HardwareParts DEF ReadCore, SysCore
    <2>3. /\ pc' = "llc"
          /\ UNCHANGED <<machine, x, capacities, topo, tree, entries, node_id, llc_id>>
      BY <1>5 DEF ReadCore
    <2> QED BY <1>0, <2>2, <2>3 DEF TypeOK
  <1>6. CASE ReadLlc
    <2>1. Cpu \in Cpus
      BY <1>0, <1>6 DEF ReadLlc, LinuxInv, EntriesInv, EntriesLeft, Cpu, TypeOK
    <2>2. llc_id' \in Nat
      BY <1>6, <2>1, HardwareParts DEF ReadLlc, SysLlc
    <2>3. /\ pc' = "insert"
          /\ UNCHANGED <<machine, x, capacities, topo, tree, entries, node_id, core_id>>
      BY <1>6 DEF ReadLlc
    <2> QED BY <1>0, <2>2, <2>3 DEF TypeOK
  <1>7. CASE Insert
    <2>1. EntriesLeft
      BY <1>0, <1>7 DEF Insert, LinuxInv, EntriesInv
    <2>2. /\ topo' = With(topo, Key, Filed(Key)) /\ x' = x + 1 /\ pc' = "node"
          /\ UNCHANGED <<machine, capacities, tree, linuxVars>>
      BY <1>7 DEF Insert
    <2>3. ThreadsTyped(With(topo, Key, Filed(Key)))
      BY <1>0, <2>1, FiledTyped, MapTyped, WithTyped
    <2>4. ThreadsTyped(topo')
      BY <2>2, <2>3
    <2> QED BY <1>0, <2>2, <2>4 DEF TypeOK, ThreadsTyped
  <1>8. CASE Emit
    <2>1. /\ tree' = [tree EXCEPT !.numa_nodes = NodesOf(topo)] /\ pc' = "done"
          /\ UNCHANGED <<machine, x, capacities, topo, linuxVars>>
      BY <1>8 DEF Emit
    <2>2. NodesOf(topo) \in Seq(Seq(Seq(CoreType)))
      BY <1>0, MapTyped, TreeTyped DEF LinuxInv, FiledOnce
    <2>3. /\ tree'.perf_level_count = tree.perf_level_count
          /\ tree'.numa_nodes \in Seq(Seq(Seq(CoreType)))
      BY <2>1, <2>2
    <2> QED BY <1>0, <2>1, <2>3 DEF TypeOK
  <1> QED BY <1>1, <1>2, <1>3, <1>4, <1>5, <1>6, <1>7, <1>8 DEF OnLinux, LinuxBuild

LEMMA WindowsTypes ==
  ASSUME TypeOK, TopologyInv, OnWindows(WindowsBuild), UNCHANGED platform PROVE TypeOK'
  <1> USE DEF machine, linuxVars, entries, reads, windowsVars, snapshot, counters, macVars
  <1>0. /\ UNCHANGED <<linuxVars, macVars>> /\ platform = "windows" /\ WindowsInv
        /\ IsFiniteSet(capacities)
    BY DEF OnWindows, TopologyInv, MachineInv
  <1>1. CASE AskLength
    BY <1>0, <1>1 DEF AskLength, TypeOK
  <1>2. CASE Fetch
    <2>1. unread' \subseteq buffer' /\ pc' \in {"done", "places"}
      BY <1>2 DEF Fetch, Description, TypeOK
    <2>2. UNCHANGED <<machine, x, capacities, topo, tree, cpu_to_numa, cpu_to_llc, counters>>
      BY <1>2 DEF Fetch
    <2> QED BY <1>0, <2>1, <2>2 DEF TypeOK
  <1>3. CASE ReadPlace
    <2>1. PICK r \in unread :
            /\ unread' = unread \ {r}
            /\ \/ /\ r.relation = "node"
                  /\ cpu_to_numa' = Noted(cpu_to_numa, r.mask, r.node_number)
                  /\ UNCHANGED <<cpu_to_llc, llc_counter>>
               \/ /\ r.relation = "cache" /\ IsLlc(r)
                  /\ cpu_to_llc' = Noted(cpu_to_llc, r.mask, llc_counter)
                  /\ llc_counter' = llc_counter + 1
                  /\ UNCHANGED cpu_to_numa
               \/ /\ r.relation = "cache" /\ ~IsLlc(r)
                  /\ UNCHANGED <<cpu_to_numa, cpu_to_llc, llc_counter>>
      BY <1>3 DEF ReadPlace
    <2>2. UNCHANGED <<machine, pc, x, capacities, topo, tree, snapshot, core_counter>>
      BY <1>3 DEF ReadPlace
    <2>3. r \in buffer /\ r.mask \subseteq Cpus
      BY <1>0 DEF TypeOK, WindowsInv, BufferInv
    <2>4. llc_counter' \in Nat /\ unread' \subseteq buffer'
      BY <2>1, <2>2 DEF TypeOK
    <2>5. /\ DOMAIN cpu_to_numa' \subseteq Cpus
          /\ \A c \in DOMAIN cpu_to_numa' : cpu_to_numa'[c] \in Nat
      <3>1. CASE r.relation = "node"
        <4>1. cpu_to_numa' = Noted(cpu_to_numa, r.mask, r.node_number)
          BY <2>1, <3>1
        <4>2. \A c \in r.mask : r.node_number \in Nat
          BY <1>0, <2>3, <3>1, HardwareParts DEF WindowsInv, BufferInv, Of
        <4> QED BY <2>3, <4>1, <4>2 DEF Noted, TypeOK
      <3>2. CASE r.relation # "node"
        BY <2>1, <3>2 DEF TypeOK
      <3> QED BY <3>1, <3>2
    <2>6. /\ DOMAIN cpu_to_llc' \subseteq Cpus
          /\ \A c \in DOMAIN cpu_to_llc' : cpu_to_llc'[c] \in Nat
      <3>1. CASE cpu_to_llc' = Noted(cpu_to_llc, r.mask, llc_counter)
        BY <2>3, <3>1 DEF Noted, TypeOK
      <3>2. CASE cpu_to_llc' = cpu_to_llc
        BY <3>2 DEF TypeOK
      <3> QED BY <2>1, <3>1, <3>2
    <2> QED BY <1>0, <2>2, <2>4, <2>5, <2>6 DEF TypeOK
  <1>4. CASE PlacesRead
    BY <1>0, <1>4 DEF PlacesRead, TypeOK, Of
  <1>5. CASE ReadCoreRecord
    <2>1. PICK r \in unread :
            /\ unread' = unread \ {r}
            /\ capacities' = capacities \cup {r.efficiency_class}
            /\ topo' = With(topo, RecordKey(Ordered(r.mask)), FiledRecord(r, Ordered(r.mask)))
      BY <1>5 DEF ReadCoreRecord
    <2>2. /\ core_counter' = core_counter + 1 /\ pc = "cores"
          /\ UNCHANGED <<machine, pc, x, tree, snapshot, cpu_to_numa, cpu_to_llc, llc_counter>>
      BY <1>5 DEF ReadCoreRecord
    <2>3. r \in Of({"core"})
      BY <1>0, <2>2 DEF WindowsInv, NotedInv
    <2>4. r.mask \subseteq Cpus /\ r.efficiency_class \in Nat
      BY <1>0, <2>3 DEF WindowsInv, BufferInv, Of
    <2>5. ThreadsTyped(With(topo, RecordKey(Ordered(r.mask)), FiledRecord(r, Ordered(r.mask))))
      BY <2>4, RecordTyped, MapTyped, WithTyped
    <2>6. ThreadsTyped(topo')
      BY <2>1, <2>5
    <2>7. unread' \subseteq buffer' /\ capacities' \subseteq Nat /\ core_counter' \in Nat
      <3>1. unread \subseteq buffer /\ capacities \subseteq Nat /\ core_counter \in Nat
        BY DEF TypeOK
      <3>2. buffer' = buffer
        BY <2>2
      <3>3. unread' \subseteq buffer'
        BY <2>1, <3>1, <3>2
      <3>4. capacities' \subseteq Nat
        BY <2>1, <2>4, <3>1
      <3>5. core_counter' \in Nat
        BY <2>2, <3>1
      <3> QED BY <3>3, <3>4, <3>5
    <2> QED BY <1>0, <2>2, <2>6, <2>7 DEF TypeOK, ThreadsTyped
  <1>6. CASE RankAndEmit
    <2>1. /\ topo' = [q \in DOMAIN topo |->
                        [topo[q] EXCEPT !.perf_level = Tier(topo[q].perf_level)]]
          /\ tree' = [numa_nodes |-> NodesOf(topo'), perf_level_count |-> Cardinality(capacities)]
          /\ pc' = "done" /\ UNCHANGED <<machine, x, capacities, windowsVars>>
      BY <1>6 DEF RankAndEmit
    <2>2. ThreadsTyped(topo')
      <3> SUFFICES ASSUME NEW q \in DOMAIN topo
                   PROVE  q \in Nat \X Nat \X Nat /\ topo'[q] \in CoreType
        BY <2>1 DEF ThreadsTyped
      <3>1. topo[q] \in CoreType /\ q \in Nat \X Nat \X Nat
        BY MapTyped DEF ThreadsTyped
      <3>2. Tier(topo[q].perf_level) \in Nat
        BY <1>0, TierNat
      <3> QED BY <2>1, <3>1, <3>2 DEF CoreType
    <2>3. DOMAIN topo' = DOMAIN topo /\ IsFiniteSet(DOMAIN topo')
      BY <1>0, <2>1 DEF WindowsInv, FiledOnce
    <2>4. NodesOf(topo') \in Seq(Seq(Seq(CoreType)))
      BY <2>2, <2>3, TreeTyped
    <2>5. Cardinality(capacities) \in Nat
      BY <1>0, FS_CardinalityType
    <2> QED BY <1>0, <2>1, <2>2, <2>4, <2>5 DEF TypeOK, ThreadsTyped
  <1> QED BY <1>1, <1>2, <1>3, <1>4, <1>5, <1>6 DEF OnWindows, WindowsBuild

LEMMA MacTypes ==
  ASSUME TypeOK, TopologyInv, OnMac(MacBuild), UNCHANGED platform PROVE TypeOK'
  <1> USE DEF machine, linuxVars, entries, reads, windowsVars, snapshot, counters, macVars
  <1>0. /\ UNCHANGED <<linuxVars, windowsVars>> /\ platform = "mac" /\ MacInv
        /\ counts \in Seq(Nat)
    BY MacAssumption DEF OnMac, TopologyInv
  <1>1. CASE AddLevel
    <2>1. /\ llc_groups' = Append(llc_groups,
                             [i \in 1..counts[x] |-> MadeUpCore(gid + i - 1, x - 1)])
          /\ gid' = gid + counts[x] /\ x' = x + 1 /\ LevelTold
          /\ UNCHANGED <<machine, pc, capacities, topo, tree, counts>>
      BY <1>1 DEF AddLevel
    <2>2. counts[x] \in Nat /\ x \in Nat \ {0} /\ gid \in Nat
      BY <1>0, <2>1 DEF LevelTold, TypeOK
    <2>3. \A i \in 1..counts[x] : MadeUpCore(gid + i - 1, x - 1) \in CoreType
      <3> SUFFICES ASSUME NEW i \in 1..counts[x]
                   PROVE  MadeUpCore(gid + i - 1, x - 1) \in CoreType
        OBVIOUS
      <3>1. gid + i - 1 \in Nat /\ x - 1 \in Nat
        BY <2>2
      <3> DEFINE id == gid + i - 1
      <3> HIDE DEF id
      <3>2. <<[thread_index |-> 0, core_id |-> id, os_id |-> id, group_id |-> 0]>>
              \in Seq(ThreadType)
        BY <3>1 DEF ThreadType, id
      <3> QED BY <3>1, <3>2 DEF MadeUpCore, CoreType, id
    <2> DEFINE added == [i \in 1..counts[x] |-> MadeUpCore(gid + i - 1, x - 1)]
    <2>4. added \in Seq(CoreType)
      BY <2>2, <2>3
    <2> HIDE DEF added
    <2>5. Append(llc_groups, added) \in Seq(Seq(CoreType))
      BY <2>4 DEF TypeOK
    <2>6. llc_groups' \in Seq(Seq(CoreType)) /\ gid' \in Nat /\ x' \in Nat \ {0}
      BY <2>1, <2>2, <2>5 DEF added
    <2> QED BY <1>0, <2>1, <2>6 DEF TypeOK
  <1>2. CASE LevelsTold
    <2>1. /\ tree' = [numa_nodes |-> <<llc_groups>>, perf_level_count |-> Len(llc_groups)]
          /\ pc' = "done" /\ UNCHANGED <<machine, x, capacities, topo, macVars>>
      BY <1>2 DEF LevelsTold
    <2>2. <<llc_groups>> \in Seq(Seq(Seq(CoreType))) /\ Len(llc_groups) \in Nat
      BY DEF TypeOK
    <2> QED BY <1>0, <2>1, <2>2 DEF TypeOK
  <1> QED BY <1>1, <1>2 DEF OnMac, MacBuild

LEMMA HotplugTypes ==
  ASSUME TypeOK, Hotplug PROVE TypeOK'
  <1> USE DEF machine, linuxVars, entries, reads, windowsVars, snapshot, counters, macVars
  <1>1. /\ UNCHANGED <<platform, linuxVars, windowsVars, macVars>>
        /\ \E states \in {{"online", "offline", "gone"}, {"online"}} : ChangesTo(states)
    BY DEF Hotplug, OnLinux, OnWindows, LinuxHotplug, WindowsHotplug
  <1>2. PICK states \in {{"online", "offline", "gone"}, {"online"}} : ChangesTo(states)
    BY <1>1
  <1>3. PICK c \in Cpus, s \in states :
          status' = [status EXCEPT ![c] = s] /\ touched' = touched \cup {c}
    BY <1>2 DEF ChangesTo
  <1>4. /\ hotplugs < MaxHotplug /\ hotplugs' = hotplugs + 1
        /\ UNCHANGED <<hw, pc, x, capacities, topo, tree>>
    BY <1>2 DEF ChangesTo
  <1>5. s \in {"online", "offline", "gone"}
    BY <1>2
  <1>6. status' \in [Cpus -> {"online", "offline", "gone"}] /\ touched' \subseteq Cpus
    BY <1>3, <1>5 DEF TypeOK
  <1>7. hotplugs' \in 0..MaxHotplug
    BY <1>4, TopologyAssumption DEF TypeOK
  <1> QED BY <1>1, <1>4, <1>6, <1>7 DEF TypeOK

LEMMA TypesKept == ASSUME TypeOK, TopologyInv, [Next]_vars PROVE TypeOK'
  <1>1. CASE Build
    BY <1>1, LinuxTypes, WindowsTypes, MacTypes DEF Build
  <1>2. CASE Hotplug
    BY <1>2, HotplugTypes
  <1>3. CASE UNCHANGED vars
    BY <1>3 DEF vars, TypeOK, machine, linuxVars, entries, reads, windowsVars, snapshot,
                counters, macVars
  <1> QED BY <1>1, <1>2, <1>3 DEF Next, Terminating

-----------------------------------------------------------------------------
(* Filing a core.                                                          *)

\* The CPUs of S2 are those of the core filed; none of them is elsewhere.
LEMMA FileCore ==
  ASSUME NEW map, NEW S, FiledOnce(map, S), NEW key, NEW core, NEW S2,
         core.core_id = key[3],
         \A r \in DOMAIN core.threads : /\ core.threads[r].thread_index = r - 1
                                        /\ core.threads[r].core_id = key[3]
                                        /\ CpuIn(core.threads[r]) \in S2,
         \A r, s \in DOMAIN core.threads :
           CpuIn(core.threads[r]) = CpuIn(core.threads[s]) => r = s,
         \A c \in S2 : \E r \in DOMAIN core.threads : CpuIn(core.threads[r]) = c,
         \A u \in DOMAIN map : \A r \in DOMAIN map[u].threads :
           CpuIn(map[u].threads[r]) \in S2 <=> u = key
  PROVE  FiledOnce(With(map, key, core), S \cup S2)
  <1> DEFINE new == With(map, key, core)
  <1>1. /\ DOMAIN new = DOMAIN map \cup {key} /\ new[key] = core
        /\ \A u \in DOMAIN map : u # key => new[u] = map[u]
    BY DEF With
  <1> HIDE DEF new
  <1>2. IsFiniteSet(DOMAIN new)
    BY <1>1, FS_AddElement DEF FiledOnce
  <1>3. \A q \in DOMAIN new : new[q].core_id = q[3]
    BY <1>1 DEF FiledOnce
  <1>4. ASSUME NEW q \in DOMAIN new, NEW r \in DOMAIN new[q].threads
        PROVE  /\ new[q].threads[r].thread_index = r - 1
               /\ new[q].threads[r].core_id = q[3]
               /\ CpuIn(new[q].threads[r]) \in S \cup S2
               /\ CpuIn(new[q].threads[r]) \in S2 <=> q = key
    <2>1. CASE q = key
      BY <1>1, <2>1
    <2>2. CASE q # key
      <3>1. q \in DOMAIN map /\ new[q] = map[q]
        BY <1>1, <2>2
      <3>2. /\ map[q].threads[r].thread_index = r - 1
            /\ map[q].threads[r].core_id = q[3]
            /\ CpuIn(map[q].threads[r]) \in S
        BY <3>1 DEF FiledOnce
      <3>3. CpuIn(map[q].threads[r]) \notin S2
        BY <2>2, <3>1
      <3> QED BY <2>2, <3>1, <3>2, <3>3
    <2> QED BY <2>1, <2>2
  <1>5. ASSUME NEW q \in DOMAIN new, NEW u \in DOMAIN new,
               NEW r \in DOMAIN new[q].threads, NEW s \in DOMAIN new[u].threads,
               CpuIn(new[q].threads[r]) = CpuIn(new[u].threads[s])
        PROVE  q = u /\ r = s
    <2>1. q = key <=> u = key
      BY <1>4, <1>5
    <2>2. CASE q = key
      BY <1>1, <1>5, <2>1, <2>2
    <2>3. CASE q # key
      <3>1. q \in DOMAIN map /\ u \in DOMAIN map /\ new[q] = map[q] /\ new[u] = map[u]
        BY <1>1, <2>1, <2>3
      <3> QED BY <1>5, <3>1 DEF FiledOnce
    <2> QED BY <2>2, <2>3
  <1>6. ASSUME NEW c \in S \cup S2
        PROVE  \E q \in DOMAIN new : \E r \in DOMAIN new[q].threads :
                 CpuIn(new[q].threads[r]) = c
    <2>1. CASE c \in S2
      BY <1>1, <2>1
    <2>2. CASE c \notin S2
      <3>1. PICK q \in DOMAIN map : \E r \in DOMAIN map[q].threads :
                                      CpuIn(map[q].threads[r]) = c
        BY <2>2 DEF FiledOnce
      <3>2. PICK r \in DOMAIN map[q].threads : CpuIn(map[q].threads[r]) = c
        BY <3>1
      <3>3. q # key
        BY <2>2, <3>2
      <3> QED BY <1>1, <3>2, <3>3
    <2> QED BY <2>1, <2>2
  <1> QED BY <1>2, <1>3, <1>4, <1>5, <1>6 DEF FiledOnce, new

-----------------------------------------------------------------------------
(* The invariant.                                                          *)

LEMMA NothingFiled ==
  ASSUME topo = <<>>
  PROVE  FiledOnce(topo, {}) /\ DOMAIN topo = {} /\ NodesOf(topo) = <<>>
  <1>1. DOMAIN topo = {} /\ IsFiniteSet({})
    BY FS_EmptySet
  <1>2. FiledOnce(topo, {})
    BY <1>1 DEF FiledOnce
  <1>3. NodeIds(topo) = Ordered({})
    BY <1>1 DEF NodeIds
  <1>4. DOMAIN NodeIds(topo) = {}
    BY <1>1, <1>3, OrderedParts, FS_EmptySet
  <1>5. NodesOf(topo) = <<>>
    BY <1>4 DEF NodesOf
  <1> QED BY <1>1, <1>2, <1>5

LEMMA InitInv == Init => TypeOK /\ TopologyInv
  <1> SUFFICES ASSUME Init PROVE TypeOK /\ TopologyInv
    OBVIOUS
  <1> USE DEF MachineInit, TreeInit, LinuxInit, WindowsInit, MacInit
  <1>1. TypeOK
    <2>1. /\ platform \in Platforms
          /\ hw \in Hardware /\ status \in [Cpus -> {"online", "offline", "gone"}]
          /\ hotplugs \in 0..MaxHotplug /\ touched \subseteq Cpus
      BY TopologyAssumption DEF Init
    <2>2. pc \in {"list", "length", "levels", "done"}
      BY PlatformsAssumption DEF Init
    <2>3. /\ unlisted \subseteq Cpus /\ cpu_entries \in Seq(Cpus \X Nat)
          /\ capacities \subseteq Nat /\ x \in Nat \ {0}
          /\ node_id \in Nat /\ core_id \in Nat /\ llc_id \in Nat
          /\ unread \subseteq buffer /\ llc_counter \in Nat /\ core_counter \in Nat
          /\ gid \in Nat /\ llc_groups \in Seq(Seq(CoreType))
      BY DEF Init
    <2>4. tree.numa_nodes \in Seq(Seq(Seq(CoreType))) /\ tree.perf_level_count \in Nat
      BY DEF Init
    <2>5. DOMAIN cpu_to_numa = {} /\ DOMAIN cpu_to_llc = {} /\ DOMAIN topo = {}
      BY DEF Init
    <2> QED BY <2>1, <2>2, <2>3, <2>4, <2>5 DEF TypeOK
  <1>2. MachineInv
    BY FS_EmptySet DEF Init, MachineInv, Online
  <1>3. /\ topo = <<>> /\ x = 1 /\ capacities = {} /\ cpu_entries = <<>>
        /\ tree.numa_nodes = <<>> /\ tree.perf_level_count = 0
        /\ pc = "done" => platform = "other"
    BY PlatformsAssumption DEF Init
  <1>4. FiledOnce(topo, {}) /\ DOMAIN topo = {} /\ NodesOf(topo) = <<>>
    BY <1>3, NothingFiled
  <1>5. TreeInv
    BY <1>3, <1>4 DEF TreeInv
  <1>6. ASSUME platform = "linux" PROVE LinuxInv
    <2>1. pc = "list" /\ unlisted = Cpus
      BY <1>6 DEF Init
    <2>2. FiledBefore = {}
      BY <1>3 DEF FiledBefore
    <2>3. EntriesInv
      BY <1>3, <2>1 DEF EntriesInv
    <2> QED BY <1>3, <1>4, <2>1, <2>2, <2>3 DEF LinuxInv, PlacesInv, LinuxLevels
  <1>7. ASSUME platform = "windows" PROVE WindowsInv
    <2>1. /\ pc = "length" /\ buffer = {} /\ unread = {}
          /\ cpu_to_numa = <<>> /\ cpu_to_llc = <<>>
      BY <1>7 DEF Init
    <2>2. BufferInv
      BY <2>1 DEF BufferInv, Of, L3
    <2>3. NotedInv
      BY <2>1 DEF NotedInv, Of, L3
    <2>4. RecordsInv /\ WindowsLevels
      BY <1>3, <1>4, <2>1 DEF RecordsInv, WindowsLevels
    <2>5. CpusRead = {}
      BY <2>1 DEF CpusRead
    <2> QED BY <1>3, <1>4, <2>1, <2>2, <2>3, <2>4, <2>5 DEF WindowsInv
  <1>8. ASSUME platform = "mac" PROVE MacInv /\ counts \in LevelCounts
    <2>1. pc = "levels" /\ llc_groups = <<>> /\ gid = 0 /\ counts \in LevelCounts
      BY <1>8 DEF Init
    <2> QED BY <1>3, <2>1 DEF MacInv
  <1>9. platform = "other" => OtherInv
    BY <1>3, PlatformsAssumption DEF Init, OtherInv
  <1> QED BY <1>1, <1>2, <1>5, <1>6, <1>7, <1>8, <1>9 DEF TopologyInv


\* A capacity that was found has a level that is counted.
LEMMA TierCounted ==
  ASSUME TypeOK, MachineInv, NEW cap \in capacities
  PROVE  Tier(cap) \in Nat /\ Tier(cap) < Cardinality(capacities)
  <1>1. IsFiniteSet(capacities) /\ capacities \subseteq Nat
    BY DEF TypeOK, MachineInv
  <1>2. Cardinality(capacities) \in Nat
    BY <1>1, FS_CardinalityType
  <1>3. Above(capacities, cap) \in 0..(Cardinality(capacities) - 1)
    BY <1>1, Ranking
  <1>4. Tier(cap) = Above(capacities, cap)
    BY DEF Tier, Above
  <1> QED BY <1>2, <1>3, <1>4

-----------------------------------------------------------------------------
(* Linux.                                                                  *)

LEMMA ListCpuInv ==
  ASSUME TypeOK, TopologyInv, OnLinux(ListCpu), UNCHANGED platform PROVE TopologyInv'
  <1> USE DEF machine, reads
  <1>1. /\ platform = "linux" /\ platform' = "linux" /\ pc = "list"
        /\ MachineInv /\ TreeInv /\ LinuxInv
        /\ UNCHANGED <<machine, pc, x, capacities, topo, tree>>
    BY DEF TopologyInv, OnLinux, ListCpu
  <1>2. PICK c \in unlisted :
          /\ cpu_entries' = Append(cpu_entries, <<c, SysCapacity(c)>>)
          /\ unlisted' = unlisted \ {c}
    BY DEF OnLinux, ListCpu
  <1> DEFINE n == Len(cpu_entries)
  <1>3. /\ c \in Cpus /\ n \in Nat /\ DOMAIN cpu_entries = 1..n
        /\ Len(cpu_entries') = n + 1 /\ DOMAIN cpu_entries' = 1..(n + 1)
        /\ \A a \in 1..n : cpu_entries'[a] = cpu_entries[a]
        /\ cpu_entries'[n + 1] = <<c, SysCapacity(c)>>
    BY <1>2 DEF TypeOK
  <1> HIDE DEF n
  <1>4. MachineInv' /\ TreeInv'
    BY <1>1 DEF MachineInv, TreeInv, Online
  <1>5. /\ x = 1 /\ topo = <<>>
        /\ \A a \in 1..n : cpu_entries[a][1] \in Cpus \ unlisted
        /\ \A a, b \in 1..n : cpu_entries[a][1] = cpu_entries[b][1] => a = b
    BY <1>1, <1>3 DEF LinuxInv, EntriesInv
  <1>6. EntriesInv'
    <2>1. \A a \in 1..(n + 1) : cpu_entries'[a][1] \in Cpus \ unlisted'
      BY <1>2, <1>3, <1>5
    <2>2. \A a, b \in 1..(n + 1) : cpu_entries'[a][1] = cpu_entries'[b][1] => a = b
      <3> SUFFICES ASSUME NEW a \in 1..(n + 1), NEW b \in 1..(n + 1),
                          cpu_entries'[a][1] = cpu_entries'[b][1]
                   PROVE  a = b
        OBVIOUS
      <3>1. \A e \in 1..n : cpu_entries'[e][1] # c
        BY <1>3, <1>5
      <3>2. (a \in 1..n \/ a = n + 1) /\ (b \in 1..n \/ b = n + 1)
        BY <1>3
      <3>3. cpu_entries'[n + 1][1] = c
        BY <1>3
      <3> QED BY <1>3, <1>5, <3>1, <3>2, <3>3
    <2> QED BY <1>1, <1>3, <1>5, <2>1, <2>2 DEF EntriesInv
  <1>7. DOMAIN topo' = {} /\ FiledBefore' = {} /\ FiledOnce(topo, FiledBefore)'
    <2>1. FiledOnce(topo, {}) /\ DOMAIN topo = {}
      BY <1>5, NothingFiled
    <2>2. FiledBefore' = {}
      BY <1>1, <1>5 DEF FiledBefore
    <2> QED BY <1>1, <2>1, <2>2 DEF FiledOnce
  <1>8. LinuxLevels'
    <2>1. SUFFICES ASSUME touched = {}, NEW a \in 1..(n + 1)
                   PROVE  cpu_entries'[a][2] = hw[cpu_entries'[a][1]].capacity
      BY <1>1, <1>3, <1>7 DEF LinuxLevels
    <2>2. SysCapacity(c) = hw[c].capacity
      BY <1>1, <1>3, <2>1 DEF SysCapacity, MachineInv
    <2>3. a \in 1..n \/ a = n + 1
      BY <1>3
    <2> QED BY <1>1, <1>3, <2>1, <2>2, <2>3 DEF LinuxInv, LinuxLevels
  <1>9. PlacesInv'
    BY <1>7 DEF PlacesInv
  <1>10. LinuxInv'
    BY <1>1, <1>6, <1>7, <1>8, <1>9 DEF LinuxInv
  <1> QED BY <1>1, <1>4, <1>10 DEF TopologyInv

LEMMA SkipGoneInv ==
  ASSUME TypeOK, TopologyInv, OnLinux(SkipGone), UNCHANGED platform PROVE TopologyInv'
  <1> USE DEF machine, reads
  <1>1. /\ platform = "linux" /\ platform' = "linux" /\ pc = "list"
        /\ MachineInv /\ TreeInv /\ LinuxInv /\ unlisted' \subseteq unlisted
        /\ UNCHANGED <<machine, pc, x, capacities, topo, tree, cpu_entries>>
    BY DEF TopologyInv, OnLinux, SkipGone
  <1>2. MachineInv' /\ TreeInv'
    BY <1>1 DEF MachineInv, TreeInv, Online
  <1>3. EntriesInv'
    BY <1>1 DEF LinuxInv, EntriesInv
  <1>4. FiledBefore' = FiledBefore
    BY <1>1 DEF FiledBefore
  <1>5. FiledOnce(topo, FiledBefore)'
    BY <1>1, <1>4 DEF LinuxInv, FiledOnce
  <1>6. PlacesInv' /\ LinuxLevels'
    BY <1>1 DEF LinuxInv, PlacesInv, LinuxLevels, HonestCores, LlcRead, Tier
  <1> QED BY <1>1, <1>2, <1>3, <1>5, <1>6 DEF TopologyInv, LinuxInv

LEMMA RankInv ==
  ASSUME TypeOK, TopologyInv, OnLinux(Rank), UNCHANGED platform PROVE TopologyInv'
  <1> USE DEF machine, linuxVars, entries, reads
  <1>1. /\ platform = "linux" /\ platform' = "linux" /\ pc = "list" /\ pc' = "node"
        /\ MachineInv /\ TreeInv /\ LinuxInv
        /\ capacities' = {e[2] : e \in Range(cpu_entries)}
        /\ tree' = [tree EXCEPT !.perf_level_count = Cardinality(capacities')]
        /\ UNCHANGED <<machine, x, topo, linuxVars>>
    BY DEF TopologyInv, OnLinux, Rank
  <1>2. tree'.numa_nodes = tree.numa_nodes
        /\ tree'.perf_level_count = Cardinality(capacities')
    BY <1>1 DEF TreeInv
  <1>3. IsFiniteSet(capacities')
    BY <1>1, CapacitiesFinite
  <1>4. MachineInv' /\ TreeInv'
    BY <1>1, <1>2, <1>3 DEF MachineInv, TreeInv, Online
  <1>5. EntriesInv'
    BY <1>1, <1>2 DEF LinuxInv, EntriesInv, EntriesLeft
  <1>6. DOMAIN topo' = {} /\ FiledBefore' = FiledBefore
    BY <1>1, NothingFiled DEF LinuxInv, EntriesInv, FiledBefore
  <1>7. FiledOnce(topo, FiledBefore)'
    BY <1>1, <1>6 DEF LinuxInv, FiledOnce
  <1>8. PlacesInv' /\ LinuxLevels'
    BY <1>1, <1>6 DEF LinuxInv, PlacesInv, LinuxLevels
  <1> QED BY <1>1, <1>4, <1>5, <1>7, <1>8 DEF TopologyInv, LinuxInv

\* The steps of the second pass that leave the map alone.
LEMMA PassKept ==
  ASSUME TypeOK, TopologyInv, platform = "linux", pc \in {"node", "core", "llc"}, EntriesLeft,
         pc' \in {"core", "llc", "insert", "terminated"},
         UNCHANGED <<platform, machine, x, capacities, topo, tree, entries>>,
         pc' \in {"core", "llc", "insert"} => ReadsInv'
  PROVE  TopologyInv'
  <1> USE DEF machine, entries
  <1>1. MachineInv /\ TreeInv /\ LinuxInv
    BY DEF TopologyInv
  <1>2. MachineInv' /\ TreeInv'
    BY <1>1 DEF MachineInv, TreeInv, Online
  <1>3. EntriesInv'
    BY <1>1 DEF LinuxInv, EntriesInv, EntriesLeft
  <1>4. FiledBefore' = FiledBefore
    BY DEF FiledBefore
  <1>5. FiledOnce(topo, FiledBefore)'
    BY <1>1, <1>4 DEF LinuxInv, FiledOnce
  <1>6. PlacesInv' /\ LinuxLevels'
    BY <1>1 DEF LinuxInv, PlacesInv, LinuxLevels, HonestCores, LlcRead, Tier
  <1> QED BY <1>2, <1>3, <1>5, <1>6 DEF TopologyInv, LinuxInv

LEMMA ReadInv ==
  ASSUME TypeOK, TopologyInv, OnLinux(ReadNode \/ ReadCore \/ ReadLlc), UNCHANGED platform
  PROVE  TopologyInv'
  <1> USE DEF machine, entries
  <1>1. /\ platform = "linux" /\ LinuxInv /\ MachineInv
        /\ UNCHANGED <<platform, machine, x, capacities, topo, tree, entries>>
    BY DEF TopologyInv, OnLinux, ReadNode, ReadCore, ReadLlc
  <1>2. pc \in {"node", "core", "llc"} /\ EntriesLeft
    BY <1>1 DEF OnLinux, ReadNode, ReadCore, ReadLlc, LinuxInv, EntriesInv
  <1>3. Cpu' = Cpu /\ Cpu \in Cpus
    BY <1>1, <1>2 DEF Cpu, EntriesLeft, TypeOK
  <1>4. Cpu \notin touched => Online(Cpu)
    BY <1>1, <1>3 DEF MachineInv
  <1>5. CASE ReadNode
    <2>1. /\ pc' = AfterNode(Cpu)
          /\ node_id' = IF DirectoryGone(Cpu) THEN 0 ELSE hw[Cpu].node
      BY <1>5 DEF ReadNode
    <2>2. pc' \in {"core", "terminated"}
      BY <2>1 DEF AfterNode
    <2>3. ReadsInv'
      BY <1>1, <1>3, <1>4, <2>1, <2>2 DEF ReadsInv, DirectoryGone, Online
    <2> QED BY <1>1, <1>2, <2>2, <2>3, PassKept
  <1>6. CASE ReadCore
    <2>1. /\ pc = "core" /\ core_id' = SysCore(Cpu) /\ pc' = "llc" /\ node_id' = node_id
      BY <1>6 DEF ReadCore
    <2>2. ReadsInv
      BY <1>1, <2>1 DEF LinuxInv
    <2>3. ReadsInv'
      BY <1>1, <1>3, <1>4, <2>1, <2>2 DEF ReadsInv, SysCore
    <2> QED BY <1>1, <1>2, <2>1, <2>3, PassKept
  <1>7. CASE ReadLlc
    <2>1. /\ pc = "llc" /\ llc_id' = SysLlc(Cpu) /\ pc' = "insert"
          /\ node_id' = node_id /\ core_id' = core_id
      BY <1>7 DEF ReadLlc
    <2>2. ReadsInv
      BY <1>1, <2>1 DEF LinuxInv
    <2>3. ReadsInv'
      BY <1>1, <1>3, <1>4, <2>1, <2>2 DEF ReadsInv, SysLlc, LlcRead
    <2> QED BY <1>1, <1>2, <2>1, <2>3, PassKept
  <1> QED BY <1>5, <1>6, <1>7 DEF OnLinux

LEMMA EmitInv ==
  ASSUME TypeOK, TopologyInv, OnLinux(Emit), UNCHANGED platform PROVE TopologyInv'
  <1> USE DEF machine, linuxVars, entries, reads
  <1>1. /\ platform = "linux" /\ platform' = "linux" /\ pc = "node" /\ pc' = "done"
        /\ MachineInv /\ TreeInv /\ LinuxInv /\ ~EntriesLeft
        /\ tree' = [tree EXCEPT !.numa_nodes = NodesOf(topo)]
        /\ UNCHANGED <<machine, x, capacities, topo, linuxVars>>
    BY DEF TopologyInv, OnLinux, Emit
  <1>2. /\ tree'.numa_nodes = NodesOf(topo')
        /\ tree'.perf_level_count = tree.perf_level_count
    BY <1>1
  <1>3. MachineInv' /\ TreeInv'
    <2>1. UNCHANGED <<status, touched, capacities>> /\ MachineInv
      BY <1>1
    <2>2. MachineInv'
      BY ONLY <2>1 DEF MachineInv, Online
    <2>3. NodesOf(topo)' = NodesOf(topo')
      BY DEF NodesOf, NodeIds, LlcIds, CoreIds, Ordered
    <2>4. pc' = "done" /\ tree'.numa_nodes = NodesOf(topo)'
      BY <1>1, <1>2, <2>3
    <2>5. TreeInv'
      BY ONLY <2>4 DEF TreeInv
    <2> QED BY <2>2, <2>5
  <1>4. EntriesInv'
    BY <1>1, <1>2 DEF LinuxInv, EntriesInv, EntriesLeft
  <1>5. FiledBefore' = FiledBefore
    BY <1>1 DEF FiledBefore
  <1>6. FiledOnce(topo, FiledBefore)'
    BY <1>1, <1>5 DEF LinuxInv, FiledOnce
  <1>7. PlacesInv' /\ LinuxLevels'
    BY <1>1 DEF LinuxInv, PlacesInv, LinuxLevels, HonestCores, LlcRead, Tier
  <1> QED BY <1>1, <1>3, <1>4, <1>6, <1>7 DEF TopologyInv, LinuxInv


\* What is filed for entry x: the threads of the core so far, and the CPU.
LEMMA FiledParts ==
  ASSUME TypeOK, EntriesLeft
  PROVE  LET ts == ThreadsAt(Key)
             new == Filed(Key).threads
             n == Len(ts)
         IN  /\ n \in Nat /\ DOMAIN ts = 1..n /\ DOMAIN new = 1..(n + 1)
             /\ \A r \in 1..n : new[r] = ts[r]
             /\ new[n + 1].thread_index = n /\ new[n + 1].core_id = core_id
             /\ CpuIn(new[n + 1]) = Cpu
             /\ Filed(Key).core_id = core_id /\ Filed(Key).perf_level = Tier(Capacity)
  <1> DEFINE ts == ThreadsAt(Key)
             n == Len(ts)
             th == [thread_index |-> n, core_id |-> core_id, os_id |-> Cpu, group_id |-> 0]
  <1>1. ts \in Seq(ThreadType)
    BY MapTyped DEF ThreadsTyped, ThreadsAt, CoreType
  <1>2. /\ Filed(Key).threads = Append(ts, th)
        /\ Filed(Key).core_id = core_id /\ Filed(Key).perf_level = Tier(Capacity)
    BY DEF Filed
  <1>3. cpu_entries[x] \in Cpus \X Nat /\ GroupSize \in Nat
    BY TopologyAssumption DEF TypeOK, EntriesLeft
  <1>4. CpuIn(th) = Cpu
    <2>1. Cpu \in Nat
      BY <1>3, TopologyAssumption DEF Cpu
    <2> HIDE DEF n
    <2> QED BY <1>3, <2>1 DEF CpuIn
  <1>5. th.thread_index = n /\ th.core_id = core_id
    OBVIOUS
  <1> HIDE DEF ts, th
  <1>6. /\ n \in Nat /\ DOMAIN ts = 1..n /\ DOMAIN Append(ts, th) = 1..(n + 1)
        /\ \A r \in 1..n : Append(ts, th)[r] = ts[r]
        /\ Append(ts, th)[n + 1] = th
    BY <1>1
  <1> QED BY <1>2, <1>4, <1>5, <1>6 DEF ts

LEMMA InsertInv ==
  ASSUME TypeOK, TopologyInv, OnLinux(Insert), UNCHANGED platform PROVE TopologyInv'
  <1> USE DEF machine, linuxVars, entries
  <1>1. /\ platform = "linux" /\ platform' = "linux" /\ pc = "insert" /\ pc' = "node"
        /\ MachineInv /\ TreeInv /\ LinuxInv
        /\ topo' = With(topo, Key, Filed(Key)) /\ x' = x + 1
        /\ UNCHANGED <<machine, capacities, tree, cpu_entries, unlisted>>
    BY DEF TopologyInv, OnLinux, Insert
  <1>2. EntriesLeft /\ EntriesInv /\ ReadsInv /\ FiledOnce(topo, FiledBefore)
        /\ PlacesInv /\ LinuxLevels
    BY <1>1 DEF LinuxInv, EntriesInv
  <1> DEFINE ts == ThreadsAt(Key)
             new == Filed(Key).threads
             n == Len(ts)
             S2 == {CpuIn(new[r]) : r \in DOMAIN new}
  <1>3. /\ n \in Nat /\ DOMAIN ts = 1..n /\ DOMAIN new = 1..(n + 1)
        /\ \A r \in 1..n : new[r] = ts[r]
        /\ new[n + 1].thread_index = n /\ new[n + 1].core_id = core_id
        /\ CpuIn(new[n + 1]) = Cpu
        /\ Filed(Key).core_id = core_id /\ Filed(Key).perf_level = Tier(Capacity)
    BY <1>2, FiledParts
  <1>4. Key[3] = core_id /\ Key = <<node_id, llc_id, core_id>>
    BY DEF Key
  <1>5. /\ DOMAIN cpu_entries = 1..Len(cpu_entries) /\ Len(cpu_entries) \in Nat
        /\ x \in 1..Len(cpu_entries)
        /\ \A a \in DOMAIN cpu_entries : cpu_entries[a] \in Cpus \X Nat
    BY <1>2 DEF TypeOK, EntriesLeft
  <1>6. Cpu \in Cpus /\ Cpu = cpu_entries[x][1] /\ Capacity = cpu_entries[x][2]
        /\ Capacity \in capacities
    <2>1. Capacity \in {e[2] : e \in Range(cpu_entries)}
      BY <1>5 DEF Capacity, Range
    <2> QED BY <1>1, <1>2, <1>5, <2>1 DEF Cpu, Capacity, EntriesInv
  <1>7. Cpu \notin FiledBefore /\ FiledBefore \subseteq Cpus
        /\ FiledBefore' = FiledBefore \cup {Cpu}
    <2>1. Cpu \notin FiledBefore
      BY <1>2, <1>5, <1>6 DEF FiledBefore, EntriesInv
    <2>2. FiledBefore \subseteq Cpus
      BY <1>5 DEF FiledBefore
    <2>3. FiledBefore' = {cpu_entries[a][1] : a \in 1..x}
      <3>1. x' - 1 = x
        BY <1>1, <1>5
      <3> QED BY <1>1, <3>1 DEF FiledBefore
    <2>4. 1..x = 1..(x - 1) \cup {x}
      BY <1>5
    <2> QED BY <1>6, <2>1, <2>2, <2>3, <2>4 DEF FiledBefore
  <1>8. /\ DOMAIN topo' = DOMAIN topo \cup {Key} /\ topo'[Key] = Filed(Key)
        /\ \A u \in DOMAIN topo : u # Key => topo'[u] = topo[u]
    BY <1>1 DEF With
  <1>9. \A r \in 1..n : Key \in DOMAIN topo /\ ts = topo[Key].threads
                        /\ r \in DOMAIN topo[Key].threads
    BY <1>3 DEF ThreadsAt
  <1> HIDE DEF ts, new, n, S2
  <1>10. \A r \in 1..n : /\ ts[r].thread_index = r - 1 /\ ts[r].core_id = core_id
                         /\ CpuIn(ts[r]) \in FiledBefore
    BY <1>2, <1>4, <1>9 DEF FiledOnce
  <1>11. \A r \in 1..(n + 1) : r \in 1..n \/ r = n + 1
    BY <1>3
  <1>12. FiledOnce(topo', FiledBefore')
    <2>1. \A r \in DOMAIN new : /\ new[r].thread_index = r - 1
                                /\ new[r].core_id = Key[3]
                                /\ CpuIn(new[r]) \in S2
      <3> SUFFICES ASSUME NEW r \in 1..(n + 1)
                   PROVE  new[r].thread_index = r - 1 /\ new[r].core_id = Key[3]
        BY <1>3 DEF S2
      <3>1. CASE r \in 1..n
        BY <1>3, <1>4, <1>10, <3>1
      <3>2. CASE r = n + 1
        BY <1>3, <1>4, <3>2
      <3> QED BY <1>11, <3>1, <3>2
    <2>2. \A r, s \in DOMAIN new : CpuIn(new[r]) = CpuIn(new[s]) => r = s
      <3> SUFFICES ASSUME NEW r \in 1..(n + 1), NEW s \in 1..(n + 1),
                          CpuIn(new[r]) = CpuIn(new[s])
                   PROVE  r = s
        BY <1>3
      <3>1. CASE r \in 1..n /\ s \in 1..n
        <4>1. new[r] = ts[r] /\ new[s] = ts[s] /\ ts = topo[Key].threads
              /\ Key \in DOMAIN topo /\ r \in DOMAIN topo[Key].threads
              /\ s \in DOMAIN topo[Key].threads
          BY <1>3, <1>9, <3>1
        <4>2. CpuIn(topo[Key].threads[r]) = CpuIn(topo[Key].threads[s])
          BY <4>1
        <4> QED BY <1>2, <4>1, <4>2 DEF FiledOnce
      <3>2. CASE r \in 1..n /\ s = n + 1
        BY <1>3, <1>7, <1>10, <3>2
      <3>3. CASE r = n + 1 /\ s \in 1..n
        BY <1>3, <1>7, <1>10, <3>3
      <3> QED BY <1>11, <3>1, <3>2, <3>3
    <2>3. \A c \in S2 : \E r \in DOMAIN new : CpuIn(new[r]) = c
      BY DEF S2
    <2>4. \A u \in DOMAIN topo : \A r \in DOMAIN topo[u].threads :
            CpuIn(topo[u].threads[r]) \in S2 <=> u = Key
      <3> SUFFICES ASSUME NEW u \in DOMAIN topo, NEW r \in DOMAIN topo[u].threads
                   PROVE  CpuIn(topo[u].threads[r]) \in S2 <=> u = Key
        OBVIOUS
      <3>1. CASE u = Key
        <4>1. ts = topo[Key].threads
          BY <3>1 DEF ts, ThreadsAt
        <4>2. r \in 1..n /\ r \in DOMAIN new /\ new[r] = topo[u].threads[r]
          BY <1>3, <3>1, <4>1
        <4> QED BY <3>1, <4>2 DEF S2
      <3>2. ASSUME u # Key, NEW s \in 1..(n + 1), CpuIn(topo[u].threads[r]) = CpuIn(new[s])
            PROVE  FALSE
        <4>1. CASE s \in 1..n
          <5>1. new[s] = topo[Key].threads[s] /\ Key \in DOMAIN topo
                /\ s \in DOMAIN topo[Key].threads
            BY <1>3, <1>9, <4>1
          <5> QED BY <1>2, <3>2, <5>1 DEF FiledOnce
        <4>2. CASE s = n + 1
          <5>1. CpuIn(topo[u].threads[r]) \in FiledBefore
            BY <1>2 DEF FiledOnce
          <5> QED BY <1>3, <1>7, <3>2, <4>2, <5>1
        <4> QED BY <1>11, <4>1, <4>2
      <3> QED BY <1>3, <3>1, <3>2 DEF S2
    <2>5. FiledOnce(With(topo, Key, Filed(Key)), FiledBefore \cup S2)
      <3> DEFINE key == Key
                 core == Filed(Key)
                 filed == FiledBefore
      <3>1. FiledOnce(topo, filed) /\ core.core_id = key[3]
        BY <1>2, <1>3, <1>4
      <3>2. \A r \in DOMAIN core.threads : /\ core.threads[r].thread_index = r - 1
                                           /\ core.threads[r].core_id = key[3]
                                           /\ CpuIn(core.threads[r]) \in S2
        BY <2>1 DEF new
      <3>3. \A r, s \in DOMAIN core.threads :
              CpuIn(core.threads[r]) = CpuIn(core.threads[s]) => r = s
        BY <2>2 DEF new
      <3>4. \A c \in S2 : \E r \in DOMAIN core.threads : CpuIn(core.threads[r]) = c
        BY <2>3 DEF new
      <3>5. \A u \in DOMAIN topo : \A r \in DOMAIN topo[u].threads :
              CpuIn(topo[u].threads[r]) \in S2 <=> u = key
        BY <2>4
      <3> HIDE DEF key, core, filed
      <3>6. FiledOnce(With(topo, key, core), filed \cup S2)
        BY ONLY <3>1, <3>2, <3>3, <3>4, <3>5, FileCore
      <3> QED BY <3>6 DEF key, core, filed
    <2>6. FiledBefore' = FiledBefore \cup S2
      <3>1. \A c \in S2 : c \in FiledBefore \/ c = Cpu
        BY <1>3, <1>10, <1>11 DEF S2
      <3>2. Cpu \in S2
        BY <1>3 DEF S2
      <3> QED BY <1>7, <3>1, <3>2
    <2> QED BY <1>1, <2>5, <2>6
  <1>13. ASSUME NEW q \in DOMAIN topo', NEW r \in DOMAIN topo'[q].threads
         PROVE  \/ /\ q \in DOMAIN topo /\ q # Key /\ topo'[q] = topo[q]
                   /\ r \in DOMAIN topo[q].threads
                \/ /\ q = Key /\ q \in DOMAIN topo /\ r \in DOMAIN topo[q].threads
                   /\ topo'[q].threads[r] = topo[q].threads[r]
                \/ q = Key /\ CpuIn(topo'[q].threads[r]) = Cpu
    <2>1. CASE q # Key
      BY <1>8, <2>1
    <2>2. CASE q = Key
      <3>1. topo'[q].threads = new /\ r \in 1..(n + 1)
        BY <1>3, <1>8, <2>2 DEF new
      <3>2. CASE r \in 1..n
        BY <1>3, <1>9, <2>2, <3>1, <3>2
      <3>3. CASE r = n + 1
        BY <1>3, <2>2, <3>1, <3>3
      <3> QED BY <1>11, <3>1, <3>2, <3>3
    <2> QED BY <2>1, <2>2
  <1>14. PlacesInv'
    <2> SUFFICES ASSUME NEW q \in DOMAIN topo', NEW r \in DOMAIN topo'[q].threads,
                        CpuIn(topo'[q].threads[r]) \notin touched
                 PROVE  LET c == CpuIn(topo'[q].threads[r])
                        IN  q = <<hw[c].node, LlcRead(c), hw[c].core>>
      BY <1>1 DEF PlacesInv, LlcRead
    <2>1. CASE q \in DOMAIN topo /\ r \in DOMAIN topo[q].threads
               /\ topo'[q].threads[r] = topo[q].threads[r]
      BY <1>2, <2>1 DEF PlacesInv
    <2>2. CASE q = Key /\ CpuIn(topo'[q].threads[r]) = Cpu
      BY <1>1, <1>2, <1>4, <2>2 DEF ReadsInv
    <2> QED BY <1>13, <2>1, <2>2
  <1>15. LinuxLevels'
    <2>1. \A q \in DOMAIN topo' : topo'[q].perf_level < Cardinality(capacities)
      <3>1. Tier(Capacity) < Cardinality(capacities)
        BY <1>1, <1>6, TierCounted
      <3> QED BY <1>2, <1>3, <1>8, <3>1 DEF LinuxLevels
    <2>2. ASSUME touched = {}
          PROVE  \A a \in DOMAIN cpu_entries :
                   cpu_entries[a][2] = hw[cpu_entries[a][1]].capacity
      BY <1>2, <2>2 DEF LinuxLevels
    <2>3. ASSUME touched = {}, HonestCores,
                 NEW q \in DOMAIN topo', NEW r \in DOMAIN topo'[q].threads
          PROVE  topo'[q].perf_level = Tier(hw[CpuIn(topo'[q].threads[r])].capacity)
      <3>1. CASE q \in DOMAIN topo /\ q # Key /\ topo'[q] = topo[q]
                 /\ r \in DOMAIN topo[q].threads
        BY <1>2, <2>3, <3>1 DEF LinuxLevels
      <3>2. CASE q = Key /\ CpuIn(topo'[q].threads[r]) = Cpu
        BY <1>3, <1>5, <1>6, <1>8, <2>2, <2>3, <3>2
      <3>3. CASE q = Key /\ q \in DOMAIN topo /\ r \in DOMAIN topo[q].threads
                 /\ topo'[q].threads[r] = topo[q].threads[r]
        <4> DEFINE c == CpuIn(topo[q].threads[r])
        <4>1. c \in Cpus
          BY <1>2, <1>7, <3>3 DEF FiledOnce
        <4>2. q = <<hw[c].node, LlcRead(c), hw[c].core>>
          BY <1>2, <2>3, <3>3 DEF PlacesInv
        <4>3. q = <<hw[Cpu].node, LlcRead(Cpu), hw[Cpu].core>>
          BY <1>1, <1>2, <1>4, <2>3, <3>3 DEF ReadsInv
        <4> HIDE DEF c
        <4>4. hw[c].capacity = hw[Cpu].capacity
          BY <1>6, <2>3, <4>1, <4>2, <4>3 DEF HonestCores
        <4>5. topo'[q].perf_level = Tier(Capacity) /\ Capacity = hw[Cpu].capacity
          BY <1>3, <1>5, <1>6, <1>8, <2>2, <2>3, <3>3
        <4> QED BY <3>3, <4>4, <4>5 DEF c
      <3> QED BY <1>13, <3>1, <3>2, <3>3
    <2> QED BY <1>1, <2>1, <2>2, <2>3 DEF LinuxLevels, HonestCores, LlcRead, Tier
  <1>16. MachineInv' /\ TreeInv'
    BY <1>1 DEF MachineInv, TreeInv, Online
  <1>17. EntriesInv'
    BY <1>1, <1>2, <1>5 DEF EntriesInv, EntriesLeft
  <1>18. FiledOnce(topo, FiledBefore)'
    BY <1>12 DEF FiledOnce
  <1> QED BY <1>1, <1>14, <1>15, <1>16, <1>17, <1>18 DEF TopologyInv, LinuxInv

LEMMA LinuxKept ==
  ASSUME TypeOK, TopologyInv, OnLinux(LinuxBuild), UNCHANGED platform PROVE TopologyInv'
  BY ListCpuInv, SkipGoneInv, RankInv, ReadInv, InsertInv, EmitInv DEF OnLinux, LinuxBuild

LEMMA HotplugKept ==
  ASSUME TypeOK, TopologyInv, Hotplug PROVE TopologyInv'
  <1> USE DEF machine, linuxVars, entries, reads, windowsVars, snapshot, counters, macVars
  <1>1. /\ UNCHANGED <<platform, linuxVars, windowsVars, macVars>>
        /\ platform \in {"linux", "windows"}
        /\ \E states \in {{"online", "offline", "gone"}, {"online"}} : ChangesTo(states)
    BY DEF Hotplug, OnLinux, OnWindows, LinuxHotplug, WindowsHotplug
  <1>2. PICK states \in {{"online", "offline", "gone"}, {"online"}} : ChangesTo(states)
    BY <1>1
  <1>3. PICK c \in Cpus, s \in states :
          status' = [status EXCEPT ![c] = s] /\ touched' = touched \cup {c}
    BY <1>2 DEF ChangesTo
  <1>4. UNCHANGED <<hw, pc, x, capacities, topo, tree>> /\ ~Stopped
    BY <1>2 DEF ChangesTo
  <1>5. MachineInv'
    BY <1>3, <1>4 DEF MachineInv, Online, TypeOK, TopologyInv
  <1>6. TreeInv'
    BY <1>1, <1>4 DEF TreeInv, Stopped, TopologyInv
  <1>7. ASSUME platform = "linux" PROVE LinuxInv'
    <2>1. LinuxInv
      BY <1>7 DEF TopologyInv
    <2>2. EntriesInv'
      BY <1>1, <1>4, <2>1 DEF LinuxInv, EntriesInv, EntriesLeft
    <2>3. FiledBefore' = FiledBefore /\ Cpu' = Cpu
      BY <1>1, <1>4 DEF FiledBefore, Cpu
    <2>4. FiledOnce(topo, FiledBefore)'
      BY <1>4, <2>1, <2>3 DEF LinuxInv, FiledOnce
    <2>5. PlacesInv'
      BY <1>3, <1>4, <2>1 DEF LinuxInv, PlacesInv, LlcRead
    <2>6. LinuxLevels'
      BY <1>3, <1>4, <2>1 DEF LinuxInv, LinuxLevels
    <2>7. ReadsInv => ReadsInv'
      BY <1>1, <1>3, <1>4, <2>3 DEF ReadsInv, LlcRead
    <2> QED BY <1>4, <2>1, <2>2, <2>4, <2>5, <2>6, <2>7 DEF LinuxInv
  <1>8. ASSUME platform = "windows" PROVE WindowsInv'
    <2>1. WindowsInv
      BY <1>8 DEF TopologyInv
    <2>2. UNCHANGED <<hw, pc, buffer, unread, cpu_to_numa, cpu_to_llc, topo, capacities,
                      tree, llc_counter, core_counter>>
      BY <1>1, <1>4
    <2>3. BufferInv' /\ NotedInv'
      BY <2>1, <2>2 DEF WindowsInv, BufferInv, NotedInv, Of, L3, HonestCores, LlcRead, HwPlace
    <2>4. RecordsInv'
      BY <2>1, <2>2 DEF WindowsInv, RecordsInv, Of, HwPlace, PlaceOf
    <2>5. CoreRecordsRead' = CoreRecordsRead
      BY <2>2 DEF CoreRecordsRead, Of
    <2>6. HonestCores' = HonestCores /\ \A cap : Tier(cap)' = Tier(cap)
      BY <2>2 DEF HonestCores, LlcRead, Tier
    <2>7. WindowsLevels'
      BY <2>1, <2>2, <2>5, <2>6 DEF WindowsInv, WindowsLevels
    <2>8. CpusRead' = CpusRead
      BY <2>2, <2>5 DEF CpusRead
    <2>9. FiledOnce(topo, CpusRead)'
      BY <2>1, <2>2, <2>8 DEF WindowsInv, FiledOnce
    <2> QED BY <2>1, <2>2, <2>3, <2>4, <2>7, <2>9 DEF WindowsInv
  <1> QED BY <1>1, <1>5, <1>6, <1>7, <1>8 DEF TopologyInv


-----------------------------------------------------------------------------
(* macOS.                                                                  *)

LEMMA AddLevelInv ==
  ASSUME TypeOK, TopologyInv, OnMac(AddLevel), UNCHANGED platform PROVE TopologyInv'
  <1> USE DEF machine
  <1> DEFINE added == [i \in 1..counts[x] |-> MadeUpCore(gid + i - 1, x - 1)]
  <1>1. /\ platform = "mac" /\ platform' = "mac" /\ pc = "levels" /\ LevelTold
        /\ MachineInv /\ TreeInv /\ MacInv /\ counts \in LevelCounts
        /\ llc_groups' = Append(llc_groups, added)
        /\ gid' = gid + counts[x] /\ x' = x + 1
        /\ UNCHANGED <<machine, pc, capacities, topo, tree, counts>>
    BY DEF TopologyInv, OnMac, AddLevel
  <1>2. counts[x] \in Nat /\ x \in Nat \ {0} /\ gid \in Nat
    BY <1>1, MacAssumption DEF LevelTold, TypeOK
  <1>3. /\ DOMAIN llc_groups = 1..(x - 1)
        /\ DOMAIN llc_groups' = 1..x /\ Len(llc_groups') = x
        /\ \A l \in 1..(x - 1) : llc_groups'[l] = llc_groups[l]
        /\ llc_groups'[x] = added
    <2>1. Len(llc_groups) = x - 1
      BY <1>1 DEF MacInv
    <2> HIDE DEF added
    <2> QED BY <1>1, <1>2, <2>1 DEF TypeOK
  <1>4. /\ DOMAIN added = 1..counts[x]
        /\ \A i \in 1..counts[x] : /\ added[i] = MadeUpCore(added[i].core_id, x - 1)
                                   /\ added[i].core_id = gid + i - 1
    BY DEF MadeUpCore
  <1> HIDE DEF added
  <1>5. \A l \in 1..x : l \in 1..(x - 1) \/ l = x
    BY <1>2
  <1>6. \A l \in 1..(x - 1) : \A i \in DOMAIN llc_groups[l] :
          /\ llc_groups[l][i] = MadeUpCore(llc_groups[l][i].core_id, l - 1)
          /\ llc_groups[l][i].core_id < gid /\ llc_groups[l][i].core_id \in Nat
    <2>1. \A l \in 1..(x - 1) : llc_groups[l] \in Seq(CoreType)
      BY <1>3 DEF TypeOK
    <2>2. \A l \in 1..(x - 1) : \A i \in DOMAIN llc_groups[l] :
            llc_groups[l][i].core_id \in Nat
      <3> SUFFICES ASSUME NEW l \in 1..(x - 1), NEW i \in DOMAIN llc_groups[l]
                   PROVE  llc_groups[l][i].core_id \in Nat
        OBVIOUS
      <3>1. llc_groups[l][i] \in CoreType
        BY <2>1
      <3> QED BY <3>1 DEF CoreType
    <2> QED BY <1>1, <1>3, <2>2 DEF MacInv
  <1>7. ASSUME NEW l \in 1..x, NEW i \in DOMAIN llc_groups'[l]
        PROVE  /\ llc_groups'[l][i] = MadeUpCore(llc_groups'[l][i].core_id, l - 1)
               /\ llc_groups'[l][i].core_id < gid'
               /\ llc_groups'[l][i].core_id \in Nat
               /\ llc_groups'[l][i].core_id < gid <=> l # x
               /\ l = x => i \in 1..counts[x] /\ llc_groups'[l][i].core_id = gid + i - 1
    <2>1. CASE l = x
      <3>1. i \in 1..counts[x] /\ llc_groups'[l][i] = added[i]
        BY <1>3, <1>4, <2>1
      <3>2. added[i].core_id = gid + i - 1 /\ added[i] = MadeUpCore(added[i].core_id, x - 1)
        BY <1>4, <3>1
      <3> QED BY <1>1, <1>2, <2>1, <3>1, <3>2
    <2>2. CASE l \in 1..(x - 1)
      <3>1. i \in DOMAIN llc_groups[l] /\ llc_groups'[l][i] = llc_groups[l][i]
        BY <1>3, <2>2
      <3>2. l # x
        BY <1>2, <2>2
      <3> QED BY <1>1, <1>2, <1>6, <2>2, <3>1, <3>2
    <2> QED BY <1>5, <2>1, <2>2
  <1>8. ASSUME NEW l \in 1..x, NEW m \in 1..x,
               NEW i \in DOMAIN llc_groups'[l], NEW k \in DOMAIN llc_groups'[m],
               llc_groups'[l][i].core_id = llc_groups'[m][k].core_id
        PROVE  l = m /\ i = k
    <2>1. l = x <=> m = x
      BY <1>7, <1>8
    <2>2. CASE l = x
      BY <1>2, <1>7, <1>8, <2>1, <2>2
    <2>3. CASE l # x
      <3>1. l \in 1..(x - 1) /\ m \in 1..(x - 1)
        BY <1>5, <2>1, <2>3
      <3> QED BY <1>1, <1>3, <1>8, <3>1 DEF MacInv
    <2> QED BY <2>2, <2>3
  <1>9. ASSUME NEW id \in 0..(gid' - 1)
        PROVE  \E l \in 1..x : \E i \in DOMAIN llc_groups'[l] : llc_groups'[l][i].core_id = id
    <2>1. CASE id < gid
      <3>1. id \in 0..(gid - 1)
        BY <1>2, <2>1
      <3>2. PICK l \in 1..(x - 1) : \E i \in DOMAIN llc_groups[l] : llc_groups[l][i].core_id = id
        BY <1>1, <1>3, <3>1 DEF MacInv
      <3>3. l \in 1..x
        BY <1>2
      <3> QED BY <1>3, <3>2, <3>3
    <2>2. CASE ~(id < gid)
      <3> DEFINE i == id - gid + 1
      <3>1. i \in 1..counts[x] /\ gid + i - 1 = id /\ x \in 1..x
        BY <1>1, <1>2, <2>2
      <3> HIDE DEF i
      <3>2. added[i].core_id = id
        BY <1>4, <3>1
      <3> QED BY <1>3, <1>4, <3>1, <3>2
    <2> QED BY <2>1, <2>2
  <1>10. x' - 1 = x
    BY <1>1, <1>2
  <1>11. MacInv'
    <2>1. \A l \in DOMAIN llc_groups' : \A i \in DOMAIN llc_groups'[l] :
            /\ llc_groups'[l][i] = MadeUpCore(llc_groups'[l][i].core_id, l - 1)
            /\ llc_groups'[l][i].core_id < gid'
      BY <1>3, <1>7
    <2>2. \A l, m \in DOMAIN llc_groups' :
            \A i \in DOMAIN llc_groups'[l], k \in DOMAIN llc_groups'[m] :
              llc_groups'[l][i].core_id = llc_groups'[m][k].core_id => l = m /\ i = k
      BY <1>3, <1>8
    <2>3. \A id \in 0..(gid' - 1) : \E l \in DOMAIN llc_groups' :
            \E i \in DOMAIN llc_groups'[l] : llc_groups'[l][i].core_id = id
      BY <1>3, <1>9
    <2>4. Len(llc_groups') = x' - 1
      BY <1>3, <1>10
    <2>5. pc' = "levels" /\ tree'.numa_nodes = <<>>
      BY <1>1 DEF MacInv
    <2> QED BY <2>1, <2>2, <2>3, <2>4, <2>5 DEF MacInv, MadeUpCore
  <1>12. MachineInv' /\ TreeInv'
    BY <1>1 DEF MachineInv, TreeInv, Online
  <1> QED BY <1>1, <1>11, <1>12 DEF TopologyInv

LEMMA MacKept ==
  ASSUME TypeOK, TopologyInv, OnMac(MacBuild), UNCHANGED platform PROVE TopologyInv'
  <1> USE DEF machine, macVars
  <1>1. CASE OnMac(AddLevel)
    BY <1>1, AddLevelInv
  <1>2. CASE OnMac(LevelsTold)
    <2>1. /\ platform = "mac" /\ platform' = "mac" /\ pc' = "done"
          /\ MachineInv /\ TreeInv /\ MacInv /\ counts \in LevelCounts
          /\ tree' = [numa_nodes |-> <<llc_groups>>, perf_level_count |-> Len(llc_groups)]
          /\ UNCHANGED <<machine, x, capacities, topo, macVars>>
      BY <1>2 DEF TopologyInv, OnMac, LevelsTold
    <2>2. MachineInv' /\ TreeInv'
      BY <2>1 DEF MachineInv, TreeInv, Online
    <2>3. MacInv'
      BY <2>1 DEF MacInv, MadeUpCore
    <2> QED BY <2>1, <2>2, <2>3 DEF TopologyInv
  <1> QED BY <1>1, <1>2 DEF OnMac, MacBuild


-----------------------------------------------------------------------------
(* Windows: the description fetched.                                       *)

LEMMA PresentParts ==
  ASSUME TypeOK, NEW c \in Present
  PROVE  c \in Cpus /\ c \in CoreMask(c) /\ CoreMask(c) \subseteq Cpus
         /\ Min(CoreMask(c)) \in CoreMask(c)
  <1>1. c \in Cpus /\ c \in CoreMask(c) /\ CoreMask(c) \subseteq Cpus
    BY DEF Present, CoreMask
  <1>2. IsFiniteSet(CoreMask(c)) /\ CoreMask(c) \subseteq Nat
    BY <1>1, MaskOrdered
  <1>3. Min(CoreMask(c)) \in CoreMask(c)
    BY <1>1, <1>2, MinIn
  <1> QED BY <1>1, <1>3

\* Which records the description has.
CoreRecord(d) == [relation |-> "core", efficiency_class |-> hw[Min(CoreMask(d))].capacity,
                  mask |-> CoreMask(d)]
LlcRecord(l) == [relation |-> "cache", level |-> 3, mask |-> LlcMask(l)]

LEMMA CoreRecordIs ==
  \A r \in Description : r.relation = "core" => \E d \in Present : r = CoreRecord(d)
  BY DEF Description, NodeRecords, CacheRecords, CoreRecords, CoreRecord

LEMMA NodeRecordIs ==
  \A r \in Description :
    r.relation = "node" => \E n : r.node_number = n /\ r.mask = FirstGroup(NodeMask(n))
  BY DEF Description, NodeRecords, CacheRecords, CoreRecords

LEMMA LlcRecordIs ==
  /\ \A r \in Description : r.relation = "cache" /\ r.level = 3 =>
       \E l \in {hw[c].llc : c \in Present} \ {NoLlc} : r = LlcRecord(l)
  /\ \A l \in {hw[c].llc : c \in Present} \ {NoLlc} : LlcRecord(l) \in Description
  <1>1. ASSUME NEW r \in Description, r.relation = "cache", r.level = 3
        PROVE  \E l \in {hw[c].llc : c \in Present} \ {NoLlc} : r = LlcRecord(l)
    <2>1. r \in CacheRecords
      BY <1>1 DEF Description, NodeRecords, CoreRecords
    <2> QED BY <1>1, <2>1 DEF CacheRecords, LlcRecord
  <1>2. \A l \in {hw[c].llc : c \in Present} \ {NoLlc} : LlcRecord(l) \in Description
    BY DEF Description, CacheRecords, LlcRecord
  <1> QED BY <1>1, <1>2

LEMMA RecordShape ==
  \A r \in Description : r.relation \in {"core", "node", "cache"} /\ r.mask \subseteq Cpus
  <1>1. /\ \A n : FirstGroup(NodeMask(n)) \subseteq Cpus
        /\ \A l : LlcMask(l) \subseteq Cpus
        /\ \A c : CoreMask(c) \subseteq Cpus
    BY DEF FirstGroup, NodeMask, LlcMask, CoreMask, Present
  <1>2. \A r \in NodeRecords : r.relation = "node" /\ r.mask \subseteq Cpus
    BY <1>1 DEF NodeRecords
  <1>3. \A r \in CacheRecords : r.relation = "cache" /\ r.mask \subseteq Cpus
    BY <1>1 DEF CacheRecords
  <1>4. \A r \in CoreRecords : r.relation = "core" /\ r.mask \subseteq Cpus
    BY <1>1 DEF CoreRecords
  <1> QED BY <1>2, <1>3, <1>4 DEF Description

LEMMA FetchedInv ==
  ASSUME TypeOK, buffer' = Description, hw' = hw PROVE BufferInv'
  <1> DEFINE R(rel) == {r \in Description : r.relation = rel}
             K == {r \in R("cache") : r.level = 3}
  <1>1. \A rel : Of({rel})' = R(rel)
    BY DEF Of
  <1>2. L3' = K
    BY DEF Of, L3
  <1>3. \A r \in R("core") : \E d \in Present : r = CoreRecord(d)
    BY CoreRecordIs
  <1>4. \A d \in Present : \A c \in CoreMask(d) : c \in Present /\ HwPlace(c) = HwPlace(d)
    BY DEF CoreMask, HwPlace
  <1>5. ASSUME NEW r \in R("core")
        PROVE  /\ r.mask # {} /\ r.efficiency_class \in Nat
               /\ \A c \in r.mask : HonestCores => hw[c].capacity = r.efficiency_class
    <2>1. PICK d \in Present : r = CoreRecord(d)
      BY <1>3
    <2>2. /\ r.mask = CoreMask(d) /\ r.efficiency_class = hw[Min(CoreMask(d))].capacity
          /\ d \in CoreMask(d) /\ CoreMask(d) \subseteq Cpus /\ Min(CoreMask(d)) \in CoreMask(d)
      BY <2>1, PresentParts DEF CoreRecord
    <2> DEFINE e == Min(CoreMask(d))
    <2> HIDE DEF e
    <2>3. hw[e].capacity \in Nat
      BY <2>2, HardwareParts DEF e
    <2>4. ASSUME NEW c \in CoreMask(d), HonestCores PROVE hw[c].capacity = hw[e].capacity
      <3>1. e \in CoreMask(d)
        BY <2>2 DEF e
      <3>2. hw[c].node = hw[e].node /\ hw[c].llc = hw[e].llc /\ hw[c].core = hw[e].core
        BY <3>1 DEF CoreMask
      <3> QED BY <2>2, <2>4, <3>1, <3>2 DEF HonestCores, LlcRead
    <2> QED BY <2>2, <2>3, <2>4 DEF e
  <1>6. ASSUME NEW r \in R("core"), NEW s \in R("core"), NEW c \in r.mask, NEW d \in s.mask
        PROVE  HwPlace(c) = HwPlace(d) <=> r = s
    <2>1. PICK a \in Present : r = CoreRecord(a)
      BY <1>3
    <2>2. PICK b \in Present : s = CoreRecord(b)
      BY <1>3
    <2>3. c \in CoreMask(a) /\ d \in CoreMask(b)
      BY <2>1, <2>2 DEF CoreRecord
    <2>4. HwPlace(c) = HwPlace(a) /\ HwPlace(d) = HwPlace(b)
      BY <1>4, <2>3
    <2>5. ASSUME HwPlace(c) = HwPlace(d) PROVE r = s
      <3>1. HwPlace(a) = HwPlace(b)
        BY <2>4, <2>5
      <3>2. CoreMask(a) = CoreMask(b)
        BY <3>1 DEF HwPlace, CoreMask
      <3> QED BY <2>1, <2>2, <3>2 DEF CoreRecord
    <2>6. ASSUME r = s PROVE HwPlace(c) = HwPlace(d)
      <3>1. d \in CoreMask(a)
        BY <2>1, <2>6 DEF CoreRecord
      <3> QED BY <1>4, <2>4, <3>1
    <2> QED BY <2>5, <2>6
  <1>7. ASSUME NEW r \in R("node"), NEW c \in r.mask PROVE r.node_number = hw[c].node
    BY NodeRecordIs DEF FirstGroup, NodeMask
  <1>8. ASSUME NEW r \in R("node"), NEW s \in R("core"), NEW c \in r.mask, c \in s.mask,
               NEW d \in s.mask
        PROVE  d \in r.mask
    <2>1. PICK n : r.node_number = n /\ r.mask = FirstGroup(NodeMask(n))
      BY NodeRecordIs
    <2>2. PICK b \in Present : s = CoreRecord(b)
      BY <1>3
    <2>3. HwPlace(c) = HwPlace(d) /\ c \in Present /\ d \in Present
      <3>1. c \in CoreMask(b) /\ d \in CoreMask(b)
        BY <1>8, <2>2 DEF CoreRecord
      <3> QED BY <1>4, <3>1
    <2>4. c \div GroupSize = d \div GroupSize
      <3>1. hw \in Hardware /\ c \in Cpus /\ d \in Cpus
        BY <2>3 DEF TypeOK, Present
      <3> QED BY <2>3, <3>1, WindowsAssumption DEF HwPlace
    <2>5. c \in NodeMask(n) /\ c \div GroupSize = Min(NodeMask(n)) \div GroupSize
      BY <2>1 DEF FirstGroup
    <2>6. d \in NodeMask(n)
      BY <2>3, <2>5 DEF NodeMask, HwPlace
    <2> QED BY <2>1, <2>4, <2>5, <2>6 DEF FirstGroup
  <1>9. ASSUME NEW r \in K, NEW s \in K, NEW c \in r.mask, NEW d \in s.mask
        PROVE  hw[c].llc = hw[d].llc <=> r = s
    <2>1. PICK a : r = LlcRecord(a)
      BY LlcRecordIs
    <2>2. PICK b : s = LlcRecord(b)
      BY LlcRecordIs
    <2>3. hw[c].llc = a /\ hw[d].llc = b
      BY <2>1, <2>2 DEF LlcRecord, LlcMask
    <2>4. a = b => r = s
      BY <2>1, <2>2
    <2>5. r = s => hw[d].llc = a
      BY <2>1 DEF LlcRecord, LlcMask
    <2> QED BY <2>3, <2>4, <2>5
  <1>10. ASSUME NEW s \in R("core"), NEW c \in s.mask
         PROVE  hw[c].llc # NoLlc <=> \E r \in K : c \in r.mask
    <2>1. PICK b \in Present : s = CoreRecord(b)
      BY <1>3
    <2>2. c \in Present
      BY <1>4, <2>1 DEF CoreRecord
    <2>3. ASSUME hw[c].llc # NoLlc PROVE \E r \in K : c \in r.mask
      <3> DEFINE r == LlcRecord(hw[c].llc)
      <3>1. r \in Description
        BY <2>2, <2>3, LlcRecordIs
      <3>2. r.relation = "cache" /\ r.level = 3 /\ c \in r.mask
        BY <2>2 DEF LlcRecord, LlcMask
      <3> QED BY <3>1, <3>2
    <2>4. ASSUME NEW r \in K, c \in r.mask PROVE hw[c].llc # NoLlc
      <3>1. PICK l \in {hw[e].llc : e \in Present} \ {NoLlc} : r = LlcRecord(l)
        BY LlcRecordIs
      <3>2. hw[c].llc = l
        BY <2>4, <3>1 DEF LlcRecord, LlcMask
      <3> QED BY <3>1, <3>2
    <2> QED BY <2>3, <2>4
  <1> HIDE DEF R, K
  <1>11. /\ \A r \in R("core") :
              /\ r.mask # {} /\ r.efficiency_class \in Nat
              /\ \A c \in r.mask : HonestCores' => hw'[c].capacity = r.efficiency_class
         /\ \A r, s \in R("core") : \A c \in r.mask, d \in s.mask :
              HwPlace(c)' = HwPlace(d)' <=> r = s
    BY <1>5, <1>6 DEF HonestCores, LlcRead, HwPlace
  <1>12. /\ \A r \in R("node") : \A c \in r.mask : r.node_number = hw'[c].node
         /\ \A r \in R("node"), s \in R("core") :
              s.mask \cap r.mask # {} => s.mask \subseteq r.mask
    BY <1>7, <1>8
  <1>13. /\ \A r, s \in K : \A c \in r.mask, d \in s.mask : hw'[c].llc = hw'[d].llc <=> r = s
         /\ \A s \in R("core") : \A c \in s.mask :
              hw'[c].llc # NoLlc <=> \E r \in K : c \in r.mask
    BY <1>9, <1>10
  <1>14. \A r \in buffer' : r.relation \in {"core", "node", "cache"} /\ r.mask \subseteq Cpus
    BY RecordShape
  <1>15. Of({"core"})' = R("core") /\ Of({"node"})' = R("node")
    BY <1>1
  <1> QED BY <1>2, <1>11, <1>12, <1>13, <1>14, <1>15 DEF BufferInv, HwPlace


-----------------------------------------------------------------------------
(* Windows: the steps.                                                     *)


LEMMA AskLengthInv ==
  ASSUME TypeOK, TopologyInv, OnWindows(AskLength), UNCHANGED platform PROVE TopologyInv'
  <1> USE DEF machine, counters
  <1>1. /\ platform = "windows" /\ platform' = "windows" /\ pc = "length" /\ pc' = "fetch"
        /\ MachineInv /\ TreeInv /\ WindowsInv
        /\ UNCHANGED <<hw, status, touched, capacities, topo, tree, buffer, unread,
                       cpu_to_numa, cpu_to_llc, llc_counter, core_counter>>
    BY DEF TopologyInv, OnWindows, AskLength
  <1>2. MachineInv' /\ TreeInv'
    BY <1>1 DEF MachineInv, TreeInv, Online
  <1>3. BufferInv'
    BY <1>1 DEF WindowsInv, BufferInv, Of, L3, HonestCores, LlcRead, HwPlace
  <1>4. NotedInv'
    BY <1>1 DEF WindowsInv, NotedInv, Of, L3
  <1>5. DOMAIN topo' = {} /\ CpusRead' = {} /\ capacities' = {}
    BY <1>1, NothingFiled DEF CpusRead, WindowsInv
  <1>6. RecordsInv' /\ WindowsLevels'
    BY <1>1, <1>5 DEF RecordsInv, WindowsLevels
  <1>7. FiledOnce(topo, CpusRead)'
    BY <1>5, FS_EmptySet DEF FiledOnce
  <1> QED BY <1>1, <1>2, <1>3, <1>4, <1>6, <1>7 DEF TopologyInv, WindowsInv

LEMMA FetchInv ==
  ASSUME TypeOK, TopologyInv, OnWindows(Fetch), UNCHANGED platform PROVE TopologyInv'
  <1> USE DEF machine, counters, snapshot
  <1>1. /\ platform = "windows" /\ platform' = "windows" /\ pc = "fetch"
        /\ MachineInv /\ TreeInv /\ WindowsInv
        /\ UNCHANGED <<hw, status, touched, capacities, topo, tree,
                       cpu_to_numa, cpu_to_llc, llc_counter, core_counter>>
    BY DEF TopologyInv, OnWindows, Fetch
  <1>2. /\ topo = <<>> /\ capacities = {} /\ tree.perf_level_count = 0
        /\ cpu_to_numa = <<>> /\ cpu_to_llc = <<>> /\ buffer = {} /\ unread = {}
    BY <1>1 DEF WindowsInv
  <1>3. \/ pc' = "done" /\ UNCHANGED <<buffer, unread>>
        \/ pc' = "places" /\ buffer' = Description /\ unread' = NodeRecords \cup CacheRecords
    BY DEF OnWindows, Fetch
  <1>4. DOMAIN topo' = {} /\ NodesOf(topo) = <<>>
    BY <1>1, <1>2, NothingFiled
  <1>5. MachineInv' /\ TreeInv'
    <2>1. NodesOf(topo') = <<>>
      BY <1>1, <1>4
    <2>2. NodesOf(topo)' = NodesOf(topo')
      BY DEF NodesOf, NodeIds, LlcIds, CoreIds, Ordered
    <2>3. pc # "done" /\ tree.numa_nodes = <<>>
      BY <1>1 DEF TreeInv
    <2>4. tree'.numa_nodes = <<>>
      BY <1>1, <2>3
    <2> QED BY <1>1, <2>1, <2>2, <2>4 DEF MachineInv, TreeInv, Online
  <1>6. DOMAIN cpu_to_numa' = {} /\ DOMAIN cpu_to_llc' = {}
    BY <1>1, <1>2
  <1>7. CASE pc' = "done" /\ UNCHANGED <<buffer, unread>>
    <2>1. BufferInv'
      BY <1>2, <1>7 DEF BufferInv, Of, L3
    <2>2. NotedInv'
      BY <1>2, <1>6, <1>7 DEF NotedInv, Of, L3
    <2>3. CpusRead' = {}
      BY <1>2, <1>7 DEF CpusRead, CoreRecordsRead, Of
    <2>4. FiledOnce(topo, CpusRead)'
      BY <1>4, <2>3, FS_EmptySet DEF FiledOnce
    <2>5. RecordsInv' /\ WindowsLevels'
      BY <1>1, <1>2, <1>4, <1>7, FS_EmptySet DEF RecordsInv, WindowsLevels
    <2> QED BY <1>1, <1>5, <1>7, <2>1, <2>2, <2>4, <2>5 DEF TopologyInv, WindowsInv
  <1>8. CASE pc' = "places" /\ buffer' = Description /\ unread' = NodeRecords \cup CacheRecords
    <2>1. BufferInv'
      BY <1>1, <1>8, FetchedInv
    <2>2. NotedInv'
      <3>1. unread' \cap Of({"core"})' = {}
        BY <1>8 DEF Of, NodeRecords, CacheRecords
      <3>2. Of({"node"})' \ unread' = {}
        BY <1>8 DEF Of, Description, NodeRecords, CacheRecords, CoreRecords
      <3>3. L3' \ unread' = {}
        BY <1>8 DEF L3, Of, Description, NodeRecords, CacheRecords, CoreRecords
      <3> QED BY <1>6, <1>8, <3>1, <3>2, <3>3 DEF NotedInv
    <2>3. CpusRead' = {}
      BY <1>8 DEF CpusRead
    <2>4. FiledOnce(topo, CpusRead)'
      BY <1>4, <2>3, FS_EmptySet DEF FiledOnce
    <2>5. RecordsInv' /\ WindowsLevels'
      BY <1>1, <1>2, <1>4, <1>8 DEF RecordsInv, WindowsLevels
    <2> QED BY <1>1, <1>2, <1>5, <1>8, <2>1, <2>2, <2>4, <2>5 DEF TopologyInv, WindowsInv
  <1> QED BY <1>3, <1>7, <1>8

LEMMA ReadPlaceInv ==
  ASSUME TypeOK, TopologyInv, OnWindows(ReadPlace), UNCHANGED platform PROVE TopologyInv'
  <1> USE DEF machine, snapshot
  <1>1. /\ platform = "windows" /\ platform' = "windows" /\ pc = "places" /\ pc' = "places"
        /\ MachineInv /\ TreeInv /\ WindowsInv /\ BufferInv /\ NotedInv
        /\ UNCHANGED <<hw, status, touched, capacities, topo, tree, buffer, core_counter>>
    BY DEF TopologyInv, OnWindows, ReadPlace, WindowsInv
  <1>2. PICK r \in unread :
          /\ unread' = unread \ {r}
          /\ \/ /\ r.relation = "node"
                /\ cpu_to_numa' = Noted(cpu_to_numa, r.mask, r.node_number)
                /\ UNCHANGED <<cpu_to_llc, llc_counter>>
             \/ /\ r.relation = "cache" /\ IsLlc(r)
                /\ cpu_to_llc' = Noted(cpu_to_llc, r.mask, llc_counter)
                /\ llc_counter' = llc_counter + 1
                /\ UNCHANGED cpu_to_numa
             \/ /\ r.relation = "cache" /\ ~IsLlc(r)
                /\ UNCHANGED <<cpu_to_numa, cpu_to_llc, llc_counter>>
    BY DEF OnWindows, ReadPlace
  <1>3. r \in buffer /\ llc_counter \in Nat
    BY DEF TypeOK
  <1>4. /\ r.relation = "node" => r \in Of({"node"}) /\ r \notin L3
        /\ r.relation = "cache" /\ IsLlc(r) => r \in L3 /\ r \notin Of({"node"})
        /\ r.relation = "cache" /\ ~IsLlc(r) => r \notin L3 /\ r \notin Of({"node"})
    BY <1>3 DEF Of, L3, IsLlc
  <1>5. UNCHANGED <<Of({"node"}), Of({"core"}), L3>>
    BY <1>1 DEF Of, L3
  <1>6. BufferInv'
    BY <1>1 DEF BufferInv, Of, L3, HonestCores, LlcRead, HwPlace
  <1>7. MachineInv' /\ TreeInv'
    BY <1>1 DEF MachineInv, TreeInv, Online
  <1>8. unread' \cap Of({"core"})' = {}
    BY <1>1, <1>2, <1>5 DEF NotedInv
  <1>9. /\ \A c \in DOMAIN cpu_to_numa' : cpu_to_numa'[c] = hw[c].node
        /\ \A s \in Of({"node"}) \ unread' : s.mask \subseteq DOMAIN cpu_to_numa'
    <2>1. CASE r.relation = "node"
      <3>1. cpu_to_numa' = Noted(cpu_to_numa, r.mask, r.node_number)
        BY <1>2, <2>1
      <3>2. \A c \in r.mask : r.node_number = hw[c].node
        BY <1>1, <1>4, <2>1 DEF BufferInv
      <3>3. /\ DOMAIN cpu_to_numa' = DOMAIN cpu_to_numa \cup r.mask
            /\ \A c \in DOMAIN cpu_to_numa' :
                 cpu_to_numa'[c] = IF c \in r.mask THEN r.node_number ELSE cpu_to_numa[c]
        BY <3>1 DEF Noted
      <3> QED BY <1>1, <1>2, <3>2, <3>3 DEF NotedInv
    <2>2. CASE r.relation # "node"
      BY <1>1, <1>2, <1>4, <2>2 DEF NotedInv, Of
    <2> QED BY <2>1, <2>2
  <1>10. /\ \A s \in L3 \ unread' : s.mask \subseteq DOMAIN cpu_to_llc'
         /\ \A c \in DOMAIN cpu_to_llc' : /\ \E s \in L3 \ unread' : c \in s.mask
                                          /\ cpu_to_llc'[c] < llc_counter'
         /\ \A c, d \in DOMAIN cpu_to_llc' :
              cpu_to_llc'[c] = cpu_to_llc'[d] <=> hw[c].llc = hw[d].llc
    <2>1. /\ \A s \in L3 \ unread : s.mask \subseteq DOMAIN cpu_to_llc
          /\ \A c \in DOMAIN cpu_to_llc : \E s \in L3 \ unread : c \in s.mask
          /\ \A c \in DOMAIN cpu_to_llc : cpu_to_llc[c] < llc_counter /\ cpu_to_llc[c] \in Nat
          /\ \A c, d \in DOMAIN cpu_to_llc :
               cpu_to_llc[c] = cpu_to_llc[d] <=> hw[c].llc = hw[d].llc
      BY <1>1 DEF NotedInv, TypeOK
    <2>2. CASE r \in L3
      <3>1. cpu_to_llc' = Noted(cpu_to_llc, r.mask, llc_counter) /\ llc_counter' = llc_counter + 1
        BY <1>2, <1>4, <2>2
      <3>2. /\ DOMAIN cpu_to_llc' = DOMAIN cpu_to_llc \cup r.mask
            /\ \A c \in DOMAIN cpu_to_llc' :
                 cpu_to_llc'[c] = IF c \in r.mask THEN llc_counter ELSE cpu_to_llc[c]
        BY <3>1 DEF Noted
      <3>3. \A s \in L3 : \A c \in r.mask, d \in s.mask : hw[c].llc = hw[d].llc <=> r = s
        BY <1>1, <2>2 DEF BufferInv
      <3>4. \A c \in DOMAIN cpu_to_llc : \A d \in r.mask : hw[c].llc # hw[d].llc
        <4> SUFFICES ASSUME NEW c \in DOMAIN cpu_to_llc, NEW d \in r.mask
                     PROVE  hw[c].llc # hw[d].llc
          OBVIOUS
        <4>1. PICK s \in L3 \ unread : c \in s.mask
          BY <2>1
        <4> QED BY <1>2, <3>3, <4>1
      <3>5. L3 \ unread' = (L3 \ unread) \cup {r}
        BY <1>2, <2>2
      <3>6. \A s \in L3 \ unread' : s.mask \subseteq DOMAIN cpu_to_llc'
        BY <2>1, <3>2, <3>5
      <3>7. \A c \in DOMAIN cpu_to_llc' : \E s \in L3 \ unread' : c \in s.mask
        BY <2>1, <3>2, <3>5
      <3>8. \A c \in DOMAIN cpu_to_llc' : cpu_to_llc'[c] < llc_counter'
        BY <1>3, <2>1, <3>1, <3>2
      <3>9. ASSUME NEW c \in DOMAIN cpu_to_llc', NEW d \in DOMAIN cpu_to_llc'
            PROVE  cpu_to_llc'[c] = cpu_to_llc'[d] <=> hw[c].llc = hw[d].llc
        <4>1. CASE c \in r.mask /\ d \in r.mask
          BY <2>2, <3>2, <3>3, <4>1
        <4>2. CASE c \notin r.mask /\ d \notin r.mask
          BY <2>1, <3>2, <4>2
        <4>3. CASE c \in r.mask /\ d \notin r.mask
          BY <1>3, <2>1, <3>2, <3>4, <4>3
        <4>4. CASE c \notin r.mask /\ d \in r.mask
          BY <1>3, <2>1, <3>2, <3>4, <4>4
        <4> QED BY <4>1, <4>2, <4>3, <4>4
      <3> QED BY <3>6, <3>7, <3>8, <3>9
    <2>3. CASE r \notin L3
      <3>1. L3 \ unread' = L3 \ unread /\ cpu_to_llc' = cpu_to_llc /\ llc_counter' = llc_counter
        BY <1>2, <1>4, <2>3
      <3> QED BY <2>1, <3>1
    <2> QED BY <2>2, <2>3
  <1>11. NotedInv'
    BY <1>1, <1>5, <1>8, <1>9, <1>10 DEF NotedInv
  <1>12. DOMAIN topo' = {} /\ CpusRead' = {} /\ capacities' = {} /\ tree'.perf_level_count = 0
         /\ topo' = <<>>
    BY <1>1, NothingFiled DEF CpusRead, WindowsInv
  <1>13. RecordsInv' /\ WindowsLevels'
    BY <1>1, <1>12 DEF RecordsInv, WindowsLevels
  <1>14. FiledOnce(topo, CpusRead)'
    BY <1>12, FS_EmptySet DEF FiledOnce
  <1> QED BY <1>1, <1>6, <1>7, <1>11, <1>12, <1>13, <1>14 DEF TopologyInv, WindowsInv

LEMMA PlacesReadInv ==
  ASSUME TypeOK, TopologyInv, OnWindows(PlacesRead), UNCHANGED platform PROVE TopologyInv'
  <1> USE DEF machine, snapshot, counters
  <1>1. /\ platform = "windows" /\ platform' = "windows" /\ pc = "places" /\ pc' = "cores"
        /\ MachineInv /\ TreeInv /\ WindowsInv /\ unread = {} /\ unread' = Of({"core"})
        /\ UNCHANGED <<hw, status, touched, capacities, topo, tree, buffer, core_counter,
                       llc_counter, cpu_to_numa, cpu_to_llc>>
    BY DEF TopologyInv, OnWindows, PlacesRead
  <1>2. MachineInv' /\ TreeInv'
    BY <1>1 DEF MachineInv, TreeInv, Online
  <1>3. BufferInv'
    BY <1>1 DEF WindowsInv, BufferInv, Of, L3, HonestCores, LlcRead, HwPlace
  <1>4. UNCHANGED <<Of({"node"}), Of({"core"}), L3>>
    BY <1>1 DEF Of, L3
  <1>5. Of({"node"}) \ Of({"core"}) = Of({"node"}) /\ L3 \ Of({"core"}) = L3
    BY DEF Of, L3
  <1>6. NotedInv'
    BY <1>1, <1>4, <1>5 DEF WindowsInv, NotedInv
  <1>7. DOMAIN topo' = {} /\ capacities' = {}
    BY <1>1, NothingFiled DEF WindowsInv
  <1>8. CpusRead' = {}
    BY <1>1, <1>4 DEF CpusRead, CoreRecordsRead
  <1>9. RecordsInv' /\ WindowsLevels'
    BY <1>1, <1>7 DEF RecordsInv, WindowsLevels
  <1>10. FiledOnce(topo, CpusRead)'
    BY <1>7, <1>8, FS_EmptySet DEF FiledOnce
  <1> QED BY <1>1, <1>2, <1>3, <1>6, <1>9, <1>10 DEF TopologyInv, WindowsInv


\* Group and bit give the CPU back.
LEMMA GroupAndBit ==
  ASSUME NEW c \in Nat, NEW g \in Nat \ {0} PROVE (c \div g) * g + (c % g) = c
  OBVIOUS

\* A core record is filed under a key of its own, with its CPUs.
LEMMA RecordParts ==
  ASSUME TypeOK, NEW r, r.mask \subseteq Cpus, r.mask # {}
  PROVE  LET cs == Ordered(r.mask)
             core == FiledRecord(r, cs)
             key == RecordKey(cs)
         IN  /\ core.core_id = core_counter /\ core.perf_level = r.efficiency_class
             /\ \A k \in DOMAIN core.threads :
                  /\ core.threads[k].thread_index = k - 1
                  /\ core.threads[k].core_id = core_counter
                  /\ CpuIn(core.threads[k]) \in r.mask
             /\ \A k, m \in DOMAIN core.threads :
                  CpuIn(core.threads[k]) = CpuIn(core.threads[m]) => k = m
             /\ \A c \in r.mask : \E k \in DOMAIN core.threads : CpuIn(core.threads[k]) = c
             /\ \E a, b \in r.mask :
                  key = <<PlaceOf(cpu_to_numa, a), PlaceOf(cpu_to_llc, b), core_counter>>
  <1> DEFINE cs == Ordered(r.mask)
             n == Cardinality(r.mask)
             core == FiledRecord(r, cs)
  <1>1. /\ n \in Nat /\ n # 0 /\ cs \in [1..n -> r.mask] /\ DOMAIN cs = 1..n
        /\ \A a, b \in DOMAIN cs : cs[a] = cs[b] => a = b
        /\ \A e \in r.mask : \E a \in DOMAIN cs : cs[a] = e
        /\ r.mask \subseteq Nat
    BY MaskOrdered
  <1> HIDE DEF cs, n
  <1>2. /\ core.core_id = core_counter /\ core.perf_level = r.efficiency_class
        /\ DOMAIN core.threads = 1..n
        /\ \A k \in 1..n : /\ core.threads[k].thread_index = k - 1
                           /\ core.threads[k].core_id = core_counter
                           /\ core.threads[k].os_id = cs[k] % GroupSize
                           /\ core.threads[k].group_id = cs[k] \div GroupSize
    BY <1>1 DEF FiledRecord
  <1> HIDE DEF core
  <1>3. \A k \in 1..n : CpuIn(core.threads[k]) = cs[k]
    <2> SUFFICES ASSUME NEW k \in 1..n PROVE CpuIn(core.threads[k]) = cs[k]
      OBVIOUS
    <2>1. cs[k] \in Nat /\ GroupSize \in Nat \ {0}
      BY <1>1, TopologyAssumption
    <2>2. CpuIn(core.threads[k]) = (cs[k] \div GroupSize) * GroupSize + (cs[k] % GroupSize)
      BY <1>2 DEF CpuIn
    <2> QED BY <2>1, <2>2, GroupAndBit
  <1>4. cs[n] \in r.mask /\ cs[1] \in r.mask /\ Len(cs) = n
    BY <1>1
  <1>5. RecordKey(cs) = <<PlaceOf(cpu_to_numa, cs[n]), PlaceOf(cpu_to_llc, cs[1]), core_counter>>
    BY <1>4 DEF RecordKey
  <1>6. \A k \in 1..n : cs[k] \in r.mask
    BY <1>1
  <1>7. /\ \A k \in 1..n : CpuIn(core.threads[k]) \in r.mask
        /\ \A k, m \in 1..n : CpuIn(core.threads[k]) = CpuIn(core.threads[m]) => k = m
    <2>1. \A k, m \in 1..n : cs[k] = cs[m] => k = m
      BY <1>1
    <2> QED BY ONLY <1>3, <1>6, <2>1
  <1>8. \A c \in r.mask : \E k \in 1..n : CpuIn(core.threads[k]) = c
    <2>1. \A c \in r.mask : \E k \in 1..n : cs[k] = c
      BY <1>1
    <2> QED BY ONLY <1>3, <2>1
  <1>9. \E a, b \in r.mask :
          RecordKey(cs) = <<PlaceOf(cpu_to_numa, a), PlaceOf(cpu_to_llc, b), core_counter>>
    BY <1>4, <1>5
  <1> QED BY <1>2, <1>7, <1>8, <1>9 DEF core, cs

\* The CPUs of a core have one place in the maps of places.
LEMMA OnePlace ==
  ASSUME BufferInv, NotedInv, pc = "cores",
         NEW r \in Of({"core"}), NEW c \in r.mask, NEW d \in r.mask
  PROVE  /\ PlaceOf(cpu_to_numa, c) = PlaceOf(cpu_to_numa, d)
              \/ \A s \in Of({"node"}) : c \notin s.mask
         /\ PlaceOf(cpu_to_llc, c) = PlaceOf(cpu_to_llc, d)
  <1>1. HwPlace(c) = HwPlace(d)
    BY DEF BufferInv
  <1>2. hw[c].node = hw[d].node /\ hw[c].llc = hw[d].llc
    BY <1>1 DEF HwPlace
  <1>3. unread \subseteq Of({"core"})
    BY DEF NotedInv
  <1>4. Of({"node"}) \ unread = Of({"node"}) /\ L3 \ unread = L3
    BY <1>3 DEF Of, L3
  <1>5. ASSUME NEW s \in Of({"node"}), c \in s.mask
        PROVE  PlaceOf(cpu_to_numa, c) = PlaceOf(cpu_to_numa, d)
    <2>1. d \in s.mask
      BY <1>5 DEF BufferInv
    <2>2. c \in DOMAIN cpu_to_numa /\ d \in DOMAIN cpu_to_numa
      BY <1>4, <1>5, <2>1 DEF NotedInv
    <2> QED BY <1>2, <2>2 DEF NotedInv, PlaceOf
  <1>6. PlaceOf(cpu_to_llc, c) = PlaceOf(cpu_to_llc, d)
    <2>1. \A e \in {c, d} : e \in DOMAIN cpu_to_llc <=> hw[e].llc # NoLlc
      <3> SUFFICES ASSUME NEW e \in {c, d} PROVE e \in DOMAIN cpu_to_llc <=> hw[e].llc # NoLlc
        OBVIOUS
      <3>1. hw[e].llc # NoLlc <=> \E s \in L3 : e \in s.mask
        BY DEF BufferInv
      <3>2. (\E s \in L3 : e \in s.mask) <=> e \in DOMAIN cpu_to_llc
        BY <1>4 DEF NotedInv
      <3> QED BY <3>1, <3>2
    <2>2. CASE hw[c].llc # NoLlc
      BY <1>2, <2>1, <2>2 DEF NotedInv, PlaceOf
    <2>3. CASE hw[c].llc = NoLlc
      BY <1>2, <2>1, <2>3 DEF PlaceOf
    <2> QED BY <2>2, <2>3
  <1> QED BY <1>5, <1>6

LEMMA ReadCoreRecordInv ==
  ASSUME TypeOK, TopologyInv, OnWindows(ReadCoreRecord), UNCHANGED platform PROVE TopologyInv'
  <1> USE DEF machine, snapshot
  <1>1. /\ platform = "windows" /\ platform' = "windows" /\ pc = "cores" /\ pc' = "cores"
        /\ MachineInv /\ TreeInv /\ WindowsInv /\ BufferInv /\ NotedInv /\ RecordsInv
        /\ WindowsLevels /\ FiledOnce(topo, CpusRead)
        /\ core_counter' = core_counter + 1
        /\ UNCHANGED <<hw, status, touched, tree, buffer, cpu_to_numa, cpu_to_llc, llc_counter>>
    BY DEF TopologyInv, OnWindows, ReadCoreRecord, WindowsInv
  <1>2. PICK r \in unread :
          /\ unread' = unread \ {r}
          /\ capacities' = capacities \cup {r.efficiency_class}
          /\ topo' = With(topo, RecordKey(Ordered(r.mask)), FiledRecord(r, Ordered(r.mask)))
    BY DEF OnWindows, ReadCoreRecord
  <1> DEFINE key == RecordKey(Ordered(r.mask))
             core == FiledRecord(r, Ordered(r.mask))
  <1>3. /\ r \in Of({"core"}) /\ unread \subseteq Of({"core"}) /\ core_counter \in Nat
        /\ r.mask \subseteq Cpus /\ r.mask # {}
    BY <1>1 DEF NotedInv, BufferInv, Of, TypeOK
  <1>4. /\ core.core_id = core_counter /\ core.perf_level = r.efficiency_class
        /\ \A k \in DOMAIN core.threads :
             /\ core.threads[k].thread_index = k - 1
             /\ core.threads[k].core_id = core_counter
             /\ CpuIn(core.threads[k]) \in r.mask
        /\ \A k, m \in DOMAIN core.threads :
             CpuIn(core.threads[k]) = CpuIn(core.threads[m]) => k = m
        /\ \A c \in r.mask : \E k \in DOMAIN core.threads : CpuIn(core.threads[k]) = c
        /\ \E a, b \in r.mask :
             key = <<PlaceOf(cpu_to_numa, a), PlaceOf(cpu_to_llc, b), core_counter>>
    BY <1>3, RecordParts
  <1>5. topo' = With(topo, key, core)
    BY <1>2
  <1> HIDE DEF key, core
  <1>6. PICK a \in r.mask : \E b \in r.mask :
             key = <<PlaceOf(cpu_to_numa, a), PlaceOf(cpu_to_llc, b), core_counter>>
    BY <1>4
  <1>7. PICK b \in r.mask :
             key = <<PlaceOf(cpu_to_numa, a), PlaceOf(cpu_to_llc, b), core_counter>>
    BY <1>6
  <1>8. /\ key[1] = PlaceOf(cpu_to_numa, a) /\ key[2] = PlaceOf(cpu_to_llc, b)
        /\ key[3] = core_counter /\ key \notin DOMAIN topo
    BY <1>1, <1>3, <1>7 DEF RecordsInv
  <1>9. /\ DOMAIN topo' = DOMAIN topo \cup {key} /\ topo'[key] = core
        /\ \A u \in DOMAIN topo : topo'[u] = topo[u]
    BY <1>5, <1>8 DEF With
  <1>10. /\ CoreRecordsRead' = CoreRecordsRead \cup {r} /\ r \notin CoreRecordsRead
         /\ CpusRead' = CpusRead \cup r.mask
    BY <1>1, <1>2, <1>3 DEF CoreRecordsRead, CpusRead, Of
  <1>11. \A s \in CoreRecordsRead : \A c \in r.mask, d \in s.mask : HwPlace(c) # HwPlace(d)
    BY <1>1, <1>3, <1>10 DEF BufferInv, CoreRecordsRead
  <1>12. ASSUME NEW u \in DOMAIN topo, NEW m \in DOMAIN topo[u].threads
         PROVE  \E s \in CoreRecordsRead : CpuIn(topo[u].threads[m]) \in s.mask
    <2>1. CpuIn(topo[u].threads[m]) \in CpusRead
      BY <1>1 DEF FiledOnce
    <2> QED BY <1>1, <2>1 DEF CpusRead
  <1>13. FiledOnce(topo, CpusRead)'
    <2>1. \A u \in DOMAIN topo : \A m \in DOMAIN topo[u].threads :
            CpuIn(topo[u].threads[m]) \in r.mask <=> u = key
      <3> SUFFICES ASSUME NEW u \in DOMAIN topo, NEW m \in DOMAIN topo[u].threads
                   PROVE  CpuIn(topo[u].threads[m]) \notin r.mask
        BY <1>8
      <3> QED BY <1>11, <1>12
    <2>2. FiledOnce(With(topo, key, core), CpusRead \cup r.mask)
      BY <1>1, <1>4, <1>8, <2>1, FileCore
    <2>3. FiledOnce(topo', CpusRead')
      BY <1>5, <1>10, <2>2
    <2> QED BY <2>3 DEF FiledOnce
  <1>14. ASSUME NEW q \in DOMAIN topo', NEW k \in DOMAIN topo'[q].threads
         PROVE  \/ /\ q \in DOMAIN topo /\ q # key /\ topo'[q] = topo[q]
                   /\ k \in DOMAIN topo[q].threads
                   /\ \E s \in CoreRecordsRead : CpuIn(topo[q].threads[k]) \in s.mask
                \/ q = key /\ q \notin DOMAIN topo /\ CpuIn(topo'[q].threads[k]) \in r.mask
    BY <1>4, <1>8, <1>9, <1>12
  <1>15. RecordsInv'
    <2>1. \A q \in DOMAIN topo' : q[3] < core_counter + 1
      <3> SUFFICES ASSUME NEW q \in DOMAIN topo' PROVE q[3] < core_counter + 1
        OBVIOUS
      <3>1. CASE q = key
        BY <1>3, <1>8, <3>1
      <3>2. CASE q \in DOMAIN topo
        <4>1. q[3] \in Nat /\ q[3] < core_counter
          BY <1>1, <3>2 DEF RecordsInv, TypeOK
        <4> QED BY <1>3, <4>1
      <3> QED BY <1>9, <3>1, <3>2
    <2>2. ASSUME NEW q \in DOMAIN topo', NEW k \in DOMAIN topo'[q].threads
          PROVE  LET c == CpuIn(topo'[q].threads[k])
                 IN  /\ q[1] = PlaceOf(cpu_to_numa, c) \/ \A s \in Of({"node"}) : c \notin s.mask
                     /\ q[2] = PlaceOf(cpu_to_llc, c)
      <3>1. CASE q \in DOMAIN topo /\ topo'[q] = topo[q] /\ k \in DOMAIN topo[q].threads
        BY <1>1, <3>1 DEF RecordsInv
      <3>2. CASE q = key /\ CpuIn(topo'[q].threads[k]) \in r.mask
        BY <1>1, <1>3, <1>8, <3>2, OnePlace
      <3> QED BY <1>14, <3>1, <3>2
    <2>3. ASSUME NEW q \in DOMAIN topo', NEW k \in DOMAIN topo'[q].threads,
                 NEW u \in DOMAIN topo', NEW m \in DOMAIN topo'[u].threads
          PROVE  HwPlace(CpuIn(topo'[q].threads[k])) = HwPlace(CpuIn(topo'[u].threads[m]))
                   <=> q = u
      <3> DEFINE c == CpuIn(topo'[q].threads[k])
                 d == CpuIn(topo'[u].threads[m])
      <3>1. CASE q \in DOMAIN topo /\ u \in DOMAIN topo
        <4>1. /\ topo'[q] = topo[q] /\ topo'[u] = topo[u]
              /\ k \in DOMAIN topo[q].threads /\ m \in DOMAIN topo[u].threads
          BY <1>9, <3>1
        <4>2. HwPlace(CpuIn(topo[q].threads[k])) = HwPlace(CpuIn(topo[u].threads[m])) => q = u
          BY <1>1, <3>1, <4>1 DEF RecordsInv
        <4>3. ASSUME q = u
              PROVE  HwPlace(CpuIn(topo[q].threads[k])) = HwPlace(CpuIn(topo[u].threads[m]))
          BY <1>1, <3>1, <4>1, <4>3 DEF RecordsInv
        <4> QED BY <4>1, <4>2, <4>3
      <3>2. CASE q = key /\ u = key
        <4>1. c \in r.mask /\ d \in r.mask
          BY <1>8, <1>14, <3>2
        <4> HIDE DEF c, d
        <4>2. HwPlace(c) = HwPlace(d)
          BY <1>1, <1>3, <4>1 DEF BufferInv
        <4> QED BY <3>2, <4>2 DEF c, d
      <3>3. CASE q = key /\ u \in DOMAIN topo
        <4>1. c \in r.mask /\ \E s \in CoreRecordsRead : d \in s.mask
          BY <1>8, <1>14, <3>3
        <4> HIDE DEF c, d
        <4>2. HwPlace(c) # HwPlace(d) /\ q # u
          BY <1>8, <1>11, <3>3, <4>1
        <4> QED BY <4>2 DEF c, d
      <3>4. CASE q \in DOMAIN topo /\ u = key
        <4>1. d \in r.mask /\ \E s \in CoreRecordsRead : c \in s.mask
          BY <1>8, <1>14, <3>4
        <4> HIDE DEF c, d
        <4>2. HwPlace(c) # HwPlace(d) /\ q # u
          BY <1>8, <1>11, <3>4, <4>1
        <4> QED BY <4>2 DEF c, d
      <3> QED BY <1>9, <3>1, <3>2, <3>3, <3>4
    <2>4. UNCHANGED <<hw, cpu_to_numa, cpu_to_llc, Of({"node"})>> /\ core_counter' = core_counter + 1
      BY <1>1 DEF Of
    <2> QED BY <2>1, <2>2, <2>3, <2>4 DEF RecordsInv, PlaceOf, HwPlace
  <1>16. WindowsLevels'
    <2>1. ASSUME NEW q \in DOMAIN topo'
          PROVE  \E cap \in capacities' :
                   /\ topo'[q].perf_level = cap
                   /\ HonestCores => \A k \in DOMAIN topo'[q].threads :
                                       hw[CpuIn(topo'[q].threads[k])].capacity = cap
      <3>1. CASE q \in DOMAIN topo
        <4>1. PICK cap \in capacities :
                /\ topo[q].perf_level = cap
                /\ HonestCores => \A k \in DOMAIN topo[q].threads :
                                    hw[CpuIn(topo[q].threads[k])].capacity = cap
          BY <1>1, <3>1 DEF WindowsLevels
        <4>2. cap \in capacities' /\ topo'[q] = topo[q]
          BY <1>2, <1>9, <3>1
        <4> QED BY <4>1, <4>2
      <3>2. CASE q = key
        <4>1. r.efficiency_class \in capacities' /\ topo'[q] = core
          BY <1>2, <1>9, <3>2
        <4>2. \A c \in r.mask : HonestCores => hw[c].capacity = r.efficiency_class
          BY <1>1, <1>3 DEF BufferInv
        <4> QED BY <1>4, <4>1, <4>2
      <3> QED BY <1>9, <3>1, <3>2
    <2>2. \A cap \in capacities' : \E s \in CoreRecordsRead' : s.efficiency_class = cap
      BY <1>1, <1>2, <1>10 DEF WindowsLevels
    <2>3. HonestCores' = HonestCores /\ hw' = hw
      BY <1>1 DEF HonestCores, LlcRead
    <2> QED BY <1>1, <2>1, <2>2, <2>3 DEF WindowsLevels
  <1>17. MachineInv' /\ TreeInv'
    <2>1. IsFiniteSet(capacities')
      BY <1>1, <1>2, FS_AddElement DEF MachineInv
    <2> QED BY <1>1, <2>1 DEF MachineInv, TreeInv, Online
  <1>18. BufferInv'
    BY <1>1 DEF BufferInv, Of, L3, HonestCores, LlcRead, HwPlace
  <1>19. NotedInv'
    <2>1. UNCHANGED <<Of({"node"}), Of({"core"}), L3>>
      BY <1>1 DEF Of, L3
    <2>2. Of({"node"}) \ unread' = Of({"node"}) \ unread /\ L3 \ unread' = L3 \ unread
      BY <1>2, <1>3 DEF Of, L3
    <2>3. unread' \subseteq Of({"core"})
      BY <1>2, <1>3
    <2> QED BY <1>1, <2>1, <2>2, <2>3 DEF NotedInv
  <1> QED BY <1>1, <1>13, <1>15, <1>16, <1>17, <1>18, <1>19 DEF TopologyInv, WindowsInv

\* The levels are no matter of where the CPUs are.
LEMMA SameThreads ==
  ASSUME NEW map, NEW map2, NEW S, FiledOnce(map, S), DOMAIN map2 = DOMAIN map,
         \A q \in DOMAIN map : map2[q].core_id = map[q].core_id /\ map2[q].threads = map[q].threads
  PROVE  FiledOnce(map2, S)
  <1>1. \A q \in DOMAIN map2 : \A r \in DOMAIN map2[q].threads :
          /\ r \in DOMAIN map[q].threads /\ map2[q].threads[r] = map[q].threads[r]
    OBVIOUS
  <1>2. \A q \in DOMAIN map2 : map2[q].core_id = q[3]
    BY DEF FiledOnce
  <1>3. \A q \in DOMAIN map2 : \A r \in DOMAIN map2[q].threads :
          /\ map2[q].threads[r].thread_index = r - 1
          /\ map2[q].threads[r].core_id = q[3]
          /\ CpuIn(map2[q].threads[r]) \in S
    BY <1>1 DEF FiledOnce
  <1>4. \A q, u \in DOMAIN map2 :
          \A r \in DOMAIN map2[q].threads, s \in DOMAIN map2[u].threads :
            CpuIn(map2[q].threads[r]) = CpuIn(map2[u].threads[s]) => q = u /\ r = s
    BY <1>1 DEF FiledOnce
  <1>5. \A c \in S : \E q \in DOMAIN map2 : \E r \in DOMAIN map2[q].threads :
          CpuIn(map2[q].threads[r]) = c
    BY DEF FiledOnce
  <1> QED BY <1>2, <1>3, <1>4, <1>5 DEF FiledOnce

LEMMA RankAndEmitInv ==
  ASSUME TypeOK, TopologyInv, OnWindows(RankAndEmit), UNCHANGED platform PROVE TopologyInv'
  <1> USE DEF machine, windowsVars, snapshot, counters
  <1>1. /\ platform = "windows" /\ platform' = "windows" /\ pc = "cores" /\ pc' = "done"
        /\ MachineInv /\ TreeInv /\ WindowsInv /\ unread = {}
        /\ topo' = [q \in DOMAIN topo |->
                      [topo[q] EXCEPT !.perf_level = Tier(topo[q].perf_level)]]
        /\ tree' = [numa_nodes |-> NodesOf(topo'), perf_level_count |-> Cardinality(capacities)]
        /\ UNCHANGED <<hw, status, touched, capacities, buffer, unread, core_counter,
                       llc_counter, cpu_to_numa, cpu_to_llc>>
    BY DEF TopologyInv, OnWindows, RankAndEmit
  <1>2. DOMAIN topo' = DOMAIN topo
        /\ \A q \in DOMAIN topo : /\ topo'[q].core_id = topo[q].core_id
                                  /\ topo'[q].threads = topo[q].threads
                                  /\ topo'[q].perf_level = Tier(topo[q].perf_level)
    <2>1. \A q \in DOMAIN topo : topo[q] \in CoreType
      BY DEF TypeOK
    <2> QED BY <1>1, <2>1 DEF CoreType
  <1>3. MachineInv' /\ TreeInv'
    <2>1. NodesOf(topo)' = NodesOf(topo')
      BY DEF NodesOf, NodeIds, LlcIds, CoreIds, Ordered
    <2>2. tree'.numa_nodes = NodesOf(topo')
      BY <1>1
    <2> QED BY <1>1, <2>1, <2>2 DEF MachineInv, TreeInv, Online
  <1>4. BufferInv'
    BY <1>1 DEF WindowsInv, BufferInv, Of, L3, HonestCores, LlcRead, HwPlace
  <1>5. NotedInv'
    BY <1>1 DEF WindowsInv, NotedInv, Of, L3
  <1>6. CpusRead' = CpusRead /\ CoreRecordsRead' = CoreRecordsRead
    BY <1>1 DEF CpusRead, CoreRecordsRead, Of
  <1>7. FiledOnce(topo, CpusRead)'
    <2> DEFINE new == topo'
               cpus == CpusRead
    <2>1. /\ FiledOnce(topo, cpus) /\ DOMAIN new = DOMAIN topo
          /\ \A q \in DOMAIN topo :
               new[q].core_id = topo[q].core_id /\ new[q].threads = topo[q].threads
      BY <1>1, <1>2 DEF WindowsInv
    <2> HIDE DEF new, cpus
    <2>2. FiledOnce(new, cpus)
      BY ONLY <2>1, SameThreads
    <2> QED BY <1>6, <2>2 DEF FiledOnce, new, cpus
  <1>8. RecordsInv'
    <2>1. UNCHANGED <<hw, cpu_to_numa, cpu_to_llc, core_counter, Of({"node"})>>
      BY <1>1 DEF Of
    <2>2. \A q \in DOMAIN topo : DOMAIN topo'[q].threads = DOMAIN topo[q].threads
      BY <1>2
    <2>3. RecordsInv
      BY <1>1 DEF WindowsInv
    <2>4. ASSUME NEW q \in DOMAIN topo, NEW k \in DOMAIN topo[q].threads
          PROVE  LET c == CpuIn(topo'[q].threads[k])
                 IN  /\ q[1] = PlaceOf(cpu_to_numa, c) \/ \A s \in Of({"node"}) : c \notin s.mask
                     /\ q[2] = PlaceOf(cpu_to_llc, c)
                     /\ \A u \in DOMAIN topo : \A s \in DOMAIN topo[u].threads :
                          HwPlace(c) = HwPlace(CpuIn(topo'[u].threads[s])) => q = u
                     /\ \A s \in DOMAIN topo[q].threads :
                          HwPlace(c) = HwPlace(CpuIn(topo'[q].threads[s]))
      BY <1>2, <2>3 DEF RecordsInv
    <2>5. \A q \in DOMAIN topo : q[3] < core_counter
      BY <2>3 DEF RecordsInv
    <2> QED BY <1>2, <2>1, <2>2, <2>4, <2>5 DEF RecordsInv, HwPlace, PlaceOf
  <1>9. WindowsLevels'
    <2>1. ASSUME NEW q \in DOMAIN topo'
          PROVE  \E cap \in capacities' :
                   /\ topo'[q].perf_level = Cardinality({c \in capacities' : c > cap})
                   /\ HonestCores' => \A k \in DOMAIN topo'[q].threads :
                                        hw'[CpuIn(topo'[q].threads[k])].capacity = cap
      <3>1. PICK cap \in capacities :
              /\ topo[q].perf_level = cap
              /\ HonestCores => \A k \in DOMAIN topo[q].threads :
                                  hw[CpuIn(topo[q].threads[k])].capacity = cap
        BY <1>1, <1>2 DEF WindowsInv, WindowsLevels
      <3>2. topo'[q].perf_level = Cardinality({c \in capacities : c > cap})
        BY <1>2, <3>1 DEF Tier
      <3>3. HonestCores' = HonestCores
        BY <1>1 DEF HonestCores, LlcRead
      <3>4. DOMAIN topo'[q].threads = DOMAIN topo[q].threads
            /\ topo'[q].threads = topo[q].threads
        BY <1>2
      <3>5. cap \in capacities'
            /\ topo'[q].perf_level = Cardinality({c \in capacities' : c > cap})
        BY <1>1, <3>2
      <3>6. HonestCores' => \A k \in DOMAIN topo'[q].threads :
                             hw'[CpuIn(topo'[q].threads[k])].capacity = cap
        BY <1>1, <3>1, <3>3, <3>4
      <3> QED BY <3>5, <3>6
    <2>2. pc' = "done" /\ unread' = {} /\ tree'.perf_level_count = Cardinality(capacities')
      BY <1>1
    <2>3. \A cap \in capacities' : \E s \in CoreRecordsRead' : s.efficiency_class = cap
      BY <1>1, <1>6 DEF WindowsInv, WindowsLevels
    <2> QED BY <2>1, <2>2, <2>3 DEF WindowsLevels, Tier
  <1> QED BY <1>1, <1>3, <1>4, <1>5, <1>7, <1>8, <1>9 DEF TopologyInv, WindowsInv

LEMMA WindowsKept ==
  ASSUME TypeOK, TopologyInv, OnWindows(WindowsBuild), UNCHANGED platform PROVE TopologyInv'
  BY AskLengthInv, FetchInv, ReadPlaceInv, PlacesReadInv, ReadCoreRecordInv, RankAndEmitInv
     DEF OnWindows, WindowsBuild


-----------------------------------------------------------------------------
(* The invariant holds.                                                    *)

LEMMA InvKept == ASSUME TypeOK, TopologyInv, [Next]_vars PROVE TopologyInv'
  <1>1. CASE Build
    BY <1>1, LinuxKept, WindowsKept, MacKept DEF Build
  <1>2. CASE Hotplug
    BY <1>2, HotplugKept
  <1>3. CASE UNCHANGED vars
    <2> USE <1>3 DEF vars, machine, linuxVars, entries, reads, windowsVars, snapshot, counters,
                     macVars
    <2>1. MachineInv' /\ TreeInv'
      <3>1. TreeInv'
        <4>1. NodesOf(topo)' = NodesOf(topo')
          BY DEF NodesOf, NodeIds, LlcIds, CoreIds, Ordered
        <4> QED BY <4>1 DEF TopologyInv, TreeInv
      <3>2. MachineInv'
        BY DEF TopologyInv, MachineInv, Online
      <3> QED BY <3>1, <3>2
    <2>2. ASSUME platform = "linux" PROVE LinuxInv'
      <3>1. LinuxInv
        BY <2>2 DEF TopologyInv
      <3>2. EntriesInv'
        BY <3>1 DEF LinuxInv, EntriesInv, EntriesLeft
      <3>3. FiledBefore' = FiledBefore /\ Cpu' = Cpu
        BY DEF FiledBefore, Cpu
      <3>4. FiledOnce(topo, FiledBefore)'
        BY <3>1, <3>3 DEF LinuxInv, FiledOnce
      <3>5. PlacesInv'
        BY <3>1 DEF LinuxInv, PlacesInv, LlcRead
      <3>6. LinuxLevels'
        BY <3>1 DEF LinuxInv, LinuxLevels, HonestCores, LlcRead, Tier
      <3>7. ReadsInv => ReadsInv'
        BY <3>3 DEF ReadsInv, LlcRead
      <3> QED BY <3>1, <3>2, <3>4, <3>5, <3>6, <3>7 DEF LinuxInv
    <2>3. ASSUME platform = "windows" PROVE WindowsInv'
      <3>1. WindowsInv
        BY <2>3 DEF TopologyInv
      <3>2. BufferInv' /\ NotedInv'
        BY <3>1 DEF WindowsInv, BufferInv, NotedInv, Of, L3, HonestCores, LlcRead, HwPlace
      <3>3. RecordsInv'
        BY <3>1 DEF WindowsInv, RecordsInv, Of, HwPlace, PlaceOf
      <3>4. CoreRecordsRead' = CoreRecordsRead
        BY DEF CoreRecordsRead, Of
      <3>5. HonestCores' = HonestCores /\ \A cap : Tier(cap)' = Tier(cap)
        BY DEF HonestCores, LlcRead, Tier
      <3>6. WindowsLevels'
        BY <3>1, <3>4, <3>5 DEF WindowsInv, WindowsLevels
      <3>7. CpusRead' = CpusRead
        BY <3>4 DEF CpusRead
      <3>8. FiledOnce(topo, CpusRead)'
        BY <3>1, <3>7 DEF WindowsInv, FiledOnce
      <3> QED BY <3>1, <3>2, <3>3, <3>6, <3>8 DEF WindowsInv
    <2>4. platform = "mac" => MacInv' /\ counts' \in LevelCounts
      BY DEF TopologyInv, MacInv, MadeUpCore
    <2>5. platform = "other" => OtherInv'
      BY DEF TopologyInv, OtherInv
    <2> QED BY <2>1, <2>2, <2>3, <2>4, <2>5 DEF TopologyInv
  <1> QED BY <1>1, <1>2, <1>3 DEF Next, Terminating

\* The inductive invariant holds in every state of every build.
THEOREM Invariance == Spec => [](TypeOK /\ TopologyInv)
  <1>1. TypeOK /\ TopologyInv /\ [Next]_vars => (TypeOK /\ TopologyInv)'
    BY TypesKept, InvKept
  <1> QED BY InitInv, <1>1, PTL DEF Spec

\* Every variable of the build keeps its type.
THEOREM TypeCorrect == Spec => []TypeOK
  BY Invariance, PTL

-----------------------------------------------------------------------------
(* The tree.                                                               *)

LEMMA ThreadsOfTree ==
  /\ \A p \in TreeThreads : /\ p = <<p[1], p[2], p[3], p[4]>>
                            /\ InVectors(tree.numa_nodes, p)
                            /\ p[4] \in DOMAIN TreeCore(p).threads
  /\ \A n, l, c, r : InVectors(tree.numa_nodes, <<n, l, c>>)
                       /\ r \in DOMAIN tree.numa_nodes[n][l][c].threads
                     => <<n, l, c, r>> \in TreeThreads
  <1> DEFINE N == tree.numa_nodes
  <1>1. ASSUME NEW p \in TreeThreads
        PROVE  /\ p = <<p[1], p[2], p[3], p[4]>>
               /\ InVectors(tree.numa_nodes, p)
               /\ p[4] \in DOMAIN TreeCore(p).threads
    <2>1. PICK n \in DOMAIN N :
            p \in UNION {UNION {{<<n, l, c, r>> : r \in DOMAIN N[n][l][c].threads} :
                    c \in DOMAIN N[n][l]} : l \in DOMAIN N[n]}
      BY DEF TreeThreads
    <2>2. PICK l \in DOMAIN N[n] :
            p \in UNION {{<<n, l, c, r>> : r \in DOMAIN N[n][l][c].threads} :
                    c \in DOMAIN N[n][l]}
      BY <2>1
    <2>3. PICK c \in DOMAIN N[n][l] : p \in {<<n, l, c, r>> : r \in DOMAIN N[n][l][c].threads}
      BY <2>2
    <2>4. PICK r \in DOMAIN N[n][l][c].threads : p = <<n, l, c, r>>
      BY <2>3
    <2> QED BY <2>4 DEF InVectors, TreeCore
  <1>2. ASSUME NEW n, NEW l, NEW c, NEW r, InVectors(N, <<n, l, c>>),
               r \in DOMAIN N[n][l][c].threads
        PROVE  <<n, l, c, r>> \in TreeThreads
    <2>1. n \in DOMAIN N /\ l \in DOMAIN N[n] /\ c \in DOMAIN N[n][l]
      BY <1>2 DEF InVectors
    <2>2. <<n, l, c, r>> \in UNION {{<<n, l, e, s>> : s \in DOMAIN N[n][l][e].threads} :
                                      e \in DOMAIN N[n][l]}
      BY <1>2, <2>1
    <2>3. <<n, l, c, r>> \in
            UNION {UNION {{<<n, m, e, s>> : s \in DOMAIN N[n][m][e].threads} :
                            e \in DOMAIN N[n][m]} : m \in DOMAIN N[n]}
      BY <2>1, <2>2
    <2> QED BY <2>1, <2>3 DEF TreeThreads
  <1> QED BY <1>1, <1>2

\* The prefixes of positions and places.
LEMMA SamePrefix ==
  ASSUME NEW s, NEW t, NEW a, NEW b, NEW c, NEW d, NEW e, NEW f
  PROVE  /\ \A k \in {1, 2, 3} : s = <<a, b, c>> /\ t = <<d, e, f>> =>
              (SubSeq(s, 1, k) = SubSeq(t, 1, k) <=> \A i \in 1..k : s[i] = t[i])
         /\ \A g, h : \A k \in {1, 2, 3} : s = <<a, b, c, g>> /\ t = <<d, e, f, h>> =>
              (SubSeq(s, 1, k) = SubSeq(t, 1, k) <=> \A i \in 1..k : s[i] = t[i])
  OBVIOUS

\* When the build is over, the map and the tree correspond.
LEMMA MapOfTree ==
  ASSUME TypeOK, TopologyInv, pc = "done", platform # "mac"
  PROVE  /\ FiniteMap(topo) /\ tree.numa_nodes = NodesOf(topo)
         /\ \A p \in TreeThreads : /\ KeyAt(topo, p) \in DOMAIN topo
                                   /\ TreeCore(p) = topo[KeyAt(topo, p)]
                                   /\ p[4] \in DOMAIN topo[KeyAt(topo, p)].threads
                                   /\ CpuOf(p) = CpuIn(topo[KeyAt(topo, p)].threads[p[4]])
         /\ \A q \in DOMAIN topo : \A r \in DOMAIN topo[q].threads :
              \E p \in TreeThreads : KeyAt(topo, p) = q /\ p[4] = r
  <1>1. tree.numa_nodes = NodesOf(topo)
    BY DEF TopologyInv, TreeInv
  <1>2. FiniteMap(topo)
    <2>1. platform \in {"linux", "windows", "other"}
      BY PlatformsAssumption DEF TypeOK
    <2>2. IsFiniteSet(DOMAIN topo)
      <3>1. platform = "other" => FiledOnce(topo, {})
        BY NothingFiled DEF TopologyInv, OtherInv
      <3> QED BY <2>1, <3>1 DEF TopologyInv, LinuxInv, WindowsInv, FiledOnce
    <2> QED BY <2>2, MapTyped DEF ThreadsTyped, FiniteMap
  <1>3. ASSUME NEW p \in TreeThreads
        PROVE  /\ KeyAt(topo, p) \in DOMAIN topo
               /\ TreeCore(p) = topo[KeyAt(topo, p)]
               /\ p[4] \in DOMAIN topo[KeyAt(topo, p)].threads
               /\ CpuOf(p) = CpuIn(topo[KeyAt(topo, p)].threads[p[4]])
    <2>1. InVectors(NodesOf(topo), p) /\ p[4] \in DOMAIN TreeCore(p).threads
      BY <1>1, ThreadsOfTree
    <2>2. KeyAt(topo, p) \in DOMAIN topo
          /\ NodesOf(topo)[p[1]][p[2]][p[3]] = topo[KeyAt(topo, p)]
      BY <1>2, <2>1, KeyHolds
    <2>3. TreeCore(p) = topo[KeyAt(topo, p)]
      BY <1>1, <2>2 DEF TreeCore
    <2> QED BY <2>1, <2>2, <2>3 DEF CpuOf, ThreadAt
  <1>4. ASSUME NEW q \in DOMAIN topo, NEW r \in DOMAIN topo[q].threads
        PROVE  \E p \in TreeThreads : KeyAt(topo, p) = q /\ p[4] = r
    <2>1. PICK n, l, c : InVectors(NodesOf(topo), <<n, l, c>>) /\ KeyAt(topo, <<n, l, c>>) = q
      BY <1>2, KeyFound
    <2> DEFINE p == <<n, l, c, r>>
    <2>2. NodesOf(topo)[n][l][c] = topo[q]
      BY <1>2, <2>1, KeyHolds
    <2>3. p \in TreeThreads
      BY <1>1, <2>1, <2>2, ThreadsOfTree
    <2>4. KeyAt(topo, p) = KeyAt(topo, <<n, l, c>>) /\ p[4] = r
      BY DEF KeyAt
    <2> QED BY <2>1, <2>3, <2>4
  <1> QED BY <1>1, <1>2, <1>3, <1>4


\* On a system with the map: what it holds in the end are the CPUs listed.
LEMMA ListedFiled ==
  ASSUME TypeOK, TopologyInv, pc = "done", platform # "mac"
  PROVE  FiledOnce(topo, Listed)
  <1>1. platform \in {"linux", "windows", "other"}
    BY PlatformsAssumption DEF TypeOK
  <1>2. CASE platform = "linux"
    <2>1. EntriesInv /\ FiledOnce(topo, FiledBefore) /\ Listed = {e[1] : e \in Range(cpu_entries)}
      BY <1>2 DEF TopologyInv, LinuxInv, Listed
    <2>2. /\ Len(cpu_entries) \in Nat /\ DOMAIN cpu_entries = 1..Len(cpu_entries)
          /\ x \in Nat /\ x <= Len(cpu_entries) + 1 /\ ~(x <= Len(cpu_entries))
      BY <2>1 DEF EntriesInv, EntriesLeft, TypeOK
    <2>3. x - 1 = Len(cpu_entries)
      BY <2>2
    <2>4. FiledBefore = Listed
      BY <2>1, <2>2, <2>3 DEF FiledBefore, Range
    <2> QED BY <2>1, <2>4
  <1>3. CASE platform = "windows"
    <2>1. /\ FiledOnce(topo, CpusRead) /\ unread = {}
          /\ Listed = UNION {r.mask : r \in Of({"core"})}
      BY <1>3 DEF TopologyInv, WindowsInv, WindowsLevels, Listed
    <2>2. CpusRead = Listed
      BY <2>1 DEF CpusRead, CoreRecordsRead
    <2> QED BY <2>1, <2>2
  <1>4. CASE platform = "other"
    <2>1. topo = <<>> /\ Listed = {}
      BY <1>4 DEF TopologyInv, OtherInv, Listed
    <2> QED BY <2>1, NothingFiled
  <1> QED BY <1>1, <1>2, <1>3, <1>4

\* There are as many places as CPUs when each CPU has one place.
LEMMA AsManyPlaces ==
  ASSUME NEW L, IsFiniteSet(L), {CpuOf(p) : p \in TreeThreads} = L,
         \A p, q \in TreeThreads : CpuOf(p) = CpuOf(q) => p = q
  PROVE  Cardinality(TreeThreads) = Cardinality(L)
  <1> DEFINE g == [c \in L |-> CHOOSE p \in TreeThreads : CpuOf(p) = c]
  <1>1. \A c \in L : g[c] \in TreeThreads /\ CpuOf(g[c]) = c
    OBVIOUS
  <1>2. \A p \in TreeThreads : CpuOf(p) \in L
    OBVIOUS
  <1>3. g \in [L -> TreeThreads]
    BY <1>1
  <1> HIDE DEF g
  <1>4. \A p \in TreeThreads : g[CpuOf(p)] = p
    BY <1>1, <1>2
  <1>5. g \in Injection(L, TreeThreads)
    BY <1>1, <1>3 DEF Injection, IsInjective
  <1>6. g \in Surjection(L, TreeThreads)
    BY <1>2, <1>3, <1>4 DEF Surjection
  <1>7. g \in Bijection(L, TreeThreads)
    BY <1>5, <1>6 DEF Bijection
  <1>8. ExistsBijection(L, TreeThreads)
    BY <1>7 DEF ExistsBijection
  <1> QED BY <1>8, FS_Bijection

LEMMA ListedFinite == ASSUME TypeOK, TopologyInv PROVE IsFiniteSet(Listed)
  <1>1. platform \in {"linux", "windows", "mac", "other"}
    BY PlatformsAssumption DEF TypeOK
  <1>2. IsFiniteSet(Cpus)
    BY TopologyAssumption
  <1>3. CASE platform = "linux"
    <2>1. Listed \in SUBSET Cpus
      BY <1>3 DEF Listed, TypeOK, Range
    <2> QED BY <1>2, <2>1, FS_Subset
  <1>4. CASE platform = "windows"
    <2>1. Listed \in SUBSET Cpus
      BY <1>4 DEF Listed, TopologyInv, WindowsInv, BufferInv, Of
    <2> QED BY <1>2, <2>1, FS_Subset
  <1>5. CASE platform = "mac"
    <2>1. Listed = 0..(gid - 1) /\ gid \in Nat
      BY <1>5 DEF Listed, TypeOK
    <2> QED BY <2>1, FS_Interval
  <1>6. CASE platform = "other"
    BY <1>6, FS_EmptySet DEF Listed
  <1> QED BY <1>1, <1>3, <1>4, <1>5, <1>6

\* The tree macOS gets.
LEMMA TreeOfLevels ==
  ASSUME TypeOK, TopologyInv, pc = "done", platform = "mac"
  PROVE  /\ \A p \in TreeThreads :
              /\ p = <<1, p[2], p[3], 1>>
              /\ p[2] \in DOMAIN llc_groups /\ p[3] \in DOMAIN llc_groups[p[2]]
              /\ TreeCore(p) = llc_groups[p[2]][p[3]]
              /\ TreeCore(p) = MadeUpCore(TreeCore(p).core_id, p[2] - 1)
              /\ TreeCore(p).core_id \in 0..(gid - 1)
              /\ CpuOf(p) = TreeCore(p).core_id
              /\ ThreadAt(p).thread_index = 0 /\ ThreadAt(p).core_id = TreeCore(p).core_id
         /\ \A id \in 0..(gid - 1) : \E p \in TreeThreads : TreeCore(p).core_id = id
  <1>1. MacInv /\ tree.numa_nodes = <<llc_groups>>
    BY DEF TopologyInv, MacInv
  <1>2. gid \in Nat /\ llc_groups \in Seq(Seq(CoreType)) /\ GroupSize \in Nat
    BY TopologyAssumption DEF TypeOK
  <1>3. ASSUME NEW l \in DOMAIN llc_groups, NEW i \in DOMAIN llc_groups[l]
        PROVE  /\ llc_groups[l][i] = MadeUpCore(llc_groups[l][i].core_id, l - 1)
               /\ llc_groups[l][i].core_id \in 0..(gid - 1)
               /\ DOMAIN llc_groups[l][i].threads = {1}
               /\ CpuIn(llc_groups[l][i].threads[1]) = llc_groups[l][i].core_id
               /\ llc_groups[l][i].threads[1].thread_index = 0
               /\ llc_groups[l][i].threads[1].core_id = llc_groups[l][i].core_id
    <2> DEFINE core == llc_groups[l][i]
               id == core.core_id
    <2>1. core = MadeUpCore(id, l - 1) /\ id < gid
      BY <1>1 DEF MacInv
    <2>2. core \in CoreType
      BY <1>2
    <2> HIDE DEF core
    <2>3. id \in Nat
      BY <2>2 DEF CoreType
    <2> HIDE DEF id
    <2>4. /\ core.threads = <<[thread_index |-> 0, core_id |-> id, os_id |-> id, group_id |-> 0]>>
      BY <2>1 DEF MadeUpCore
    <2>5. DOMAIN core.threads = {1}
      BY <2>4
    <2>6. /\ core.threads[1].thread_index = 0 /\ core.threads[1].core_id = id
          /\ CpuIn(core.threads[1]) = id
      BY <1>2, <2>3, <2>4 DEF CpuIn
    <2> QED BY <1>2, <2>1, <2>3, <2>5, <2>6 DEF core, id
  <1>4. ASSUME NEW p \in TreeThreads
        PROVE  /\ p = <<1, p[2], p[3], 1>>
               /\ p[2] \in DOMAIN llc_groups /\ p[3] \in DOMAIN llc_groups[p[2]]
               /\ TreeCore(p) = llc_groups[p[2]][p[3]]
               /\ ThreadAt(p) = llc_groups[p[2]][p[3]].threads[1]
    <2>1. /\ p = <<p[1], p[2], p[3], p[4]>> /\ InVectors(tree.numa_nodes, p)
          /\ p[4] \in DOMAIN TreeCore(p).threads
      BY ThreadsOfTree
    <2>2. p[1] = 1
      BY <1>1, <2>1 DEF InVectors
    <2>3. p[2] \in DOMAIN llc_groups /\ p[3] \in DOMAIN llc_groups[p[2]]
          /\ TreeCore(p) = llc_groups[p[2]][p[3]]
      BY <1>1, <2>1, <2>2 DEF InVectors, TreeCore
    <2>4. p[4] = 1
      BY <1>3, <2>1, <2>3
    <2> QED BY <2>1, <2>2, <2>3, <2>4 DEF ThreadAt
  <1>5. ASSUME NEW id \in 0..(gid - 1) PROVE \E p \in TreeThreads : TreeCore(p).core_id = id
    <2>1. PICK l \in DOMAIN llc_groups : \E i \in DOMAIN llc_groups[l] :
            llc_groups[l][i].core_id = id
      BY <1>1 DEF MacInv
    <2>2. PICK i \in DOMAIN llc_groups[l] : llc_groups[l][i].core_id = id
      BY <2>1
    <2>3. tree.numa_nodes[1] = llc_groups /\ 1 \in DOMAIN tree.numa_nodes
      BY <1>1
    <2>4. InVectors(tree.numa_nodes, <<1, l, i>>) /\ 1 \in DOMAIN llc_groups[l][i].threads
      BY <1>3, <2>3 DEF InVectors
    <2>5. <<1, l, i, 1>> \in TreeThreads
      BY <2>3, <2>4, ThreadsOfTree
    <2>6. TreeCore(<<1, l, i, 1>>) = llc_groups[l][i]
      BY <2>3 DEF TreeCore
    <2> QED BY <2>2, <2>5, <2>6
  <1>6. ASSUME NEW p \in TreeThreads
        PROVE  /\ TreeCore(p) = MadeUpCore(TreeCore(p).core_id, p[2] - 1)
               /\ TreeCore(p).core_id \in 0..(gid - 1)
               /\ CpuOf(p) = TreeCore(p).core_id
               /\ ThreadAt(p).thread_index = 0 /\ ThreadAt(p).core_id = TreeCore(p).core_id
    BY <1>3, <1>4 DEF CpuOf
  <1> QED BY <1>4, <1>5, <1>6

LEMMA OnceOnMac ==
  ASSUME TypeOK, TopologyInv, pc = "done", platform = "mac" PROVE EveryCpuOnce
  <1>1. Listed = 0..(gid - 1)
    BY DEF Listed
  <1>2. {CpuOf(p) : p \in TreeThreads} = Listed
    BY <1>1, TreeOfLevels
  <1>3. ASSUME NEW p \in TreeThreads, NEW q \in TreeThreads,
               TreeCore(p).core_id = TreeCore(q).core_id
        PROVE  p = q
    <2>1. /\ p = <<1, p[2], p[3], 1>> /\ q = <<1, q[2], q[3], 1>>
          /\ p[2] \in DOMAIN llc_groups /\ p[3] \in DOMAIN llc_groups[p[2]]
          /\ q[2] \in DOMAIN llc_groups /\ q[3] \in DOMAIN llc_groups[q[2]]
          /\ TreeCore(p) = llc_groups[p[2]][p[3]] /\ TreeCore(q) = llc_groups[q[2]][q[3]]
      BY TreeOfLevels
    <2>2. p[2] = q[2] /\ p[3] = q[3]
      BY <1>3, <2>1 DEF TopologyInv, MacInv
    <2> QED BY <2>1, <2>2
  <1>4. \A p, q \in TreeThreads : CpuOf(p) = CpuOf(q) => p = q
    BY <1>3, TreeOfLevels
  <1>5. Cardinality(TreeThreads) = Cardinality(Listed)
    BY <1>2, <1>4, ListedFinite, AsManyPlaces
  <1>6. \A p \in TreeThreads : /\ ThreadAt(p).thread_index = p[4] - 1
                               /\ ThreadAt(p).core_id = TreeCore(p).core_id
    <2> SUFFICES ASSUME NEW p \in TreeThreads
                 PROVE  /\ ThreadAt(p).thread_index = p[4] - 1
                        /\ ThreadAt(p).core_id = TreeCore(p).core_id
      OBVIOUS
    <2>1. /\ p = <<1, p[2], p[3], 1>>
          /\ ThreadAt(p).thread_index = 0 /\ ThreadAt(p).core_id = TreeCore(p).core_id
      BY TreeOfLevels
    <2>2. p[4] = 1
      BY <2>1
    <2> QED BY <2>1, <2>2
  <1> QED BY <1>2, <1>3, <1>5, <1>6 DEF EveryCpuOnce

LEMMA OnceInMap ==
  ASSUME TypeOK, TopologyInv, pc = "done", platform # "mac" PROVE EveryCpuOnce
  <1> DEFINE key(p) == KeyAt(topo, p)
  <1>1. /\ FiniteMap(topo) /\ tree.numa_nodes = NodesOf(topo)
        /\ \A p \in TreeThreads : /\ key(p) \in DOMAIN topo
                                  /\ TreeCore(p) = topo[key(p)]
                                  /\ p[4] \in DOMAIN topo[key(p)].threads
                                  /\ CpuOf(p) = CpuIn(topo[key(p)].threads[p[4]])
    BY MapOfTree
  <1>2. \A q \in DOMAIN topo : \A r \in DOMAIN topo[q].threads :
          \E p \in TreeThreads : key(p) = q /\ p[4] = r
    BY MapOfTree
  <1>3. FiledOnce(topo, Listed)
    BY ListedFiled
  <1>4. \A p \in TreeThreads : /\ p = <<p[1], p[2], p[3], p[4]>>
                               /\ InVectors(NodesOf(topo), p)
    BY <1>1, ThreadsOfTree
  <1> HIDE DEF key
  <1>5. ASSUME NEW c \in Listed PROVE \E p \in TreeThreads : CpuOf(p) = c
    <2>1. PICK q \in DOMAIN topo : \E r \in DOMAIN topo[q].threads :
            CpuIn(topo[q].threads[r]) = c
      BY <1>3 DEF FiledOnce
    <2>2. PICK r \in DOMAIN topo[q].threads : CpuIn(topo[q].threads[r]) = c
      BY <2>1
    <2>3. PICK p \in TreeThreads : key(p) = q /\ p[4] = r
      BY <1>2
    <2>4. CpuOf(p) = c
      BY <1>1, <2>2, <2>3
    <2> QED BY <2>4
  <1>6. {CpuOf(p) : p \in TreeThreads} = Listed
    <2>1. \A p \in TreeThreads : CpuOf(p) \in Listed
      BY <1>1, <1>3 DEF FiledOnce
    <2> QED BY <1>5, <2>1
  <1>7. ASSUME NEW p \in TreeThreads, NEW q \in TreeThreads
        PROVE  LET a == key(p)
                   b == key(q)
               IN  /\ a[1] = b[1] <=> p[1] = q[1]
                   /\ a[1] = b[1] /\ a[2] = b[2] <=> p[1] = q[1] /\ p[2] = q[2]
                   /\ a = b <=> p[1] = q[1] /\ p[2] = q[2] /\ p[3] = q[3]
    BY <1>1, <1>4, KeysAgree DEF key
  <1>8. \A p, q \in TreeThreads : CpuOf(p) = CpuOf(q) => p = q
    <2> SUFFICES ASSUME NEW p \in TreeThreads, NEW q \in TreeThreads, CpuOf(p) = CpuOf(q)
                 PROVE  p = q
      OBVIOUS
    <2>1. key(p) = key(q) /\ p[4] = q[4]
      BY <1>1, <1>3 DEF FiledOnce
    <2>2. p[1] = q[1] /\ p[2] = q[2] /\ p[3] = q[3]
      BY <1>7, <2>1
    <2> QED BY <1>4, <2>1, <2>2
  <1>9. Cardinality(TreeThreads) = Cardinality(Listed)
    BY <1>6, <1>8, ListedFinite, AsManyPlaces
  <1>10. \A p \in TreeThreads : /\ ThreadAt(p).thread_index = p[4] - 1
                                /\ ThreadAt(p).core_id = TreeCore(p).core_id
    BY <1>1, <1>3 DEF FiledOnce, ThreadAt
  <1>11. ASSUME NEW p \in TreeThreads, NEW q \in TreeThreads,
                SubSeq(p, 1, 2) = SubSeq(q, 1, 2), TreeCore(p).core_id = TreeCore(q).core_id
         PROVE  p[3] = q[3]
    <2>1. p[1] = q[1] /\ p[2] = q[2]
      <3>1. \A i \in 1..2 : p[i] = q[i]
        BY <1>4, <1>11, SamePrefix
      <3> QED BY <3>1
    <2>2. key(p)[1] = key(q)[1] /\ key(p)[2] = key(q)[2]
      BY <1>7, <2>1
    <2>3. key(p)[3] = key(q)[3]
      BY <1>1, <1>3, <1>11 DEF FiledOnce
    <2>4. key(p) \in Nat \X Nat \X Nat /\ key(q) \in Nat \X Nat \X Nat
      BY <1>1 DEF FiniteMap
    <2>5. key(p) = key(q)
      BY <2>2, <2>3, <2>4
    <2> QED BY <1>7, <2>5
  <1> QED BY <1>6, <1>9, <1>10, <1>11 DEF EveryCpuOnce

\* A tree that is returned has each CPU the build was told of once, on every
\* system, for every machine and whatever hotplug does meanwhile.
THEOREM CpusAreKept == Spec => []EveryCpuOnce
  <1>1. TypeOK /\ TopologyInv => EveryCpuOnce
    <2>1. CASE pc = "done"
      BY <2>1, OnceInMap, OnceOnMac
    <2>2. CASE pc # "done"
      BY <2>2 DEF EveryCpuOnce
    <2> QED BY <2>1, <2>2
  <1> QED BY <1>1, Invariance, PTL


\* No core of a tree that is returned has a level the tree does not count.
THEOREM LevelsAreCounted == Spec => []LevelsCounted
  <1>1. TypeOK /\ TopologyInv => LevelsCounted
    <2> SUFFICES ASSUME TypeOK, TopologyInv, pc = "done", NEW p \in TreeThreads
                 PROVE  TreeCore(p).perf_level < tree.perf_level_count
      BY DEF LevelsCounted
    <2>1. platform \in {"linux", "windows", "mac", "other"}
      BY PlatformsAssumption DEF TypeOK
    <2>2. CASE platform = "mac"
      <3>1. /\ p[2] \in DOMAIN llc_groups
            /\ TreeCore(p) = MadeUpCore(TreeCore(p).core_id, p[2] - 1)
        BY <2>2, TreeOfLevels
      <3>2. TreeCore(p).perf_level = p[2] - 1
        BY <3>1 DEF MadeUpCore
      <3>3. tree.perf_level_count = Len(llc_groups) /\ Len(llc_groups) \in Nat
            /\ DOMAIN llc_groups = 1..Len(llc_groups)
        BY <2>2 DEF TopologyInv, MacInv, TypeOK
      <3> QED BY <3>1, <3>2, <3>3
    <2>3. CASE platform # "mac"
      <3> DEFINE q == KeyAt(topo, p)
      <3>1. q \in DOMAIN topo /\ TreeCore(p) = topo[q]
        BY <2>3, MapOfTree
      <3> HIDE DEF q
      <3>2. CASE platform = "linux"
        BY <3>1, <3>2 DEF TopologyInv, LinuxInv, EntriesInv, LinuxLevels
      <3>3. CASE platform = "windows"
        <4>1. WindowsLevels /\ MachineInv
          BY <3>3 DEF TopologyInv, WindowsInv
        <4>2. PICK cap \in capacities : topo[q].perf_level = Tier(cap)
          BY <3>1, <4>1 DEF WindowsLevels
        <4>3. tree.perf_level_count = Cardinality(capacities)
          BY <4>1 DEF WindowsLevels
        <4> QED BY <3>1, <4>1, <4>2, <4>3, TierCounted
      <3>4. CASE platform = "other"
        BY <3>1, <3>4, NothingFiled DEF TopologyInv, OtherInv
      <3> QED BY <2>1, <2>3, <3>2, <3>3, <3>4
    <2> QED BY <2>2, <2>3
  <1> QED BY <1>1, Invariance, PTL

-----------------------------------------------------------------------------
(* Places.                                                                 *)

\* How the keys of two CPUs whose place was told compare.
LEMMA KeysAsPlaces ==
  ASSUME TypeOK, TopologyInv, pc = "done", platform # "mac",
         NEW q \in DOMAIN topo, NEW r \in DOMAIN topo[q].threads,
         NEW u \in DOMAIN topo, NEW s \in DOMAIN topo[u].threads,
         NEW c, c = CpuIn(topo[q].threads[r]), PlaceTold(c),
         NEW d, d = CpuIn(topo[u].threads[s]), PlaceTold(d)
  PROVE  /\ q[1] = u[1] <=> hw[c].node = hw[d].node
         /\ hw[c].llc # NoLlc /\ hw[d].llc # NoLlc =>
              (q[2] = u[2] <=> hw[c].llc = hw[d].llc)
         /\ (hw[c].llc = NoLlc <=> hw[d].llc = NoLlc) =>
              (q = u <=> HwPlace(c) = HwPlace(d))
  <1>1. platform \in {"linux", "windows"}
    BY PlatformsAssumption DEF TypeOK, PlaceTold
  <1>2. CASE platform = "linux"
    <2>1. c \notin touched /\ d \notin touched
      BY <1>2 DEF PlaceTold
    <2>2. PlacesInv
      BY <1>2 DEF TopologyInv, LinuxInv
    <2>3. /\ q = <<hw[c].node, LlcRead(c), hw[c].core>>
          /\ u = <<hw[d].node, LlcRead(d), hw[d].core>>
      BY <2>1, <2>2 DEF PlacesInv
    <2>4. q[1] = u[1] <=> hw[c].node = hw[d].node
      BY ONLY <2>3
    <2>5. q[2] = LlcRead(c) /\ u[2] = LlcRead(d)
      BY ONLY <2>3
    <2>6. q = u <=> hw[c].node = hw[d].node /\ LlcRead(c) = LlcRead(d) /\ hw[c].core = hw[d].core
      BY ONLY <2>3
    <2>7. HwPlace(c) = HwPlace(d) <=>
            hw[c].node = hw[d].node /\ hw[c].llc = hw[d].llc /\ hw[c].core = hw[d].core
      BY DEF HwPlace
    <2>8. ASSUME hw[c].llc = NoLlc <=> hw[d].llc = NoLlc
          PROVE  LlcRead(c) = LlcRead(d) <=> hw[c].llc = hw[d].llc
      BY <2>8 DEF LlcRead
    <2>9. hw[c].llc # NoLlc /\ hw[d].llc # NoLlc => (q[2] = u[2] <=> hw[c].llc = hw[d].llc)
      BY <2>5, <2>8
    <2>10. (hw[c].llc = NoLlc <=> hw[d].llc = NoLlc) => (q = u <=> HwPlace(c) = HwPlace(d))
      BY <2>6, <2>7, <2>8
    <2> QED BY <2>4, <2>9, <2>10
  <1>3. CASE platform = "windows"
    <2>1. /\ BufferInv /\ NotedInv /\ RecordsInv /\ unread = {}
          /\ FiledOnce(topo, CpusRead)
      BY <1>3 DEF TopologyInv, WindowsInv, WindowsLevels
    <2>2. Of({"node"}) \ unread = Of({"node"}) /\ L3 \ unread = L3
      BY <2>1
    <2>3. ASSUME NEW e \in {c, d}
          PROVE  /\ e \in DOMAIN cpu_to_numa /\ cpu_to_numa[e] = hw[e].node
                 /\ \E n \in Of({"node"}) : e \in n.mask
                 /\ hw[e].llc # NoLlc => e \in DOMAIN cpu_to_llc
      <3>1. PICK n \in Of({"node"}) : e \in n.mask
        BY <1>3, <2>3 DEF PlaceTold
      <3>2. e \in DOMAIN cpu_to_numa /\ cpu_to_numa[e] = hw[e].node
        BY <2>1, <2>2, <3>1 DEF NotedInv
      <3>3. PICK rec \in Of({"core"}) : e \in rec.mask
        <4>1. e \in CpusRead
          BY <2>1, <2>3 DEF FiledOnce
        <4> QED BY <2>1, <4>1 DEF CpusRead, CoreRecordsRead
      <3>4. hw[e].llc # NoLlc => e \in DOMAIN cpu_to_llc
        <4>1. hw[e].llc # NoLlc => \E l \in L3 : e \in l.mask
          BY <2>1, <3>3 DEF BufferInv
        <4> QED BY <2>1, <2>2, <4>1 DEF NotedInv
      <3> QED BY <3>1, <3>2, <3>4
    <2>4. q[1] = hw[c].node /\ u[1] = hw[d].node
      <3>1. q[1] = PlaceOf(cpu_to_numa, c) /\ u[1] = PlaceOf(cpu_to_numa, d)
        BY <2>1, <2>3 DEF RecordsInv
      <3> QED BY <2>3, <3>1 DEF PlaceOf
    <2>5. q[2] = PlaceOf(cpu_to_llc, c) /\ u[2] = PlaceOf(cpu_to_llc, d)
      BY <2>1 DEF RecordsInv
    <2>6. ASSUME hw[c].llc # NoLlc, hw[d].llc # NoLlc
          PROVE  q[2] = u[2] <=> hw[c].llc = hw[d].llc
      <3>1. c \in DOMAIN cpu_to_llc /\ d \in DOMAIN cpu_to_llc
        BY <2>3, <2>6
      <3>2. q[2] = cpu_to_llc[c] /\ u[2] = cpu_to_llc[d]
        BY <2>5, <3>1 DEF PlaceOf
      <3> QED BY <2>1, <3>1, <3>2 DEF NotedInv
    <2>7. q = u <=> HwPlace(c) = HwPlace(d)
      BY <2>1 DEF RecordsInv
    <2> QED BY <2>4, <2>6, <2>7
  <1> QED BY <1>1, <1>2, <1>3

\* CPUs whose place was told truly are in one node, LLC group and core of the
\* tree just when they are on the machine.
THEOREM GroupedAsMachine == Spec => []UntouchedInPlace
  <1>1. TypeOK /\ TopologyInv => UntouchedInPlace
    <2> DEFINE Agree(p, q, c, d, k) == SubSeq(p, 1, k) = SubSeq(q, 1, k)
                                         <=> SubSeq(c, 1, k) = SubSeq(d, 1, k)
    <2> SUFFICES ASSUME TypeOK, TopologyInv, pc = "done",
                        NEW p \in TreeThreads, PlaceTold(CpuOf(p)),
                        NEW q \in TreeThreads, PlaceTold(CpuOf(q)),
                        NEW c, c = HwPlace(CpuOf(p)), NEW d, d = HwPlace(CpuOf(q))
                 PROVE  /\ Agree(p, q, c, d, 1)
                        /\ NoLlc \notin {c[2], d[2]} => Agree(p, q, c, d, 2)
                        /\ (c[2] = NoLlc <=> d[2] = NoLlc) => Agree(p, q, c, d, 3)
      BY DEF UntouchedInPlace
    <2>1. platform # "mac"
      BY PlatformsAssumption DEF TypeOK, PlaceTold
    <2> DEFINE a == KeyAt(topo, p)
               b == KeyAt(topo, q)
               e == CpuOf(p)
               f == CpuOf(q)
    <2>2. /\ FiniteMap(topo) /\ tree.numa_nodes = NodesOf(topo)
          /\ a \in DOMAIN topo /\ p[4] \in DOMAIN topo[a].threads
          /\ b \in DOMAIN topo /\ q[4] \in DOMAIN topo[b].threads
          /\ e = CpuIn(topo[a].threads[p[4]]) /\ f = CpuIn(topo[b].threads[q[4]])
      BY <2>1, MapOfTree
    <2>3. /\ p = <<p[1], p[2], p[3], p[4]>> /\ InVectors(NodesOf(topo), p)
          /\ q = <<q[1], q[2], q[3], q[4]>> /\ InVectors(NodesOf(topo), q)
      BY <2>2, ThreadsOfTree
    <2>4. /\ a[1] = b[1] <=> p[1] = q[1]
          /\ a[1] = b[1] /\ a[2] = b[2] <=> p[1] = q[1] /\ p[2] = q[2]
          /\ a = b <=> p[1] = q[1] /\ p[2] = q[2] /\ p[3] = q[3]
      BY <2>2, <2>3, KeysAgree
    <2> HIDE DEF a, b, e, f
    <2>5. /\ a[1] = b[1] <=> hw[e].node = hw[f].node
          /\ hw[e].llc # NoLlc /\ hw[f].llc # NoLlc =>
               (a[2] = b[2] <=> hw[e].llc = hw[f].llc)
          /\ (hw[e].llc = NoLlc <=> hw[f].llc = NoLlc) =>
               (a = b <=> HwPlace(e) = HwPlace(f))
      <3>1. PlaceTold(e) /\ PlaceTold(f)
        BY DEF e, f
      <3> QED BY <2>1, <2>2, <3>1, KeysAsPlaces
    <2>6. /\ c = <<hw[e].node, hw[e].llc, hw[e].core>>
          /\ d = <<hw[f].node, hw[f].llc, hw[f].core>>
      BY DEF HwPlace, e, f
    <2>7. \A k \in {1, 2, 3} :
            /\ SubSeq(p, 1, k) = SubSeq(q, 1, k) <=> \A i \in 1..k : p[i] = q[i]
            /\ SubSeq(c, 1, k) = SubSeq(d, 1, k) <=> \A i \in 1..k : c[i] = d[i]
      BY <2>3, <2>6, SamePrefix
    <2>8. 1..1 = {1} /\ 1..2 = {1, 2} /\ 1..3 = {1, 2, 3}
      OBVIOUS
    <2>9. /\ c[1] = hw[e].node /\ c[2] = hw[e].llc /\ c[3] = hw[e].core
          /\ d[1] = hw[f].node /\ d[2] = hw[f].llc /\ d[3] = hw[f].core
          /\ HwPlace(e) = c /\ HwPlace(f) = d
          /\ c = d <=> c[1] = d[1] /\ c[2] = d[2] /\ c[3] = d[3]
      BY <2>6 DEF HwPlace
    <2>10. Agree(p, q, c, d, 1)
      <3>1. p[1] = q[1] <=> c[1] = d[1]
        BY <2>4, <2>5, <2>9
      <3>2. SubSeq(p, 1, 1) = SubSeq(q, 1, 1) <=> p[1] = q[1]
        BY <2>7, <2>8
      <3>3. SubSeq(c, 1, 1) = SubSeq(d, 1, 1) <=> c[1] = d[1]
        BY <2>7, <2>8
      <3> QED BY <3>1, <3>2, <3>3
    <2>11. ASSUME NoLlc \notin {c[2], d[2]} PROVE Agree(p, q, c, d, 2)
      <3>1. p[1] = q[1] /\ p[2] = q[2] <=> c[1] = d[1] /\ c[2] = d[2]
        BY <2>4, <2>5, <2>9, <2>11
      <3>2. SubSeq(p, 1, 2) = SubSeq(q, 1, 2) <=> p[1] = q[1] /\ p[2] = q[2]
        BY <2>7, <2>8
      <3>3. SubSeq(c, 1, 2) = SubSeq(d, 1, 2) <=> c[1] = d[1] /\ c[2] = d[2]
        BY <2>7, <2>8
      <3> QED BY <3>1, <3>2, <3>3
    <2>12. ASSUME c[2] = NoLlc <=> d[2] = NoLlc PROVE Agree(p, q, c, d, 3)
      <3>1. p[1] = q[1] /\ p[2] = q[2] /\ p[3] = q[3] <=> c = d
        BY <2>4, <2>5, <2>9, <2>12
      <3>2. SubSeq(p, 1, 3) = SubSeq(q, 1, 3) <=> p[1] = q[1] /\ p[2] = q[2] /\ p[3] = q[3]
        BY <2>7, <2>8
      <3>3. SubSeq(c, 1, 3) = SubSeq(d, 1, 3) <=> c[1] = d[1] /\ c[2] = d[2] /\ c[3] = d[3]
        BY <2>7, <2>8
      <3> QED BY <2>9, <3>1, <3>2, <3>3
    <2> QED BY <2>10, <2>11, <2>12
  <1> QED BY <1>1, Invariance, PTL

-----------------------------------------------------------------------------
(* Levels.                                                                 *)

\* On a machine that held still the level of a core is the tier of its CPUs,
\* and every capacity is that of some CPU.
LEMMA LevelsAreTiers ==
  ASSUME TypeOK, TopologyInv, pc = "done", touched = {}, HonestCores,
         platform \in {"linux", "windows"}
  PROVE  /\ \A q \in DOMAIN topo : \A r \in DOMAIN topo[q].threads :
              LET cap == hw[CpuIn(topo[q].threads[r])].capacity
              IN  cap \in capacities /\ topo[q].perf_level = Tier(cap)
         /\ \A cap \in capacities : \E q \in DOMAIN topo : \E r \in DOMAIN topo[q].threads :
              hw[CpuIn(topo[q].threads[r])].capacity = cap
         /\ tree.perf_level_count = Cardinality(capacities)
  <1>1. FiledOnce(topo, Listed)
    BY ListedFiled
  <1>2. CASE platform = "linux"
    <2>1. LinuxLevels /\ EntriesInv /\ Listed = {e[1] : e \in Range(cpu_entries)}
      BY <1>2 DEF TopologyInv, LinuxInv, Listed
    <2>2. /\ capacities = {e[2] : e \in Range(cpu_entries)}
          /\ tree.perf_level_count = Cardinality(capacities)
      BY <2>1 DEF EntriesInv
    <2>3. \A a \in DOMAIN cpu_entries : cpu_entries[a][2] = hw[cpu_entries[a][1]].capacity
      BY <2>1 DEF LinuxLevels
    <2>4. ASSUME NEW q \in DOMAIN topo, NEW r \in DOMAIN topo[q].threads
          PROVE  LET cap == hw[CpuIn(topo[q].threads[r])].capacity
                 IN  cap \in capacities /\ topo[q].perf_level = Tier(cap)
      <3>1. CpuIn(topo[q].threads[r]) \in Listed
        BY <1>1 DEF FiledOnce
      <3>2. PICK a \in DOMAIN cpu_entries : cpu_entries[a][1] = CpuIn(topo[q].threads[r])
        BY <2>1, <3>1 DEF Range
      <3>3. cpu_entries[a][2] \in capacities
        BY <2>2 DEF Range
      <3> QED BY <2>1, <2>3, <3>2, <3>3 DEF LinuxLevels
    <2>5. ASSUME NEW cap \in capacities
          PROVE  \E q \in DOMAIN topo : \E r \in DOMAIN topo[q].threads :
                   hw[CpuIn(topo[q].threads[r])].capacity = cap
      <3>1. PICK a \in DOMAIN cpu_entries : cpu_entries[a][2] = cap
        BY <2>2 DEF Range
      <3>2. cpu_entries[a][1] \in Listed
        BY <2>1 DEF Range
      <3> QED BY <1>1, <2>3, <3>1, <3>2 DEF FiledOnce
    <2> QED BY <2>2, <2>4, <2>5
  <1>3. CASE platform = "windows"
    <2>1. WindowsLevels /\ BufferInv /\ Listed = UNION {r.mask : r \in Of({"core"})}
      BY <1>3 DEF TopologyInv, WindowsInv, Listed
    <2>2. tree.perf_level_count = Cardinality(capacities)
      BY <2>1 DEF WindowsLevels
    <2>3. ASSUME NEW q \in DOMAIN topo, NEW r \in DOMAIN topo[q].threads
          PROVE  LET cap == hw[CpuIn(topo[q].threads[r])].capacity
                 IN  cap \in capacities /\ topo[q].perf_level = Tier(cap)
      BY <2>1 DEF WindowsLevels
    <2>4. ASSUME NEW cap \in capacities
          PROVE  \E q \in DOMAIN topo : \E r \in DOMAIN topo[q].threads :
                   hw[CpuIn(topo[q].threads[r])].capacity = cap
      <3>1. PICK s \in Of({"core"}) : s.efficiency_class = cap
        BY <2>1 DEF WindowsLevels, CoreRecordsRead
      <3>2. PICK c \in s.mask : hw[c].capacity = cap
        BY <2>1, <3>1 DEF BufferInv
      <3>3. c \in Listed
        BY <2>1
      <3> QED BY <1>1, <3>2, <3>3 DEF FiledOnce
    <2> QED BY <2>2, <2>3, <2>4
  <1> QED BY <1>2, <1>3

\* On a machine that holds still levels follow capacities, and none is empty.
THEOREM LevelsFollowCapacity == Spec => []TiersFollowCapacity
  <1>1. TypeOK /\ TopologyInv => TiersFollowCapacity
    <2> SUFFICES ASSUME TypeOK, TopologyInv, pc = "done", touched = {}, HonestCores,
                        platform \in {"linux", "windows"}
                 PROVE  /\ \A p, q \in TreeThreads :
                             hw[CpuOf(p)].capacity > hw[CpuOf(q)].capacity
                               <=> TreeCore(p).perf_level < TreeCore(q).perf_level
                        /\ \A lvl \in 0..(tree.perf_level_count - 1) :
                             \E p \in TreeThreads : TreeCore(p).perf_level = lvl
      BY DEF TiersFollowCapacity
    <2>1. IsFiniteSet(capacities) /\ capacities \subseteq Nat
      BY DEF TypeOK, TopologyInv, MachineInv
    <2>2. \A cap : Tier(cap) = Above(capacities, cap)
      BY DEF Tier, Above
    <2>3. ASSUME NEW p \in TreeThreads
          PROVE  /\ hw[CpuOf(p)].capacity \in capacities
                 /\ TreeCore(p).perf_level = Above(capacities, hw[CpuOf(p)].capacity)
      <3> DEFINE q == KeyAt(topo, p)
      <3>1. /\ q \in DOMAIN topo /\ p[4] \in DOMAIN topo[q].threads /\ TreeCore(p) = topo[q]
            /\ CpuOf(p) = CpuIn(topo[q].threads[p[4]])
        BY MapOfTree
      <3> HIDE DEF q
      <3> QED BY <2>2, <3>1, LevelsAreTiers
    <2>4. ASSUME NEW p \in TreeThreads, NEW q \in TreeThreads
          PROVE  hw[CpuOf(p)].capacity > hw[CpuOf(q)].capacity
                   <=> TreeCore(p).perf_level < TreeCore(q).perf_level
      <3> DEFINE a == hw[CpuOf(p)].capacity
                 b == hw[CpuOf(q)].capacity
      <3>1. a \in capacities /\ b \in capacities
        BY <2>3
      <3>2. TreeCore(p).perf_level = Above(capacities, a)
            /\ TreeCore(q).perf_level = Above(capacities, b)
        BY <2>3
      <3> HIDE DEF a, b
      <3>3. b < a <=> Above(capacities, a) < Above(capacities, b)
        BY <2>1, <3>1, Ranking
      <3>4. a > b <=> b < a
        BY <2>1, <3>1
      <3> QED BY <3>2, <3>3, <3>4 DEF a, b
    <2>5. ASSUME NEW lvl \in 0..(tree.perf_level_count - 1)
          PROVE  \E p \in TreeThreads : TreeCore(p).perf_level = lvl
      <3>1. lvl \in 0..(Cardinality(capacities) - 1)
        BY LevelsAreTiers
      <3>2. PICK cap \in capacities : Above(capacities, cap) = lvl
        BY <2>1, <3>1, Ranking
      <3>3. PICK q \in DOMAIN topo : \E r \in DOMAIN topo[q].threads :
              hw[CpuIn(topo[q].threads[r])].capacity = cap
        BY LevelsAreTiers
      <3>4. PICK r \in DOMAIN topo[q].threads : hw[CpuIn(topo[q].threads[r])].capacity = cap
        BY <3>3
      <3>5. PICK p \in TreeThreads : KeyAt(topo, p) = q /\ p[4] = r
        BY MapOfTree
      <3>6. CpuOf(p) = CpuIn(topo[q].threads[r])
        BY <3>5, MapOfTree
      <3>7. TreeCore(p).perf_level = lvl
        BY <2>3, <3>2, <3>4, <3>6
      <3> QED BY <3>7
    <2> QED BY <2>4, <2>5
  <1> QED BY <1>1, Invariance, PTL
=============================================================================
