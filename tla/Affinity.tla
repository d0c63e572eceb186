------------------------------ MODULE Affinity ------------------------------
(***************************************************************************)
(* A benchmark's workers on the processors a mapping gives them: a mapping *)
(* is made (Mapping), a threading_manager keeps it, and every worker calls *)
(* assign_thread of bench_box/threading/threading.cpp with its number, in  *)
(* any order, while Linux may take CPUs off- and online.                   *)
(*                                                                         *)
(* A CPU is what a logical_processor says of it: its number (os_id) within *)
(* a processor group (group_id).  Only Windows has groups; elsewhere the   *)
(* group is 0.                                                             *)
(*                                                                         *)
(* External: the system.  It lets a program run on the CPUs that are       *)
(* allowed to it (a cgroup's cpuset, a process affinity), which stay the   *)
(* same while it runs.  It refuses to confine a thread to a CPU that is    *)
(* not allowed; Linux also to one that is offline or that the cpu_set_t    *)
(* has no room for, and it lets a thread whose CPUs all went offline run   *)
(* on all that are allowed, or anywhere when those are gone too.           *)
(***************************************************************************)
EXTENDS Mapping

CONSTANTS
  Programs,    \* what is run: on which tree, platform and CPUs, how many workers
  CpuSetSize,  \* number of CPUs a cpu_set_t has room for
  MaxHotplug   \* bound on hotplug events

CpuPlaces(tr) == UNION {UNION {UNION {{<<n, l, c, r>> :
                   r \in DOMAIN tr.numa_nodes[n][l][c].threads} :
                   c \in DOMAIN tr.numa_nodes[n][l]} :
                   l \in DOMAIN tr.numa_nodes[n]} : n \in DOMAIN tr.numa_nodes}
CpuAt(tr, p) == tr.numa_nodes[p[1]][p[2]][p[3]].threads[p[4]]
CpusOf(tr) == {CpuAt(tr, p) : p \in CpuPlaces(tr)}

\* The workers' trees have every CPU once, as build_topo_tree makes them; on
\* Windows the same os_id may be there again in another group.
ASSUME AffinityAssumption ==
  /\ Programs \subseteq [tree : Trees, platform : {"linux", "windows", "other"},
                         thread_count : Nat, allowed : SUBSET LogicalProcessor]
  /\ \A prog \in Programs :
       /\ prog.allowed \subseteq CpusOf(prog.tree)
       /\ prog.thread_count > 0 =>
            /\ prog.allowed # {}
            /\ \A p, q \in CpuPlaces(prog.tree) :
                 CpuAt(prog.tree, p) = CpuAt(prog.tree, q) => p = q
            /\ prog.platform # "windows" =>
                 \A cpu \in CpusOf(prog.tree) : cpu.group_id = 0
  /\ CpuSetSize \in Nat /\ MaxHotplug \in Nat

VARIABLES
  platform, thread_count,  \* the rest of the program
  allowed,                 \* the CPUs the system lets it run on
  started, thread_mapping, \* the threading_manager, once it is made
  waiting,                 \* workers that have not called assign_thread
  affinity,                \* the CPUs each worker may run on
  online, gone,            \* CPUs online; history: CPUs that ever were not
  hotplugs

program == <<platform, thread_count, allowed>>
manager == <<started, thread_mapping>>
cpus    == <<online, gone, hotplugs>>
workers == <<manager, waiting, affinity>>
allVars == <<vars, program, workers, cpus>>

Workers == 0..(thread_count - 1)
AnyWorkers == UNION {0..(prog.thread_count - 1) : prog \in Programs}
AllCpus == CpusOf(tree)

-----------------------------------------------------------------------------
ProgramInit ==
  /\ \E prog \in Programs : /\ tree = prog.tree /\ platform = prog.platform
                            /\ thread_count = prog.thread_count
                            /\ allowed = prog.allowed
  /\ Init
  /\ started = FALSE /\ thread_mapping = <<>>
  /\ waiting = Workers /\ affinity = [w \in Workers |-> allowed]
  /\ online = AllCpus /\ gone = {} /\ hotplugs = 0

MapStep == Next /\ UNCHANGED <<program, workers, cpus>>

\* create_mapping_basic
BasicMapping == <<>>

\* The program makes its threading_manager and starts the workers.
StartWorkers ==
  /\ pc = "done" /\ ~started /\ started' = TRUE
  /\ thread_mapping' \in {BasicMapping, result}
  /\ UNCHANGED <<vars, program, waiting, affinity, cpus>>

\* thread_id < thread_mapping.size().  Fault: the last one is left out.
HasEntryButLast(w) == w + 1 < Len(thread_mapping)
HasEntry(w) == w < Len(thread_mapping)

\* The CPU assign_thread asks for: lp.os_id, on Windows in lp.group_id.
\* Fault: the group is left at 0, so all workers share the first group.
AskedInGroup0(lp) == [os_id |-> lp.os_id, group_id |-> 0]
Asked(lp) ==
  [os_id |-> lp.os_id, group_id |-> IF platform = "windows" THEN lp.group_id ELSE 0]

\* Does the system confine a thread to this CPU when asked?  CPU_SET leaves
\* out what the set has no room for, and an empty set is refused.
Grants(cpu) ==
  CASE platform = "linux"   -> /\ cpu.os_id < CpuSetSize
                               /\ cpu \in allowed \cap online
    [] platform = "windows" -> cpu \in allowed
    [] platform = "other"   -> FALSE

\* A refusal is ignored, as is a worker that the mapping has no entry for.
AssignThread(w) ==
  /\ started /\ w \in waiting
  /\ waiting' = waiting \ {w}
  /\ IF HasEntry(w) /\ Grants(Asked(Lp(thread_mapping[w + 1])))
     THEN affinity' = [affinity EXCEPT ![w] = {Asked(Lp(thread_mapping[w + 1]))}]
     ELSE UNCHANGED affinity
  /\ UNCHANGED <<vars, program, manager, cpus>>

\* Where a thread may run whose last CPU went offline.
Fallback(left) == IF allowed \cap left # {} THEN allowed ELSE AllCpus

GoOffline(c) ==
  /\ online # {c} /\ online' = online \ {c} /\ gone' = gone \cup {c}
  /\ affinity' = [w \in Workers |->
                    IF affinity[w] \cap online' = {} THEN Fallback(online')
                                                     ELSE affinity[w]]

ComeOnline(c) == online' = online \cup {c} /\ UNCHANGED <<gone, affinity>>

Hotplug ==
  /\ platform = "linux" /\ thread_count > 0 /\ hotplugs < MaxHotplug
  /\ hotplugs' = hotplugs + 1
  /\ \/ \E c \in online : GoOffline(c)
     \/ \E c \in AllCpus \ online : ComeOnline(c)
  /\ UNCHANGED <<vars, program, manager, waiting>>

ProgramNext == \/ MapStep \/ StartWorkers \/ Hotplug
               \/ \E w \in Workers : AssignThread(w)

\* The main thread makes the mapping and starts the workers; each of these is
\* a thread of its own that the system schedules.  Hotplug is never owed.
Program == /\ ProgramInit /\ [][ProgramNext]_allVars
           /\ WF_allVars(MapStep) /\ WF_allVars(StartWorkers)
           /\ \A w \in AnyWorkers : WF_allVars(w \in Workers /\ AssignThread(w))

-----------------------------------------------------------------------------
(* Properties.                                                             *)

\* The worker is kept to fewer CPUs than its program: it was pinned.
Confined(w) == affinity[w] \notin {allowed, AllCpus}

\* Two workers that are confined at all never share a CPU, in whatever order
\* they called assign_thread, whatever CPUs went away and came back, and on
\* Windows also where the groups of the machine number their CPUs alike.
PinnedApart ==
  \A v, w \in Workers :
    v # w /\ Confined(v) /\ Confined(w) => affinity[v] \cap affinity[w] = {}

\* The refusals assign_thread ignores have these reasons only: a worker that
\* has made its call and has an entry in the mapping runs on the processor of
\* that entry and no other, unless that CPU is not allowed to the program or,
\* on Linux, was offline at some time or is out of reach of a cpu_set_t.
PinnedUnlessRefused ==
  \A w \in Workers \ waiting :
    w < Len(thread_mapping) /\ platform # "other" =>
      LET cpu == Lp(result[w + 1])
      IN  \/ affinity[w] = {cpu}
          \/ cpu \notin allowed
          \/ platform = "linux" /\ (cpu \in gone \/ cpu.os_id >= CpuSetSize)

\* The nested loops of a mapping come to an end, whatever the tree, and then
\* every worker gets through assign_thread.
Terminates == <>(pc = "done" /\ waiting = {})

-----------------------------------------------------------------------------
(* The inductive invariant of the proofs.                                  *)

\* The workers are those of a program, and run on its tree.
OneProgram == \E prog \in Programs : /\ tree = prog.tree /\ platform = prog.platform
                                     /\ thread_count = prog.thread_count
                                     /\ allowed = prog.allowed

\* No worker runs before the mapping it is pinned by is made.
MadeFirst ==
  /\ started => pc = "done" /\ thread_mapping \in {BasicMapping, result}
  /\ ~started => waiting = Workers

\* A worker is confined by its own call only, to the CPU of its own entry.
PinnedBy(w) ==
  w \notin waiting /\ HasEntry(w) /\ affinity[w] = {Asked(Lp(thread_mapping[w + 1]))}

PinnedInv ==
  /\ OneProgram /\ MadeFirst
  /\ waiting \subseteq Workers /\ affinity \in [Workers -> SUBSET AllCpus]
  /\ \A w \in Workers : Confined(w) => PinnedBy(w)
  /\ AllCpus \ online \subseteq gone
  /\ PinnedUnlessRefused

=============================================================================
