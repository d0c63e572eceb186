--------------------------------- MODULE Bump ---------------------------------
(***************************************************************************)
(* unsafe_bump_allocator of bench_box/memory/memory.h: a heap taken once,  *)
(* from which allocate cuts aligned blocks one after the other without     *)
(* looking where the heap ends.  Only the allocator object a heap was last *)
(* moved to releases it.  unsafe_bump_alloc_t asks one for elements of a   *)
(* type; its deallocate does nothing.  Addresses and sizes are below       *)
(* Modulus, and 0 is nullptr.                                              *)
(***************************************************************************)
EXTENDS Naturals, Sequences

CONSTANTS
  Modulus,    \* 2^w for pointers of w bits
  Heaps,      \* where the heap may lie: [base, size]
  Requests,   \* what is asked for: how many elements, of what size and
              \* alignment (bytes are elements of size 1)
  Objects,    \* the program's allocator variables
  Null,       \* an object that is not alive
  MaxBlocks   \* bound on the calls of allocate

\* The heap lies in the address space; an alignment is a power of two.
ASSUME BumpAssumption ==
  /\ Modulus \in Nat /\ MaxBlocks \in Nat
  /\ Heaps \subseteq [base : Nat \ {0}, size : Nat]
  /\ \A h \in Heaps : h.base + h.size < Modulus
  /\ Requests \subseteq [count : Nat, size : Nat, align : Nat \ {0}]
  /\ \A r \in Requests : Modulus % r.align = 0
  /\ Null \notin [heap : Nat, current : Nat, heap_size : Nat]

VARIABLES
  object,      \* the allocator objects
  heap,        \* the memory: not asked for yet, taken, released or refused
  place,       \* where it is
  blocks,      \* what allocate has returned for it
  reach        \* how far the blocks reach, counted without wrapping around

vars == <<object, heap, place, blocks, reach>>

-----------------------------------------------------------------------------
\* align_up: (size + align - 1) & ~(align - 1)
AlignUp(size, align) ==
  LET sum == (size + align - 1) % Modulus IN sum - (sum % align)

\* What the elements take, and sizeof(T) * n, which may have wrapped around.
Extent(r) == r.count * r.size
Bytes(r) == Extent(r) % Modulus

\* The next free address.  Fault: the padding is not counted.
NextUnpadded(o, aligned, bytes) == (object[o].current + bytes) % Modulus
NextFree(o, aligned, bytes) == (aligned + bytes) % Modulus

\* The source of a move.  Fault: it keeps the heap.
SourceKept(o) == object[o]
MovedFrom(o) ==
  [heap |-> 0, current |-> 0, heap_size |-> object[o].heap_size]

Alive(o) == object[o] # Null

Init ==
  /\ object = [o \in Objects |-> Null] /\ heap = "none"
  /\ place \in Heaps /\ blocks = <<>> /\ reach = 0

\* The constructor, which may be refused the memory.
Create(o) ==
  /\ ~Alive(o) /\ heap = "none"
  /\ \/ /\ heap' = "taken"
        /\ object' = [object EXCEPT ![o] =
             [heap |-> place.base, current |-> place.base,
              heap_size |-> place.size]]
     \/ /\ heap' = "refused"
        /\ object' = [object EXCEPT ![o] =
             [heap |-> 0, current |-> 0, heap_size |-> place.size]]
  /\ reach' = place.base
  /\ UNCHANGED <<place, blocks>>

\* allocate.  A block that does not come from the heap, because the object
\* has none (heap_valid is for the caller to ask), is not recorded.
Allocate(o) ==
  /\ Alive(o) /\ Len(blocks) < MaxBlocks
  /\ \E r \in Requests :
       LET aligned == AlignUp(object[o].current, r.align)
           exact   == reach + r.align - 1
       IN  /\ object' = [object EXCEPT ![o].current =
                           NextFree(o, aligned, Bytes(r))]
           /\ IF object[o].heap = 0 THEN UNCHANGED <<blocks, reach>>
              ELSE /\ blocks' = Append(blocks, [addr |-> aligned,
                                  bytes |-> Extent(r), align |-> r.align])
                   /\ reach' = exact - (exact % r.align) + Extent(r)
  /\ UNCHANGED <<heap, place>>

MoveConstruct(o, source) ==
  /\ ~Alive(o) /\ Alive(source)
  /\ object' = [object EXCEPT ![o] = object[source],
                              ![source] = MovedFrom(source)]
  /\ UNCHANGED <<heap, place, blocks, reach>>

\* The destructor: the memory, and with it the blocks, are gone.
Destroy(o) ==
  /\ Alive(o)
  /\ IF object[o].heap # 0 THEN heap' = "released" /\ blocks' = <<>>
                           ELSE UNCHANGED <<heap, blocks>>
  /\ object' = [object EXCEPT ![o] = Null]
  /\ UNCHANGED <<place, reach>>

Next == \E o \in Objects :
  \/ Create(o) \/ Allocate(o) \/ Destroy(o)
  \/ \E source \in Objects : MoveConstruct(o, source)

Spec == Init /\ [][Next]_vars

-----------------------------------------------------------------------------
(* Properties.                                                             *)

\* Objects, blocks and the heap are of their types, and there are blocks only
\* as long as there is memory.
TypeOK ==
  /\ object \in [Objects -> [heap : Nat, current : 0..(Modulus - 1),
                             heap_size : Nat] \cup {Null}]
  /\ heap \in {"none", "taken", "released", "refused"}
  /\ place \in Heaps
  /\ blocks \in Seq([addr : 0..(Modulus - 1), bytes : Nat, align : Nat \ {0}])
  /\ blocks # <<>> => heap = "taken"
  /\ reach \in Nat

\* The heap has one owner while it is there and none before or after, so it
\* is released once, and no block is cut from memory that was released.
OneOwner ==
  /\ \A o \in Objects : Alive(o) /\ object[o].heap # 0 =>
       heap = "taken" /\ object[o].heap = place.base
  /\ \A o, p \in Objects :
       Alive(o) /\ Alive(p) /\ object[o].heap # 0 /\ object[p].heap # 0 => o = p
  /\ heap = "taken" => \E o \in Objects : Alive(o) /\ object[o].heap # 0

\* What was asked for fits in the heap, padding included.
Fits == reach <= place.base + place.size

\* As long as what was asked for fits in the heap, every block is aligned as
\* asked, inside the heap with all its elements, and apart from all others
\* (allocate): nothing on the way from elements to bytes wraps around before.
BlocksApart ==
  Fits =>
    /\ \A x \in DOMAIN blocks :
         /\ blocks[x].addr % blocks[x].align = 0
         /\ place.base <= blocks[x].addr
         /\ blocks[x].addr + blocks[x].bytes <= place.base + place.size
    /\ \A x, y \in DOMAIN blocks : x < y =>
         blocks[x].addr + blocks[x].bytes <= blocks[y].addr

\* The inductive invariant of the proofs: while the requests fit, the owner's
\* next free address is where the blocks given out end.
CursorInv ==
  /\ heap = "taken" => place.base <= reach
  /\ heap = "taken" /\ Fits =>
       /\ \A o \in Objects : Alive(o) /\ object[o].heap # 0 =>
            object[o].current = reach
       /\ \A x \in DOMAIN blocks : blocks[x].addr + blocks[x].bytes <= reach

BumpInv == TypeOK /\ OneOwner /\ CursorInv /\ BlocksApart

=============================================================================
