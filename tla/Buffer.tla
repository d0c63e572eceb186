-------------------------------- MODULE Buffer --------------------------------
(***************************************************************************)
(* buffer of bench_box/memory/buffer.h and the allocators under it: memory *)
(* from std::allocator ("std"), or from lp_flex_allocator_t without        *)
(* ("small") or with ("large") large pages.  A buffer is freed by hand:    *)
(* its destructor, an assignment of nullptr and a move assignment drop the *)
(* block they hold.  A conversion makes a second buffer on the same block, *)
(* which can free it too.  size_t wraps at Modulus.                        *)
(*                                                                         *)
(* External: the C library and the kernel.  They may refuse memory at any  *)
(* time and may give out an address again once it was released; large      *)
(* pages come from a pool of fixed size.  What the elements are is not     *)
(* modelled, only that a constructor of one may throw bad_alloc.           *)
(***************************************************************************)
EXTENDS Integers, FiniteSets, TLC

CONSTANTS
  Modulus,      \* 2^w for a size_t of w bits
  PageSizes,    \* sizes a large page may have, 0 if it is not known
  PoolPages,    \* the kernel's large pages
  ElementSize,  \* sizeof(TYPE)
  OtherSize,    \* sizeof(OTHERTYPE) of the conversions
  Buffers,      \* the program's buffer variables
  Counts,       \* the sizes it asks for
  Addrs,        \* addresses the memory may come from
  Null

Allocators == {"std", "small", "large"}
Types      == {"TYPE", "OTHERTYPE"}

ASSUME BufferAssumption ==
  /\ Modulus \in Nat \ {0} /\ PageSizes \subseteq Nat /\ PoolPages \in Nat
  /\ \A p \in PageSizes \ {0} : Modulus % p = 0
  /\ ElementSize \in Nat \ {0} /\ OtherSize \in Nat \ {0}
  /\ OtherSize % ElementSize = 0            \* their static_assert
  /\ Counts \subseteq 0..(Modulus - 1) /\ Null \notin Addrs \cup Nat
  /\ Null \notin [type : Types, alloc : Allocators,
                 data : Addrs \cup {Null}, size : Nat]

VARIABLES
  page_size,  \* large_page_size, read once
  memory,     \* the blocks not released and the large pages left
  buffer,     \* what each variable holds, Null if it is not alive
  abandoned,  \* history: blocks no buffer knew of any more
  shared,     \* history: addresses a conversion gave to a second buffer
  stale,      \* history: addresses a buffer held while another released them
  misfreed    \* history: the address of a release that is undefined

vars == <<page_size, memory, buffer, abandoned, shared, stale, misfreed>>

-----------------------------------------------------------------------------
(* The allocators.                                                         *)

\* Fault: no check for overflow.
WrappedMul(a, b) == (a * b) % Modulus
CheckedMul(a, b) == IF a * b >= Modulus THEN Null ELSE a * b

\* (bytes + large_page_size - 1) & ~(large_page_size - 1)
RoundUp(bytes) ==
  LET sum == (bytes + page_size - 1) % Modulus
  IN  IF page_size = 0 THEN 0 ELSE sum - (sum % page_size)

Pages(bytes) == IF page_size = 0 THEN 0 ELSE bytes \div page_size

\* What allocating n elements may give: a block with n elements, or none.
Without(m) == [data |-> Null, size |-> 0, memory |-> m, lost |-> {}]
Placed(m, kind, bytes, n) ==
  {[data |-> p, size |-> n, lost |-> {},
    memory |-> [blocks |-> [q \in DOMAIN m.blocks \cup {p} |->
                              IF q = p THEN [kind |-> kind, bytes |-> bytes]
                              ELSE m.blocks[q]],
                pool   |-> IF kind = "large" THEN m.pool - Pages(bytes)
                                             ELSE m.pool]] :
   p \in Addrs \ DOMAIN m.blocks}

LargePages(m, bytes, n) ==
  IF RoundUp(bytes) = 0 \/ Pages(RoundUp(bytes)) > m.pool
  THEN {} ELSE Placed(m, "large", RoundUp(bytes), n)

\* A constructor of an element throws bad_alloc: the handler forgets the block.
Thrown(o) == [Without(o.memory) EXCEPT !.lost = {o.data}]

SizeOf(type) == IF type = "OTHERTYPE" THEN OtherSize ELSE ElementSize

\* alloc.allocate(n) and the construction of the elements in one try block;
\* the flexible allocator gives nullptr for no elements, std::allocator a
\* block of its own.
Allocated(m, a, type, n) ==
  LET bytes == CheckedMul(n, SizeOf(type))
      given == IF bytes = Null \/ (a # "std" /\ n = 0) THEN {}
               ELSE IF a = "large" THEN LargePages(m, bytes, n)
               ELSE Placed(m, a, bytes, n)
  IN  {Without(m)} \cup given \cup (IF n = 0 THEN {} ELSE {Thrown(o) : o \in given})

\* munmap of the rounded length.  Fault: of the length asked for.
UnmappedExact(bytes) == Pages(bytes)
Unmapped(bytes) == Pages(RoundUp(bytes))

\* buffer::free of what b holds: the memory afterwards.
Freed(m, b) ==
  IF b.data = Null THEN m
  ELSE [blocks |-> [p \in DOMAIN m.blocks \ {b.data} |-> m.blocks[p]],
        pool   |-> IF b.alloc = "large"
                   THEN m.pool + Unmapped(b.size * SizeOf(b.type)) ELSE m.pool]

Alive(b) == buffer[b] # Null

\* Deallocating finds the block, and one of the allocator's kind of memory;
\* operator delete and free release each other's.
Releasable(b) ==
  LET h == buffer[b]
  IN  h.data # Null =>
        /\ h.data \in DOMAIN memory.blocks
        /\ h.alloc = "large" <=> memory.blocks[h.data].kind = "large"

\* The address b holds, and the same if no other buffer holds it.
Held(b) == {buffer[b].data} \ {Null}
Only(b) == Held(b) \ {buffer[c].data : c \in {d \in Buffers \ {b} : Alive(d)}}

\* Fault: realloc forgets to free.
NothingFreed(b) == memory
FreedFirst(b) == Freed(memory, buffer[b])

\* What is left in the source of a move.  Faults: what was there; its size.
SourceKept(b) == b
SizeKept(b) == [b EXCEPT !.data = Null]
MovedFrom(b) == [b EXCEPT !.data = Null, !.size = 0]

-----------------------------------------------------------------------------
Init ==
  /\ page_size \in PageSizes
  /\ memory = [blocks |-> <<>>, pool |-> IF page_size = 0 THEN 0 ELSE PoolPages]
  /\ buffer = [b \in Buffers |-> Null]
  /\ abandoned = {} /\ shared = {} /\ stale = {} /\ misfreed = {}

\* buffer(size_n, allocator)
Construct(b) ==
  /\ ~Alive(b)
  /\ \E a \in Allocators, n \in Counts : \E o \in Allocated(memory, a, "TYPE", n) :
       /\ buffer' = [buffer EXCEPT ![b] = [type |-> "TYPE", alloc |-> a,
                                           data |-> o.data, size |-> o.size]]
       /\ memory' = o.memory /\ abandoned' = abandoned \cup o.lost
  /\ UNCHANGED <<page_size, shared, stale, misfreed>>

\* buffer(nullptr, allocator) and buffer(allocator)
ConstructEmpty(b) ==
  /\ ~Alive(b)
  /\ \E a \in Allocators :
       buffer' = [buffer EXCEPT ![b] = [type |-> "TYPE", alloc |-> a,
                                        data |-> Null, size |-> 0]]
  /\ UNCHANGED <<page_size, memory, abandoned, shared, stale, misfreed>>

\* The history of b's release: another holder is left with a stale address.
Release(b) ==
  /\ shared' = shared \ Only(b)
  /\ stale' = (stale \ Only(b)) \cup (Held(b) \ Only(b))

Realloc(b) ==
  /\ Alive(b) /\ Releasable(b)
  /\ \E n \in Counts :
       \E o \in Allocated(FreedFirst(b), buffer[b].alloc, buffer[b].type, n) :
         /\ buffer' = [buffer EXCEPT ![b].data = o.data, ![b].size = o.size]
         /\ memory' = o.memory /\ abandoned' = abandoned \cup o.lost
  /\ Release(b)
  /\ UNCHANGED <<page_size, misfreed>>

Free(b) ==
  /\ Alive(b) /\ Releasable(b)
  /\ memory' = Freed(memory, buffer[b])
  /\ buffer' = [buffer EXCEPT ![b] = MovedFrom(@)]
  /\ Release(b)
  /\ UNCHANGED <<page_size, abandoned, misfreed>>

\* free() or realloc() of a block that is gone or another allocator's: what
\* follows is undefined, and not modelled.
Misfree(b) ==
  /\ Alive(b) /\ buffer[b].data # Null
  /\ Releasable(b) => memory.blocks[buffer[b].data].kind # buffer[b].alloc
  /\ misfreed' = {buffer[b].data}
  /\ UNCHANGED <<page_size, memory, buffer, abandoned, shared, stale>>

MoveConstruct(b, source) ==
  /\ ~Alive(b) /\ Alive(source)
  /\ buffer' = [buffer EXCEPT ![b] = buffer[source], ![source] = MovedFrom(@)]
  /\ UNCHANGED <<page_size, memory, abandoned, shared, stale, misfreed>>

\* The history of b's letting go of its block without a release.
Drop(b) ==
  /\ abandoned' = abandoned \cup (Only(b) \cap DOMAIN memory.blocks)
  /\ shared' = shared \ Only(b) /\ stale' = stale \ Only(b)
  /\ UNCHANGED <<page_size, memory, misfreed>>

\* Only for std::allocator: a flexible one cannot be assigned.
MoveAssign(b, source) ==
  /\ Alive(b) /\ Alive(source) /\ buffer[b].type = buffer[source].type
  /\ buffer[b].alloc = "std" /\ buffer[source].alloc = "std"
  /\ buffer' = IF b = source THEN [buffer EXCEPT ![b] = MovedFrom(@)]
               ELSE [buffer EXCEPT ![b] = buffer[source],
                                   ![source] = MovedFrom(@)]
  /\ Drop(b)

AssignNull(b) ==
  /\ Alive(b)
  /\ buffer' = [buffer EXCEPT ![b].data = Null, ![b].size = 0]
  /\ Drop(b)

\* The destructor.
Destroy(b) ==
  /\ Alive(b)
  /\ buffer' = [buffer EXCEPT ![b] = Null]
  /\ Drop(b)

\* size * sizeof(TYPE) / sizeof(OTHERTYPE)
ViewSize(n) == ((n * ElementSize) % Modulus) \div OtherSize

\* operator buffer<OTHERTYPE>(): a buffer with std::allocator on the data of
\* source, whatever allocator that is from.
View(b, source) ==
  /\ ~Alive(b) /\ Alive(source) /\ buffer[source].type = "TYPE"
  /\ buffer' = [buffer EXCEPT ![b] =
       [type |-> "OTHERTYPE", alloc |-> "std", data |-> buffer[source].data,
        size |-> ViewSize(buffer[source].size)]]
  /\ shared' = shared \cup Held(source)
  /\ UNCHANGED <<page_size, memory, abandoned, stale, misfreed>>

Next == misfreed = {} /\ \E b \in Buffers :
  \/ Construct(b) \/ ConstructEmpty(b) \/ Realloc(b) \/ Free(b) \/ Misfree(b)
  \/ AssignNull(b) \/ Destroy(b)
  \/ \E source \in Buffers :
       MoveConstruct(b, source) \/ MoveAssign(b, source) \/ View(b, source)

Spec == Init /\ [][Next]_vars

-----------------------------------------------------------------------------
(* Properties.                                                             *)

BufferType ==
  [type : Types, alloc : Allocators, data : Addrs \cup {Null},
   size : 0..(Modulus - 1)]

\* The variables have the types of their C++ members; a buffer without data
\* has no elements, and the kernel's pool is never overdrawn or overfilled.
TypeOK ==
  /\ page_size \in PageSizes
  /\ memory.pool \in 0..PoolPages /\ DOMAIN memory.blocks \subseteq Addrs
  /\ \A p \in DOMAIN memory.blocks :
       memory.blocks[p] \in [kind : Allocators, bytes : 0..(Modulus - 1)]
  /\ buffer \in [Buffers -> BufferType \cup {Null}]
  /\ \A b \in Buffers : Alive(b) /\ buffer[b].data = Null => buffer[b].size = 0
  /\ abandoned \subseteq Addrs /\ shared \subseteq Addrs
  /\ stale \subseteq Addrs /\ misfreed \subseteq Addrs

Holds(b, p) == Alive(b) /\ buffer[b].data = p
HeldOnce ==
  \A p \in Addrs \ shared : \A b, c \in Buffers : Holds(b, p) /\ Holds(c, p) => b = c

\* Only a conversion makes two buffers hold one block, lets a buffer outlive
\* its block or gives it an allocator that is not its block's: at any other
\* address no sequence of moves, assignments and reallocations, failed ones
\* too, releases a block twice or by another allocator.  And a buffer of
\* large pages has its block whatever was converted.
OwnedOnce ==
  /\ \A b \in Buffers :
       /\ Alive(b) /\ buffer[b].data # Null
       /\ buffer[b].alloc = "large" \/ buffer[b].data \notin shared
       => /\ buffer[b].data \in DOMAIN memory.blocks
          /\ memory.blocks[buffer[b].data].kind = buffer[b].alloc
  /\ HeldOnce /\ misfreed \subseteq shared

\* A buffer's elements lie inside its block, and so do those of a buffer
\* converted from it to another type, until the block is released through one
\* of the buffers that share it: neither the product in allocate, the
\* rounding in try_malloc_large_page nor the conversion of the size wraps to
\* a block too small for what is said to be in it.
ElementsFit ==
  \A b \in Buffers :
    /\ Alive(b) /\ buffer[b].data # Null
    /\ buffer[b].alloc = "large" \/ buffer[b].data \notin stale
    => /\ buffer[b].data \in DOMAIN memory.blocks
       /\ buffer[b].size * SizeOf(buffer[b].type)
            <= memory.blocks[buffer[b].data].bytes

\* The large pages the blocks of m hold, each block's counted from 1.
LargeBlocks(m) == {p \in DOMAIN m.blocks : m.blocks[p].kind = "large"}
PagesHeld(m) == UNION {{p} \X (1..Pages(m.blocks[p].bytes)) : p \in LargeBlocks(m)}

\* Large pages go back to the kernel whole: what is in the pool and what the
\* blocks hold is always all there is, so the length munmap gets, computed
\* from the buffer's size, is the one mmap got.
PagesConserved ==
  page_size # 0 => memory.pool + Cardinality(PagesHeld(memory)) = PoolPages

\* Nothing leaks but what was dropped or lost: every block not released is
\* held by a buffer, or the last one that held it was destroyed or assigned
\* over, or a constructor of its elements threw; a realloc that fails
\* otherwise leaks nothing.
NoOtherLeak ==
  \A p \in DOMAIN memory.blocks :
    p \in abandoned \/ \E b \in Buffers : Holds(b, p)

-----------------------------------------------------------------------------
(* The inductive invariant of the proofs.                                  *)

\* The block a buffer with data must have been given.
BlockFor(b) ==
  LET bytes == b.size * SizeOf(b.type)
  IN  [kind |-> b.alloc, bytes |-> IF b.alloc = "large" THEN RoundUp(bytes) ELSE bytes]

\* A buffer whose block cannot have been released through another one holds
\* it, and its length follows from the buffer's size and did not wrap when it
\* was computed.
BlocksFollow ==
  \A b \in Buffers : Alive(b) /\ buffer[b].data # Null =>
    LET h == buffer[b]
    IN  /\ h.size * SizeOf(h.type) < Modulus
        /\ h.alloc = "large" \/ h.data \notin shared =>
             /\ h.data \in DOMAIN memory.blocks
             /\ memory.blocks[h.data] = BlockFor(h)
             /\ h.alloc = "large" => RoundUp(h.size * SizeOf(h.type)) # 0

\* A block that buffers share is there until one of them releases it.
SharedInside ==
  \A b \in Buffers :
    Alive(b) /\ buffer[b].data \in shared \ stale =>
      /\ buffer[b].data \in DOMAIN memory.blocks
      /\ buffer[b].size * SizeOf(buffer[b].type)
           <= memory.blocks[buffer[b].data].bytes

\* Large pages are never shared by two buffers that can unmap them.
LargeOnce ==
  \A b, c \in Buffers :
    /\ Alive(b) /\ Alive(c) /\ buffer[b].data = buffer[c].data /\ buffer[b].data # Null
    /\ buffer[b].alloc = "large" /\ buffer[c].alloc = "large"
    => b = c

\* What the allocators keep of the memory, whoever holds its blocks.
MemoryKept(m) ==
  /\ m.pool \in Nat /\ DOMAIN m.blocks \subseteq Addrs
  /\ \A p \in DOMAIN m.blocks :
       m.blocks[p] \in [kind : Allocators, bytes : 0..(Modulus - 1)]
  /\ IsFiniteSet(PagesHeld(m))
  /\ m.pool + Cardinality(PagesHeld(m)) = IF page_size = 0 THEN 0 ELSE PoolPages

BufferInv ==
  /\ TypeOK /\ MemoryKept(memory)
  /\ BlocksFollow /\ SharedInside /\ HeldOnce /\ LargeOnce
  /\ misfreed \subseteq shared /\ NoOtherLeak

=============================================================================
