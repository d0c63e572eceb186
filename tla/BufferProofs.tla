---------------------------- MODULE BufferProofs ----------------------------
(***************************************************************************)
(* buffer and its allocators, for every size_t, page size, pool, element   *)
(* sizes, number of buffers and sequence of calls: only a conversion makes *)
(* a double release possible, no block is too small for its elements,      *)
(* large pages go back whole, and nothing leaks but what was dropped or    *)
(* lost to a constructor that threw.                                       *)
(*                                                                         *)
(* The step that matters is allocation.  The length of a block is not kept *)
(* anywhere: it is computed from the size of the buffer when the block is  *)
(* released.  BlocksFollow says that this gives the length it was taken    *)
(* with; RoundedHolds that a rounded length that wrapped around is 0.      *)
(***************************************************************************)
EXTENDS Buffer, FiniteSetTheorems, FunctionTheorems, TLAPS

-----------------------------------------------------------------------------
(* Lengths.                                                                *)

\* Euclidean division, as the provers know it.
LEMMA Division ==
  ASSUME NEW n \in Nat, NEW d \in Nat \ {0}
  PROVE  /\ n % d \in Nat /\ n % d < d /\ n % d <= n /\ n \div d \in Nat
         /\ n = d * (n \div d) + (n % d)
  BY SMT

\* A number below the divisor is its own remainder.
LEMMA BelowDivisor ==
  ASSUME NEW n \in Nat, NEW d \in Nat \ {0}, n < d
  PROVE  n % d = n
  BY SMT

\* A number between a divisor and its double leaves the rest.
LEMMA OnceAbove ==
  ASSUME NEW n \in Nat, NEW d \in Nat \ {0}, d <= n, n < d + d
  PROVE  n % d = n - d
  BY SMT

\* A divisor of a positive number is not larger than the number.
LEMMA DivisorBelow ==
  ASSUME NEW n \in Nat \ {0}, NEW d \in Nat \ {0}, n % d = 0
  PROVE  d <= n
  BY SMT

\* Products and quotients of lengths are lengths.
LEMMA ProductType == ASSUME NEW a \in Nat, NEW b \in Nat PROVE a * b \in Nat
  BY SMT

\* size * sizeof(TYPE) / sizeof(OTHERTYPE) elements of the other type fit.
LEMMA QuotientFits ==
  ASSUME NEW n \in Nat, NEW d \in Nat \ {0}
  PROVE  n \div d \in Nat /\ (n \div d) * d <= n /\ n \div d <= n
  BY SMT

\* The rounded length and its pages are numbers of their types.
LEMMA RoundedType ==
  ASSUME page_size \in Nat, Modulus \in Nat \ {0}, NEW n \in Nat
  PROVE  RoundUp(n) \in 0..(Modulus - 1) /\ Pages(n) \in Nat
<1> DEFINE s == (n + page_size - 1) % Modulus
<1>1. CASE page_size = 0
  BY <1>1 DEF RoundUp, Pages
<1>2. CASE page_size # 0
  <2>1. n + page_size - 1 \in Nat /\ page_size \in Nat \ {0}
    BY <1>2
  <2>2. s \in Nat /\ s < Modulus
    BY <2>1, Division
  <2>3. RoundUp(n) = s - (s % page_size)
    BY <1>2 DEF RoundUp
  <2>4. Pages(n) \in Nat
    BY <1>2, <2>1, Division DEF Pages
  <2> HIDE DEF s
  <2>5. s % page_size \in Nat /\ s % page_size <= s
    BY <2>1, <2>2, Division
  <2> QED BY <2>2, <2>3, <2>4, <2>5
<1> QED BY <1>1, <1>2

\* try_malloc_large_page: a rounded length that is not 0 is no shorter than
\* what was asked for, for a sum that wraps around is rounded down to 0.
LEMMA RoundedHolds ==
  ASSUME page_size \in Nat, Modulus \in Nat \ {0}, NEW n \in Nat, n < Modulus,
         page_size # 0 => Modulus % page_size = 0, RoundUp(n) # 0
  PROVE  n <= RoundUp(n)
<1> DEFINE e == n + page_size - 1
           s == e % Modulus
<1>1. page_size \in Nat \ {0}
  BY DEF RoundUp
<1>2. e \in Nat /\ page_size <= Modulus
  BY <1>1, DivisorBelow
<1>3. RoundUp(n) = s - (s % page_size)
  BY <1>1 DEF RoundUp
<1>4. CASE e < Modulus
  <2>1. s = e
    BY <1>2, <1>4, BelowDivisor
  <2>2. e % page_size \in Nat /\ e % page_size < page_size
    BY <1>1, <1>2, Division
  <2> QED BY <1>1, <1>3, <2>1, <2>2
<1>5. CASE ~(e < Modulus)
  <2>0. e \in Nat /\ Modulus <= e /\ e < Modulus + Modulus
    BY <1>1, <1>2, <1>5
  <2>1. s = e - Modulus
    <3> HIDE DEF e
    <3> QED BY <2>0, OnceAbove
  <2>2. s \in Nat /\ s < page_size
    BY <1>1, <1>2, <1>5, <2>1
  <2> HIDE DEF s
  <2>3. s % page_size = s
    BY <1>1, <2>2, BelowDivisor
  <2> QED BY <1>3, <2>2, <2>3
<1> QED BY <1>4, <1>5

-----------------------------------------------------------------------------
(* The memory.                                                             *)

\* A block of n pages has n pages.
LEMMA PagesOfBlock ==
  ASSUME NEW p, NEW n \in Nat
  PROVE  IsFiniteSet({p} \X (1..n)) /\ Cardinality({p} \X (1..n)) = n
<1> DEFINE f == [k \in 1..n |-> <<p, k>>]
           T == {p} \X (1..n)
<1>1. IsFiniteSet(1..n) /\ Cardinality(1..n) = n
  BY FS_Interval
<1>2. f \in [1..n -> T] /\ \A a, b \in 1..n : f[a] = f[b] => a = b
  OBVIOUS
<1>3. \A y \in T : \E k \in 1..n : f[k] = y
  OBVIOUS
<1>4. f \in Bijection(1..n, T)
  BY <1>2, <1>3, Fun_IsBij, Fun_IsSurj
<1>5. ExistsBijection(1..n, T)
  BY <1>4 DEF ExistsBijection
<1> QED BY <1>1, <1>5, FS_Bijection

\* What the blocks of a memory that is like m but for block p hold.
LEMMA OtherBlocks ==
  ASSUME NEW m, NEW mm, NEW p, p \notin DOMAIN m.blocks,
         DOMAIN mm.blocks = DOMAIN m.blocks \cup {p},
         \A q \in DOMAIN m.blocks : mm.blocks[q] = m.blocks[q]
  PROVE  PagesHeld(mm) =
           PagesHeld(m) \cup (IF mm.blocks[p].kind = "large"
                              THEN {p} \X (1..Pages(mm.blocks[p].bytes)) ELSE {})
<1> DEFINE held == {p} \X (1..Pages(mm.blocks[p].bytes))
<1>1. CASE mm.blocks[p].kind = "large"
  <2>1. LargeBlocks(mm) = LargeBlocks(m) \cup {p}
    BY <1>1 DEF LargeBlocks
  <2>2. \A q \in LargeBlocks(m) :
          {q} \X (1..Pages(mm.blocks[q].bytes)) = {q} \X (1..Pages(m.blocks[q].bytes))
    BY DEF LargeBlocks
  <2> QED BY <1>1, <2>1, <2>2 DEF PagesHeld
<1>2. CASE mm.blocks[p].kind # "large"
  <2>1. LargeBlocks(mm) = LargeBlocks(m)
    BY <1>2 DEF LargeBlocks
  <2>2. \A q \in LargeBlocks(m) :
          {q} \X (1..Pages(mm.blocks[q].bytes)) = {q} \X (1..Pages(m.blocks[q].bytes))
    BY DEF LargeBlocks
  <2> QED BY <1>2, <2>1, <2>2 DEF PagesHeld
<1> QED BY <1>1, <1>2

\* Placing one block keeps what the allocators keep, and all other blocks.
LEMMA PlacedKept ==
  ASSUME NEW m, MemoryKept(m), page_size \in Nat, Modulus \in Nat \ {0},
         NEW kind \in Allocators, NEW bytes \in 0..(Modulus - 1), NEW n,
         kind = "large" => page_size # 0 /\ Pages(bytes) <= m.pool,
         NEW o \in Placed(m, kind, bytes, n)
  PROVE  /\ o.data \in Addrs \ DOMAIN m.blocks /\ o.size = n /\ o.lost = {}
         /\ MemoryKept(o.memory)
         /\ DOMAIN o.memory.blocks = DOMAIN m.blocks \cup {o.data}
         /\ \A q \in DOMAIN m.blocks : o.memory.blocks[q] = m.blocks[q]
         /\ o.memory.blocks[o.data] = [kind |-> kind, bytes |-> bytes]
<1> DEFINE p == o.data
           mm == o.memory
           block == [kind |-> kind, bytes |-> bytes]
<1>1. /\ p \in Addrs \ DOMAIN m.blocks /\ o.size = n /\ o.lost = {}
      /\ mm.blocks = [q \in DOMAIN m.blocks \cup {p} |->
                        IF q = p THEN block ELSE m.blocks[q]]
      /\ mm.pool = IF kind = "large" THEN m.pool - Pages(bytes) ELSE m.pool
  <2>1. PICK q \in Addrs \ DOMAIN m.blocks :
          o = [data |-> q, size |-> n, lost |-> {},
               memory |-> [blocks |-> [r \in DOMAIN m.blocks \cup {q} |->
                                         IF r = q THEN block ELSE m.blocks[r]],
                           pool   |-> IF kind = "large" THEN m.pool - Pages(bytes)
                                                        ELSE m.pool]]
    BY Zenon DEF Placed
  <2>2. o.data = q /\ o.size = n /\ o.lost = {}
    BY <2>1
  <2>3. o.memory = [blocks |-> [r \in DOMAIN m.blocks \cup {q} |->
                                  IF r = q THEN block ELSE m.blocks[r]],
                    pool   |-> IF kind = "large" THEN m.pool - Pages(bytes)
                                                 ELSE m.pool]
    BY <2>1
  <2> QED BY <2>2, <2>3
<1>2. /\ DOMAIN mm.blocks = DOMAIN m.blocks \cup {p}
      /\ \A q \in DOMAIN m.blocks : mm.blocks[q] = m.blocks[q]
      /\ mm.blocks[p] = block
  BY <1>1
<1> HIDE DEF p, mm
<1>3. Pages(bytes) \in Nat
  BY RoundedType
<1>4. PagesHeld(mm) = PagesHeld(m) \cup
        (IF kind = "large" THEN {p} \X (1..Pages(bytes)) ELSE {})
  <2>1. mm.blocks[p].kind = kind /\ mm.blocks[p].bytes = bytes
    BY <1>2
  <2>2. p \notin DOMAIN m.blocks
    BY <1>1
  <2> HIDE DEF block
  <2> QED BY <1>2, <2>1, <2>2, OtherBlocks
<1>5. /\ IsFiniteSet(PagesHeld(mm))
      /\ mm.pool + Cardinality(PagesHeld(mm)) = m.pool + Cardinality(PagesHeld(m))
  <2>1. CASE kind # "large"
    BY <1>1, <1>4, <2>1 DEF MemoryKept
  <2>2. CASE kind = "large"
    <3> DEFINE held == {p} \X (1..Pages(bytes))
    <3>1. IsFiniteSet(held) /\ Cardinality(held) = Pages(bytes)
      BY <1>3, PagesOfBlock
    <3>2. PagesHeld(m) \cap held = {}
      BY <1>1 DEF PagesHeld, LargeBlocks
    <3>3. IsFiniteSet(PagesHeld(m)) /\ m.pool \in Nat
      BY DEF MemoryKept
    <3>4. Cardinality(PagesHeld(m)) \in Nat
      BY <3>3, FS_CardinalityType
    <3>5. PagesHeld(mm) = PagesHeld(m) \cup held
      BY <1>4, <2>2
    <3> HIDE DEF held
    <3>6. /\ IsFiniteSet(PagesHeld(mm))
          /\ Cardinality(PagesHeld(mm)) = Cardinality(PagesHeld(m)) + Pages(bytes)
      <4>1. /\ IsFiniteSet(PagesHeld(m) \cup held)
            /\ Cardinality(PagesHeld(m) \cup held)
                 = Cardinality(PagesHeld(m)) + Cardinality(held)
                   - Cardinality(PagesHeld(m) \cap held)
        BY <3>1, <3>3, FS_Union
      <4>2. Cardinality(PagesHeld(m) \cap held) = 0
        BY <3>2, FS_EmptySet
      <4> QED BY <1>3, <3>1, <3>4, <3>5, <4>1, <4>2
    <3> QED BY <1>1, <1>3, <2>2, <3>3, <3>4, <3>6
  <2> QED BY <2>1, <2>2
<1>6. mm.pool \in Nat
  BY <1>1, <1>3 DEF MemoryKept
<1>7. \A q \in DOMAIN mm.blocks :
        mm.blocks[q] \in [kind : Allocators, bytes : 0..(Modulus - 1)]
  BY <1>2 DEF MemoryKept
<1>8. MemoryKept(mm)
  BY <1>1, <1>2, <1>5, <1>6, <1>7 DEF MemoryKept
<1> QED BY <1>1, <1>2, <1>8 DEF p, mm

\* Releasing what a buffer holds keeps what the allocators keep: the pages
\* given back, computed from the buffer's size, are those the block had.
LEMMA FreedKept ==
  ASSUME NEW m, MemoryKept(m), page_size \in Nat, Modulus \in Nat \ {0},
         NEW h \in BufferType,
         h.data # Null =>
           /\ h.data \in DOMAIN m.blocks
           /\ h.alloc = "large" <=> m.blocks[h.data].kind = "large"
           /\ h.alloc = "large" => m.blocks[h.data] = BlockFor(h)
  PROVE  /\ MemoryKept(Freed(m, h))
         /\ DOMAIN Freed(m, h).blocks = DOMAIN m.blocks \ {h.data}
         /\ \A q \in DOMAIN Freed(m, h).blocks : Freed(m, h).blocks[q] = m.blocks[q]
<1>1. CASE h.data = Null
  <2>1. h.data \notin DOMAIN m.blocks
    BY <1>1, BufferAssumption DEF MemoryKept
  <2> QED BY <1>1, <2>1 DEF Freed
<1>2. CASE h.data # Null
  <2> DEFINE mm == Freed(m, h)
             p == h.data
             n == Pages(m.blocks[p].bytes)
  <2>1. /\ mm.blocks = [q \in DOMAIN m.blocks \ {p} |-> m.blocks[q]]
        /\ mm.pool = IF h.alloc = "large"
                     THEN m.pool + Unmapped(h.size * SizeOf(h.type)) ELSE m.pool
    BY <1>2 DEF Freed
  <2>2. /\ DOMAIN mm.blocks = DOMAIN m.blocks \ {p} /\ p \in DOMAIN m.blocks
        /\ DOMAIN m.blocks = DOMAIN mm.blocks \cup {p} /\ p \notin DOMAIN mm.blocks
        /\ \A q \in DOMAIN mm.blocks : mm.blocks[q] = m.blocks[q]
    BY <1>2, <2>1
  <2>3. n \in Nat
    <3>1. m.blocks[p].bytes \in Nat
      BY <2>2 DEF MemoryKept
    <3> QED BY <3>1, RoundedType
  <2>4. /\ h.alloc = "large" <=> m.blocks[p].kind = "large"
        /\ mm.pool = IF m.blocks[p].kind = "large" THEN m.pool + n ELSE m.pool
    BY <1>2, <2>1 DEF BlockFor, Unmapped
  <2> HIDE DEF mm, n
  <2>5. PagesHeld(m) = PagesHeld(mm) \cup
          (IF m.blocks[p].kind = "large" THEN {p} \X (1..n) ELSE {})
    <3>1. /\ p \notin DOMAIN mm.blocks /\ DOMAIN m.blocks = DOMAIN mm.blocks \cup {p}
          /\ \A q \in DOMAIN mm.blocks : m.blocks[q] = mm.blocks[q]
      BY <2>2
    <3> HIDE DEF p
    <3> QED BY ONLY <3>1, OtherBlocks DEF n
  <2>6. IsFiniteSet(PagesHeld(m)) /\ PagesHeld(mm) \subseteq PagesHeld(m)
    BY <2>5 DEF MemoryKept
  <2>7. IsFiniteSet(PagesHeld(mm))
    BY <2>6, FS_Subset
  <2>8. /\ mm.pool + Cardinality(PagesHeld(mm)) = m.pool + Cardinality(PagesHeld(m))
        /\ mm.pool \in Nat
    <3>1. CASE m.blocks[p].kind # "large"
      BY <2>4, <2>5, <3>1 DEF MemoryKept
    <3>2. CASE m.blocks[p].kind = "large"
      <4> DEFINE held == {p} \X (1..n)
      <4>1. IsFiniteSet(held) /\ Cardinality(held) = n
        BY <2>3, PagesOfBlock
      <4>2. PagesHeld(mm) \cap held = {}
        BY <2>2 DEF PagesHeld, LargeBlocks
      <4>3. Cardinality(PagesHeld(mm)) \in Nat /\ m.pool \in Nat
        BY <2>7, FS_CardinalityType DEF MemoryKept
      <4>4. PagesHeld(m) = PagesHeld(mm) \cup held
        BY <2>5, <3>2
      <4> HIDE DEF held
      <4>5. Cardinality(PagesHeld(mm) \cup held)
              = Cardinality(PagesHeld(mm)) + Cardinality(held)
                - Cardinality(PagesHeld(mm) \cap held)
        BY <2>7, <4>1, FS_Union
      <4>6. Cardinality(PagesHeld(mm) \cap held) = 0
        BY <4>2, FS_EmptySet
      <4> QED BY <2>3, <2>4, <3>2, <4>1, <4>3, <4>4, <4>5, <4>6
    <3> QED BY <3>1, <3>2
  <2>9. MemoryKept(mm)
    BY <2>2, <2>7, <2>8 DEF MemoryKept
  <2> QED BY <2>2, <2>9 DEF mm
<1> QED BY <1>1, <1>2

\* What the lemmas on memory need of the constants.
LEMMA Sizes ==
  ASSUME page_size \in PageSizes
  PROVE  /\ page_size \in Nat /\ Modulus \in Nat \ {0}
         /\ page_size # 0 => Modulus % page_size = 0
         /\ \A type : SizeOf(type) \in Nat \ {0}
  BY BufferAssumption DEF SizeOf

\* What memory mm is to a buffer h that an allocation from memory m gave,
\* when lost is what its constructors lost: nothing else has changed, and what
\* h has, if it has anything, is new and has the length which is computed
\* from its size when it is released.
Served(m, mm, lost, h) ==
  /\ \A q \in DOMAIN m.blocks : q \in DOMAIN mm.blocks /\ mm.blocks[q] = m.blocks[q]
  /\ \A q \in DOMAIN mm.blocks : q \in DOMAIN m.blocks \cup lost \/ q = h.data
  /\ lost \subseteq Addrs
  /\ h.data # Null =>
       /\ h.data \in Addrs \ DOMAIN m.blocks
       /\ h.data \in DOMAIN mm.blocks /\ mm.blocks[h.data] = BlockFor(h)
       /\ h.size * SizeOf(h.type) < Modulus
       /\ h.alloc = "large" => RoundUp(h.size * SizeOf(h.type)) # 0

\* The buffers of outcome o of an allocation, and of none.
Made(type, a, o) == [type |-> type, alloc |-> a, data |-> o.data, size |-> o.size]
Empty(type, a) == [type |-> type, alloc |-> a, data |-> Null, size |-> 0]

\* One block placed serves the buffer that gets it, and one that loses it.
LEMMA PlacedServes ==
  ASSUME page_size \in PageSizes, NEW m, MemoryKept(m), NEW a \in Allocators,
         NEW type \in Types, NEW n \in Counts, NEW bytes \in 0..(Modulus - 1),
         NEW length, length = n * SizeOf(type), length < Modulus,
         bytes = IF a = "large" THEN RoundUp(length) ELSE length,
         a = "large" => page_size # 0 /\ bytes # 0 /\ Pages(bytes) <= m.pool,
         NEW o \in Placed(m, a, bytes, n)
  PROVE  /\ MemoryKept(o.memory)
         /\ Made(type, a, o) \in BufferType /\ Made(type, a, o).data # Null
         /\ o.lost = {} /\ Served(m, o.memory, {}, Made(type, a, o))
         /\ Served(m, o.memory, {o.data}, Empty(type, a))
<1> DEFINE h == Made(type, a, o)
           k == Empty(type, a)
<1>1. page_size \in Nat /\ Modulus \in Nat \ {0}
  BY Sizes
<1>2. /\ o.data \in Addrs \ DOMAIN m.blocks /\ o.size = n /\ o.lost = {}
      /\ MemoryKept(o.memory)
      /\ DOMAIN o.memory.blocks = DOMAIN m.blocks \cup {o.data}
      /\ \A q \in DOMAIN m.blocks : o.memory.blocks[q] = m.blocks[q]
      /\ o.memory.blocks[o.data] = [kind |-> a, bytes |-> bytes]
  BY <1>1, PlacedKept
<1>3. Null \notin Addrs /\ n \in 0..(Modulus - 1)
  BY BufferAssumption
<1>4. /\ h.type = type /\ h.alloc = a /\ h.data = o.data /\ h.size = n
      /\ k.data = Null
  BY <1>2 DEF Made, Empty
<1>5. h \in BufferType /\ h.data # Null
  BY <1>2, <1>3 DEF BufferType, Made
<1> HIDE DEF h, k
<1>6. BlockFor(h) = [kind |-> a, bytes |-> bytes]
  BY <1>4 DEF BlockFor
<1>7. Served(m, o.memory, {}, h)
  <2>1. a = "large" => RoundUp(n * SizeOf(type)) # 0
    OBVIOUS
  <2> QED BY <1>2, <1>4, <1>6, <2>1 DEF Served
<1>8. Served(m, o.memory, {o.data}, k)
  BY <1>2, <1>4 DEF Served
<1> QED BY <1>2, <1>5, <1>7, <1>8 DEF h, k

\* What an allocation of memory m gives makes a buffer.
LEMMA Given ==
  ASSUME page_size \in PageSizes, NEW m, MemoryKept(m), NEW a \in Allocators,
         NEW type \in Types, NEW n \in Counts, NEW o \in Allocated(m, a, type, n)
  PROVE  /\ Made(type, a, o) \in BufferType
         /\ Made(type, a, o).data = Null => Made(type, a, o).size = 0
         /\ MemoryKept(o.memory) /\ Served(m, o.memory, o.lost, Made(type, a, o))
<1> DEFINE bytes == n * SizeOf(type)
           long  == RoundUp(bytes)
           given == IF CheckedMul(n, SizeOf(type)) = Null \/ (a # "std" /\ n = 0) THEN {}
                    ELSE IF a = "large" THEN LargePages(m, CheckedMul(n, SizeOf(type)), n)
                    ELSE Placed(m, a, CheckedMul(n, SizeOf(type)), n)
<1>0. /\ page_size \in Nat /\ Modulus \in Nat \ {0} /\ Null \notin Addrs
      /\ bytes \in Nat /\ 0 \in 0..(Modulus - 1)
  <2>0. n \in Nat
    BY BufferAssumption
  <2>1. n \in Nat /\ SizeOf(type) \in Nat
    BY <2>0, Sizes
  <2>2. bytes \in Nat
    BY <2>1, ProductType
  <2>3. /\ page_size \in Nat /\ Modulus \in Nat \ {0}
        /\ Null \notin Addrs /\ 0 \in 0..(Modulus - 1)
    BY BufferAssumption
  <2> QED BY <2>2, <2>3
<1>1. /\ Empty(type, a) \in BufferType
      /\ Empty(type, a).data = Null /\ Empty(type, a).size = 0
  BY <1>0 DEF BufferType, Empty
\* A block, before the elements are constructed.
<1>2. ASSUME NEW g \in given
      PROVE  /\ MemoryKept(g.memory)
             /\ Made(type, a, g) \in BufferType /\ Made(type, a, g).data # Null
             /\ g.lost = {} /\ Served(m, g.memory, {}, Made(type, a, g))
             /\ Served(m, g.memory, {g.data}, Empty(type, a))
  <2>0. CheckedMul(n, SizeOf(type)) = bytes /\ bytes < Modulus
    <3>1. CheckedMul(n, SizeOf(type)) # Null
      BY <1>2
    <3>2. CheckedMul(n, SizeOf(type)) = IF bytes >= Modulus THEN Null ELSE bytes
      BY DEF CheckedMul
    <3> HIDE DEF bytes
    <3> QED BY <1>0, <3>1, <3>2
  <2>1. CASE a # "large"
    <3>1. g \in Placed(m, a, bytes, n) /\ bytes \in 0..(Modulus - 1)
      BY <1>0, <1>2, <2>0, <2>1
    <3>2. /\ bytes = n * SizeOf(type) /\ bytes < Modulus
          /\ bytes = IF a = "large" THEN RoundUp(bytes) ELSE bytes
          /\ a = "large" => page_size # 0 /\ bytes # 0 /\ Pages(bytes) <= m.pool
      BY <2>0, <2>1
    <3> HIDE DEF bytes
    <3> QED BY <3>1, <3>2, PlacedServes
  <2>2. CASE a = "large"
    <3>1. g \in LargePages(m, bytes, n)
      BY <1>2, <2>0, <2>2
    <3>2. /\ long \in 0..(Modulus - 1) /\ Pages(long) \in Nat /\ m.pool \in Nat
      <4> HIDE DEF bytes
      <4> QED BY <1>0, RoundedType DEF MemoryKept
    <3>3. /\ g \in Placed(m, "large", long, n)
          /\ long # 0 /\ Pages(long) <= m.pool
      BY <3>1, <3>2 DEF LargePages
    <3>4. page_size # 0
      BY <3>3 DEF RoundUp
    <3>5. /\ bytes = n * SizeOf(type) /\ bytes < Modulus
          /\ long = IF a = "large" THEN RoundUp(bytes) ELSE bytes
          /\ a = "large" => page_size # 0 /\ long # 0 /\ Pages(long) <= m.pool
      BY <2>0, <2>2, <3>3, <3>4
    <3>6. g \in Placed(m, a, long, n)
      BY <2>2, <3>3
    <3> HIDE DEF bytes, long
    <3> QED BY <3>2, <3>5, <3>6, PlacedServes
  <2> QED BY <2>1, <2>2
<1> HIDE DEF given
<1>3. CASE o = Without(m)
  <2>1. o.data = Null /\ o.size = 0 /\ o.memory = m /\ o.lost = {}
    BY <1>3 DEF Without
  <2>2. Made(type, a, o) = Empty(type, a)
    BY <2>1 DEF Made, Empty
  <2>3. Served(m, m, {}, Empty(type, a))
    BY <1>1 DEF Served
  <2> QED BY <1>1, <2>1, <2>2, <2>3
<1>4. CASE o \in given
  BY <1>2, <1>4
<1>5. ASSUME NEW g \in given, o = Thrown(g)
      PROVE  /\ Made(type, a, o) \in BufferType
             /\ Made(type, a, o).data = Null => Made(type, a, o).size = 0
             /\ MemoryKept(o.memory) /\ Served(m, o.memory, o.lost, Made(type, a, o))
  <2>1. o.data = Null /\ o.size = 0 /\ o.memory = g.memory /\ o.lost = {g.data}
    BY <1>5 DEF Thrown, Without
  <2>2. Made(type, a, o) = Empty(type, a)
    BY <2>1 DEF Made, Empty
  <2>3. MemoryKept(g.memory) /\ Served(m, g.memory, {g.data}, Empty(type, a))
    BY <1>2
  <2> QED BY <1>1, <2>1, <2>2, <2>3
<1> QED BY <1>3, <1>4, <1>5 DEF Allocated, given

-----------------------------------------------------------------------------
(* The buffers.                                                            *)

\* While the page size stays what it is, so does what depends on it.
LEMMA PageSizeKept ==
  ASSUME page_size' = page_size
  PROVE  /\ \A h : BlockFor(h)' = BlockFor(h)
         /\ \A n : RoundUp(n)' = RoundUp(n)
         /\ MemoryKept(memory)' <=> MemoryKept(memory')
  BY DEF BlockFor, RoundUp, MemoryKept, PagesHeld, LargeBlocks, Pages

\* The part of BufferInv that is about who holds what.
Holding ==
  /\ BlocksFollow /\ SharedInside /\ HeldOnce /\ LargeOnce
  /\ misfreed \subseteq shared /\ NoOtherLeak

\* The rest of BufferInv: what the variables look like one by one.
Shapes ==
  /\ page_size \in PageSizes
  /\ buffer \in [Buffers -> BufferType \cup {Null}]
  /\ \A b \in Buffers : Alive(b) /\ buffer[b].data = Null => buffer[b].size = 0
  /\ abandoned \subseteq Addrs /\ shared \subseteq Addrs
  /\ stale \subseteq Addrs /\ misfreed \subseteq Addrs

LEMMA InvParts == BufferInv <=> Shapes /\ MemoryKept(memory) /\ Holding
<1>1. ASSUME Shapes, MemoryKept(memory) PROVE TypeOK
  <2>1. Cardinality(PagesHeld(memory)) \in Nat /\ memory.pool \in Nat
    BY <1>1, FS_CardinalityType DEF MemoryKept
  <2>2. memory.pool <= PoolPages
    <3>1. /\ PoolPages \in Nat
          /\ memory.pool + Cardinality(PagesHeld(memory))
               = IF page_size = 0 THEN 0 ELSE PoolPages
      BY <1>1, BufferAssumption DEF MemoryKept
    <3> QED BY <2>1, <3>1
  <2>3. memory.pool \in 0..PoolPages
    BY <2>1, <2>2, BufferAssumption
  <2> QED BY <1>1, <2>3 DEF TypeOK, Shapes, MemoryKept
<1> QED BY <1>1 DEF BufferInv, Holding, TypeOK, Shapes

\* What the parts become makes the invariant.
LEMMA InvNext ==
  ASSUME page_size' = page_size, Shapes', MemoryKept(memory'), Holding'
  PROVE  BufferInv'
<1>1. MemoryKept(memory)'
  BY PageSizeKept
<1>2. (BufferInv <=> Shapes /\ MemoryKept(memory) /\ Holding)'
  BY InvParts, PTL
<1> QED BY <1>1, <1>2

\* A live buffer, and the same when it has let go of its block.
LEMMA EmptiedType ==
  ASSUME Shapes, NEW b \in Buffers, Alive(b)
  PROVE  /\ buffer[b] \in BufferType /\ MovedFrom(buffer[b]) \in BufferType
         /\ MovedFrom(buffer[b]).data = Null /\ MovedFrom(buffer[b]).size = 0
<1>1. buffer[b] \in BufferType /\ 0 \in 0..(Modulus - 1)
  BY BufferAssumption DEF Shapes, Alive
<1> QED BY <1>1 DEF BufferType, MovedFrom

\* What b holds, and what nobody else does.
LEMMA HeldType ==
  ASSUME Shapes, NEW b \in Buffers, Alive(b)
  PROVE  /\ Held(b) \subseteq Addrs /\ Only(b) \subseteq Held(b)
         /\ \A p \in Held(b) : Holds(b, p)
         /\ \A p \in Addrs : Holds(b, p) => p \in Held(b)
         /\ \A p \in Addrs, c \in Buffers \ {b} : Holds(c, p) => p \notin Only(b)
         /\ \A p \in Held(b) \ Only(b) : \E c \in Buffers \ {b} : Holds(c, p)
<1>1. buffer[b].data \in Addrs \cup {Null} /\ Null \notin Addrs
  BY EmptiedType, BufferAssumption DEF BufferType
<1>2. \A p \in Addrs : Holds(b, p) <=> p \in Held(b)
  BY <1>1 DEF Held, Holds
<1>3. Held(b) \subseteq Addrs /\ Only(b) \subseteq Held(b)
  BY <1>1 DEF Held, Only
<1>4. \A p \in Addrs, c \in Buffers \ {b} : Holds(c, p) => p \notin Only(b)
  BY DEF Holds, Only
<1>5. \A p \in Held(b) \ Only(b) : \E c \in Buffers \ {b} : Holds(c, p)
  BY DEF Holds, Only
<1> QED BY <1>2, <1>3, <1>4, <1>5

\* The elements of a buffer with its own block lie inside it.
LEMMA FitsBlock ==
  ASSUME page_size \in PageSizes, NEW h \in BufferType,
         h.size * SizeOf(h.type) < Modulus,
         h.alloc = "large" => RoundUp(h.size * SizeOf(h.type)) # 0
  PROVE  /\ h.size * SizeOf(h.type) \in Nat
         /\ BlockFor(h).bytes \in Nat
         /\ h.size * SizeOf(h.type) <= BlockFor(h).bytes
         /\ BlockFor(h).kind = h.alloc
<1> DEFINE n == h.size * SizeOf(h.type)
<1>1. /\ page_size \in Nat /\ Modulus \in Nat \ {0} /\ SizeOf(h.type) \in Nat
      /\ page_size # 0 => Modulus % page_size = 0
  BY Sizes
<1>2. h.size \in Nat
  BY DEF BufferType
<1>3. n \in Nat
  BY <1>1, <1>2, ProductType
<1>4. /\ BlockFor(h).bytes = IF h.alloc = "large" THEN RoundUp(n) ELSE n
      /\ BlockFor(h).kind = h.alloc
  BY DEF BlockFor
<1>5. n < Modulus /\ (h.alloc = "large" => RoundUp(n) # 0)
  OBVIOUS
<1> HIDE DEF n
<1>6. RoundUp(n) \in Nat
  BY <1>1, <1>3, RoundedType
<1>7. h.alloc = "large" => n <= RoundUp(n)
  BY <1>1, <1>3, <1>5, RoundedHolds
<1> QED BY <1>3, <1>4, <1>6, <1>7 DEF n

\* The elements of a buffer lie inside its block, its own or a shared one, as
\* long as nobody else can have released it.
LEMMA ElementsInBlock ==
  ASSUME Shapes, Holding, NEW b \in Buffers, Alive(b), buffer[b].data # Null,
         buffer[b].alloc = "large" \/ buffer[b].data \notin stale
  PROVE  /\ buffer[b].data \in DOMAIN memory.blocks
         /\ buffer[b].size * SizeOf(buffer[b].type)
              <= memory.blocks[buffer[b].data].bytes
<1>1. buffer[b] \in BufferType /\ page_size \in PageSizes
  BY EmptiedType DEF Shapes
<1>2. CASE buffer[b].alloc = "large" \/ buffer[b].data \notin shared
  <2>1. /\ buffer[b].data \in DOMAIN memory.blocks
        /\ memory.blocks[buffer[b].data] = BlockFor(buffer[b])
        /\ buffer[b].size * SizeOf(buffer[b].type) < Modulus
        /\ buffer[b].alloc = "large"
             => RoundUp(buffer[b].size * SizeOf(buffer[b].type)) # 0
    BY <1>2 DEF Holding, BlocksFollow
  <2> QED BY <1>1, <2>1, FitsBlock
<1>3. CASE buffer[b].data \in shared \ stale
  BY <1>3 DEF Holding, SharedInside
<1> QED BY <1>2, <1>3

\* A buffer of an address that is not shared, or of large pages, has the block
\* it was given.
LEMMA OwnBlock ==
  ASSUME Shapes, Holding, NEW b \in Buffers, Alive(b), buffer[b].data # Null,
         buffer[b].alloc = "large" \/ buffer[b].data \notin shared
  PROVE  /\ buffer[b].data \in DOMAIN memory.blocks
         /\ memory.blocks[buffer[b].data] = BlockFor(buffer[b])
         /\ memory.blocks[buffer[b].data].kind = buffer[b].alloc
<1>1. /\ buffer[b].data \in DOMAIN memory.blocks
      /\ memory.blocks[buffer[b].data] = BlockFor(buffer[b])
  BY DEF Holding, BlocksFollow
<1>2. BlockFor(buffer[b]).kind = buffer[b].alloc
  BY DEF BlockFor
<1> QED BY <1>1, <1>2

\* After b, if it is alive, has released what it holds, the memory m is left;
\* then an allocation gives b what is in h.
LEMMA Replaced ==
  ASSUME Shapes, MemoryKept(memory), Holding, misfreed = {},
         NEW b \in Buffers, NEW H, NEW R,
         \/ ~Alive(b) /\ H = {} /\ R = {}
         \/ Alive(b) /\ Releasable(b) /\ H = Held(b) /\ R = Only(b),
         NEW m, DOMAIN m.blocks = DOMAIN memory.blocks \ H,
         \A q \in DOMAIN m.blocks : m.blocks[q] = memory.blocks[q],
         NEW h \in BufferType, h.data = Null => h.size = 0,
         NEW lost, Served(m, memory', lost, h),
         buffer' = [buffer EXCEPT ![b] = h], abandoned' = abandoned \cup lost,
         shared' = shared \ R, stale' = (stale \ R) \cup (H \ R),
         UNCHANGED <<page_size, misfreed>>
  PROVE  Shapes' /\ Holding'
<1>0. /\ buffer \in [Buffers -> BufferType \cup {Null}] /\ Null \notin Addrs
      /\ buffer'[b] = h /\ \A c \in Buffers \ {b} : buffer'[c] = buffer[c]
      /\ buffer' \in [Buffers -> BufferType \cup {Null}] /\ h # Null
  <2>1. Null \notin BufferType
    BY BufferAssumption DEF BufferType
  <2> QED BY <2>1, BufferAssumption DEF Shapes
<1>1. /\ H \subseteq Addrs /\ R \subseteq H
      /\ \A p \in Addrs : Holds(b, p) => p \in H
      /\ \A p \in Addrs, c \in Buffers \ {b} : Holds(c, p) => p \notin R
      /\ \A p \in H : Holds(b, p) /\ Alive(b)
  <2>1. CASE ~Alive(b) /\ H = {} /\ R = {}
    BY <2>1 DEF Holds
  <2>2. CASE Alive(b) /\ H = Held(b) /\ R = Only(b)
    BY <2>2, HeldType
  <2> QED BY <2>1, <2>2
<1>2. \A c \in Buffers : Alive(c) => buffer[c].data \in Addrs \cup {Null}
  BY EmptiedType DEF BufferType
\* Who else holds what b released was told of it by a conversion.
<1>3. ASSUME NEW c \in Buffers \ {b}, Alive(c), buffer[c].data # Null
      PROVE  /\ buffer[c].data \in Addrs /\ buffer[c].data \notin R
             /\ Holds(c, buffer[c].data)
             /\ buffer[c].data \in H
                  => buffer[c].data \in shared /\ buffer[c].alloc # "large"
  <2> DEFINE p == buffer[c].data
  <2>1. p \in Addrs /\ Holds(c, p)
    BY <1>2, <1>3 DEF Holds
  <2>2. p \notin R
    BY <1>1, <2>1
  <2>3. ASSUME p \in H PROVE p \in shared
    <3>1. Holds(b, p) /\ c # b
      BY <1>1, <2>3
    <3> QED BY <2>1, <3>1 DEF Holding, HeldOnce
  <2>4. ASSUME p \in H PROVE buffer[c].alloc # "large"
    <3>1. Alive(b) /\ Releasable(b) /\ buffer[b].data = p
      BY <1>1, <2>4 DEF Holds
    <3>2. SUFFICES ASSUME buffer[c].alloc = "large" PROVE FALSE
      OBVIOUS
    <3>3. memory.blocks[p].kind = "large"
      BY <1>3, <3>2, OwnBlock
    <3>4. buffer[b].alloc = "large"
      BY <1>3, <3>1, <3>3 DEF Releasable
    <3> QED BY <1>3, <3>1, <3>2, <3>4 DEF Holding, LargeOnce
  <2> QED BY <2>1, <2>2, <2>3, <2>4
\* The others that were sure of their blocks still are.
<1>4. ASSUME NEW c \in Buffers \ {b}, Alive(c), buffer[c].data # Null,
             buffer[c].alloc = "large" \/ buffer[c].data \notin shared'
      PROVE  /\ buffer[c].alloc = "large" \/ buffer[c].data \notin shared
             /\ buffer[c].data \in DOMAIN m.blocks
             /\ buffer[c].data \in DOMAIN memory'.blocks
             /\ memory'.blocks[buffer[c].data] = memory.blocks[buffer[c].data]
  <2>1. buffer[c].alloc = "large" \/ buffer[c].data \notin shared
    BY <1>3, <1>4
  <2>2. buffer[c].data \in DOMAIN memory.blocks
    BY <1>4, <2>1, OwnBlock
  <2>3. buffer[c].data \notin H
    BY <1>3, <1>4, <2>1
  <2>4. buffer[c].data \in DOMAIN m.blocks
    BY <2>2, <2>3
  <2> QED BY <2>1, <2>4 DEF Served
<1>5. h.data # Null =>
        /\ h.data \in Addrs \ DOMAIN m.blocks
        /\ h.data \in DOMAIN memory'.blocks /\ memory'.blocks[h.data] = BlockFor(h)
        /\ h.size * SizeOf(h.type) < Modulus
        /\ h.alloc = "large" => RoundUp(h.size * SizeOf(h.type)) # 0
  BY DEF Served
<1>6. Shapes'
  <2>1. lost \subseteq Addrs
    BY DEF Served
  <2> QED BY <1>0, <1>1, <2>1 DEF Shapes, Alive
<1>7. BlocksFollow'
  <2> SUFFICES ASSUME NEW c \in Buffers, buffer'[c] # Null, buffer'[c].data # Null
               PROVE  LET k == buffer'[c]
                      IN  /\ k.size * SizeOf(k.type) < Modulus
                          /\ k.alloc = "large" \/ k.data \notin shared' =>
                               /\ k.data \in DOMAIN memory'.blocks
                               /\ memory'.blocks[k.data] = BlockFor(k)
                               /\ k.alloc = "large" => RoundUp(k.size * SizeOf(k.type)) # 0
    BY PageSizeKept DEF BlocksFollow, Alive
  <2>1. CASE c = b
    BY <1>0, <1>5, <2>1
  <2>2. CASE c # b
    <3>1. Alive(c) /\ buffer'[c] = buffer[c]
      BY <1>0, <2>2 DEF Alive
    <3> QED BY <1>4, <2>2, <3>1 DEF Holding, BlocksFollow
  <2> QED BY <2>1, <2>2
<1>8. SharedInside'
  <2> SUFFICES ASSUME NEW c \in Buffers, buffer'[c] # Null,
                      buffer'[c].data \in shared' \ stale'
               PROVE  /\ buffer'[c].data \in DOMAIN memory'.blocks
                      /\ buffer'[c].size * SizeOf(buffer'[c].type)
                           <= memory'.blocks[buffer'[c].data].bytes
    BY DEF SharedInside, Alive
  <2>0. buffer'[c].data # Null
    BY <1>0 DEF Shapes
  <2>1. CASE c = b
    <3>1. h.size * SizeOf(h.type) <= BlockFor(h).bytes
      BY <1>0, <1>5, <2>0, <2>1, FitsBlock DEF Shapes
    <3> QED BY <1>0, <1>5, <2>0, <2>1, <3>1
  <2>2. CASE c # b
    <3>1. Alive(c) /\ buffer'[c] = buffer[c]
      BY <1>0, <2>2 DEF Alive
    <3>2. buffer[c].data \in shared \ stale /\ buffer[c].data \notin H
      BY <1>3, <2>0, <2>2, <3>1
    <3>3. buffer[c].data \in DOMAIN m.blocks
      BY <3>1, <3>2 DEF Holding, SharedInside
    <3>4. /\ buffer[c].data \in DOMAIN memory'.blocks
          /\ memory'.blocks[buffer[c].data] = memory.blocks[buffer[c].data]
      BY <3>3 DEF Served
    <3> QED BY <3>1, <3>2, <3>4 DEF Holding, SharedInside
  <2> QED BY <2>1, <2>2
<1>9. HeldOnce' /\ LargeOnce'
  <2>1. ASSUME NEW c \in Buffers, NEW d \in Buffers, NEW p \in Addrs, c # d,
               buffer'[c] # Null, buffer'[c].data = p,
               buffer'[d] # Null, buffer'[d].data = p,
               \/ p \notin shared'
               \/ buffer'[c].alloc = "large" /\ buffer'[d].alloc = "large"
        PROVE  FALSE
    <3>1. ASSUME NEW e \in Buffers \ {b}, e = c \/ e = d
          PROVE  /\ p \in DOMAIN m.blocks /\ Alive(e) /\ buffer[e].data = p
                 /\ buffer'[e] = buffer[e]
                 /\ buffer[e].alloc = "large" \/ p \notin shared
      <4>1. /\ Alive(e) /\ buffer[e].data = p /\ buffer'[e] = buffer[e]
            /\ buffer[e].data # Null
            /\ buffer[e].alloc = "large" \/ buffer[e].data \notin shared'
        BY <1>0, <2>1, <3>1 DEF Alive
      <4> QED BY <1>4, <4>1
    <3>2. b = c \/ b = d => p \notin DOMAIN m.blocks
      BY <1>0, <1>5, <2>1
    <3>3. c # b /\ d # b
      BY <2>1, <3>1, <3>2
    <3>6. /\ Alive(c) /\ buffer[c].data = p /\ buffer'[c] = buffer[c]
          /\ buffer[c].alloc = "large" \/ p \notin shared
          /\ Alive(d) /\ buffer[d].data = p /\ buffer'[d] = buffer[d]
          /\ buffer[d].alloc = "large" \/ p \notin shared
      BY <3>1, <3>3
    <3>4. CASE p \notin shared
      BY <2>1, <3>4, <3>6 DEF Holding, HeldOnce, Holds
    <3>5. CASE p \in shared
      BY <1>0, <2>1, <3>5, <3>6 DEF Holding, LargeOnce
    <3> QED BY <3>4, <3>5
  <2>2. \A c \in Buffers : buffer'[c] # Null => buffer'[c].data \in Addrs \cup {Null}
    BY <1>0 DEF BufferType
  <2>3. HeldOnce'
    BY <2>1 DEF HeldOnce, Holds, Alive
  <2>4. LargeOnce'
    BY <2>1, <2>2 DEF LargeOnce, Alive
  <2> QED BY <2>3, <2>4
<1>10. NoOtherLeak'
  <2> SUFFICES ASSUME NEW p \in DOMAIN memory'.blocks, p \notin abandoned'
               PROVE  \E c \in Buffers : buffer'[c] # Null /\ buffer'[c].data = p
    BY DEF NoOtherLeak, Holds, Alive
  <2>1. CASE p = h.data
    BY <1>0, <2>1
  <2>2. CASE p \in DOMAIN m.blocks
    <3>1. PICK c \in Buffers : Holds(c, p)
      BY <2>2 DEF Holding, NoOtherLeak
    <3>3. p \in Addrs
      BY <2>2 DEF MemoryKept
    <3>4. c # b
      BY <1>1, <2>2, <3>1, <3>3
    <3> QED BY <1>0, <3>1, <3>4 DEF Holds, Alive
  <2> QED BY <2>1, <2>2 DEF Served
<1>11. misfreed' \subseteq shared'
  OBVIOUS
<1> QED BY <1>6, <1>7, <1>8, <1>9, <1>10, <1>11 DEF Holding
\* Blocks change hands and are dropped, none is taken or released: what c
\* holds afterwards it has from the buffer from[c].  R is what nobody holds
\* any more.
Handover(from, R) ==
  /\ UNCHANGED <<page_size, memory, misfreed>>
  /\ shared' = shared \ R /\ stale' = stale \ R
  /\ from \in [Buffers -> Buffers]
  /\ \A c \in Buffers : buffer'[c] # Null /\ buffer'[c].data # Null =>
       /\ Alive(from[c]) /\ buffer'[c] = buffer[from[c]]
       /\ buffer'[c].data \notin R
  /\ \A c, d \in Buffers :
         /\ from[c] = from[d]
         /\ buffer'[c] # Null /\ buffer'[c].data # Null
         /\ buffer'[d] # Null /\ buffer'[d].data # Null
       => c = d
  /\ abandoned \subseteq abandoned'
  /\ \A p \in DOMAIN memory.blocks, c \in Buffers :
       Holds(c, p) => \/ p \in abandoned'
                      \/ \E d \in Buffers : buffer'[d] # Null /\ buffer'[d].data = p

LEMMA Handed ==
  ASSUME Shapes, Holding, misfreed = {}, NEW from, NEW R, Handover(from, R)
  PROVE  Holding'
<1>0. /\ Null \notin Addrs /\ shared \subseteq Addrs
      /\ BlocksFollow /\ SharedInside /\ HeldOnce /\ LargeOnce /\ NoOtherLeak
  BY BufferAssumption DEF Holding, Shapes
<1>1. BlocksFollow'
  BY <1>0, PageSizeKept DEF Handover, BlocksFollow, Alive
<1>2. SharedInside'
  BY <1>0 DEF Handover, SharedInside, Alive
<1>3. HeldOnce'
  BY <1>0 DEF Handover, HeldOnce, Holds, Alive
<1>4. LargeOnce'
  BY <1>0 DEF Handover, LargeOnce, Alive
<1>5. NoOtherLeak'
  BY <1>0 DEF Handover, NoOtherLeak, Holds, Alive
<1> QED BY <1>1, <1>2, <1>3, <1>4, <1>5 DEF Handover, Holding

-----------------------------------------------------------------------------
(* The calls.                                                              *)

\* buffer(size_n, allocator)
LEMMA ConstructStep ==
  ASSUME BufferInv, misfreed = {}, NEW b \in Buffers, Construct(b) PROVE BufferInv'
<1>0. Shapes /\ MemoryKept(memory) /\ Holding /\ page_size \in PageSizes
  BY InvParts DEF Shapes
<1>a. PICK a \in Allocators, n \in Counts : \E o \in Allocated(memory, a, "TYPE", n) :
        /\ buffer' = [buffer EXCEPT ![b] = [type |-> "TYPE", alloc |-> a,
                                            data |-> o.data, size |-> o.size]]
        /\ memory' = o.memory /\ abandoned' = abandoned \cup o.lost
  BY DEF Construct
<1>1. PICK o \in Allocated(memory, a, "TYPE", n) :
        /\ buffer' = [buffer EXCEPT ![b] = [type |-> "TYPE", alloc |-> a,
                                            data |-> o.data, size |-> o.size]]
        /\ memory' = o.memory /\ abandoned' = abandoned \cup o.lost
  BY <1>a
<1>2. ~Alive(b) /\ UNCHANGED <<page_size, shared, stale, misfreed>>
  BY DEF Construct
<1> DEFINE h == Made("TYPE", a, o)
<1>3. buffer' = [buffer EXCEPT ![b] = h]
  BY <1>1 DEF Made
<1>4. /\ h \in BufferType /\ (h.data = Null => h.size = 0)
      /\ MemoryKept(memory') /\ Served(memory, memory', o.lost, h)
  <2>1. "TYPE" \in Types
    BY DEF Types
  <2> QED BY <1>0, <1>1, <2>1, Given
<1> HIDE DEF h
<1>5. shared' = shared \ {} /\ stale' = (stale \ {}) \cup ({} \ {})
  BY <1>2
<1>6. DOMAIN memory.blocks = DOMAIN memory.blocks \ {}
  OBVIOUS
<1>7. Shapes' /\ Holding'
  BY <1>0, <1>1, <1>2, <1>3, <1>4, <1>5, <1>6, Replaced
<1> QED BY <1>2, <1>4, <1>7, InvNext

\* buffer(nullptr, allocator)
LEMMA ConstructEmptyStep ==
  ASSUME BufferInv, misfreed = {}, NEW b \in Buffers, ConstructEmpty(b)
  PROVE  BufferInv'
<1>0. Shapes /\ MemoryKept(memory) /\ Holding
  BY InvParts
<1>1. PICK a \in Allocators :
        buffer' = [buffer EXCEPT ![b] = [type |-> "TYPE", alloc |-> a,
                                         data |-> Null, size |-> 0]]
  BY DEF ConstructEmpty
<1>2. ~Alive(b) /\ UNCHANGED <<page_size, memory, abandoned, shared, stale, misfreed>>
  BY DEF ConstructEmpty
<1> DEFINE h == Empty("TYPE", a)
<1>3. h \in BufferType /\ h.data = Null /\ h.size = 0
  BY BufferAssumption DEF BufferType, Empty, Types
<1>4. buffer' = [buffer EXCEPT ![b] = h]
  BY <1>1 DEF Empty
<1> HIDE DEF h
<1>5. /\ shared' = shared \ {} /\ stale' = (stale \ {}) \cup ({} \ {})
      /\ abandoned' = abandoned \cup {}
      /\ DOMAIN memory.blocks = DOMAIN memory.blocks \ {}
      /\ UNCHANGED <<page_size, misfreed>>
  BY <1>2
<1>6. Served(memory, memory', {}, h)
  BY <1>2, <1>3 DEF Served
<1>7. Shapes' /\ Holding'
  BY <1>0, <1>2, <1>3, <1>4, <1>5, <1>6, Replaced
<1> QED BY <1>0, <1>2, <1>7, InvNext

\* What is left when a live buffer has released its block.
LEMMA AfterFree ==
  ASSUME Shapes, MemoryKept(memory), Holding, NEW b \in Buffers,
         Alive(b), Releasable(b)
  PROVE  /\ buffer[b] \in BufferType
         /\ MemoryKept(Freed(memory, buffer[b]))
         /\ DOMAIN Freed(memory, buffer[b]).blocks = DOMAIN memory.blocks \ Held(b)
         /\ \A q \in DOMAIN Freed(memory, buffer[b]).blocks :
              Freed(memory, buffer[b]).blocks[q] = memory.blocks[q]
<1>1. /\ page_size \in PageSizes /\ page_size \in Nat /\ Modulus \in Nat \ {0}
      /\ Null \notin DOMAIN memory.blocks
  BY BufferAssumption DEF Shapes, MemoryKept
<1>2. buffer[b] \in BufferType
  BY EmptiedType
<1>3. buffer[b].data # Null =>
        /\ buffer[b].data \in DOMAIN memory.blocks
        /\ buffer[b].alloc = "large" <=> memory.blocks[buffer[b].data].kind = "large"
        /\ buffer[b].alloc = "large" =>
             memory.blocks[buffer[b].data] = BlockFor(buffer[b])
  BY OwnBlock DEF Releasable
<1>4. DOMAIN memory.blocks \ {buffer[b].data} = DOMAIN memory.blocks \ Held(b)
  BY <1>1 DEF Held
<1> QED BY <1>1, <1>2, <1>3, <1>4, FreedKept

\* buffer::free
LEMMA FreeStep ==
  ASSUME BufferInv, misfreed = {}, NEW b \in Buffers, Free(b) PROVE BufferInv'
<1>0. Shapes /\ MemoryKept(memory) /\ Holding
  BY InvParts
<1> DEFINE h == MovedFrom(buffer[b])
           m == Freed(memory, buffer[b])
<1>1. /\ Alive(b) /\ Releasable(b) /\ memory' = m
      /\ buffer' = [buffer EXCEPT ![b] = h]
      /\ shared' = shared \ Only(b)
      /\ stale' = (stale \ Only(b)) \cup (Held(b) \ Only(b))
      /\ UNCHANGED <<page_size, abandoned, misfreed>>
  BY <1>0 DEF Free, Release, Shapes
<1>2. h \in BufferType /\ h.data = Null /\ h.size = 0
  BY <1>0, <1>1, EmptiedType
<1>3. /\ MemoryKept(m) /\ DOMAIN m.blocks = DOMAIN memory.blocks \ Held(b)
      /\ \A q \in DOMAIN m.blocks : m.blocks[q] = memory.blocks[q]
  BY <1>0, <1>1, AfterFree
<1> HIDE DEF h, m
<1>4. Served(m, memory', {}, h) /\ abandoned' = abandoned \cup {}
  BY <1>1, <1>2 DEF Served
<1>5. UNCHANGED <<page_size, misfreed>>
  BY <1>1
<1>6. Shapes' /\ Holding'
  BY <1>0, <1>1, <1>2, <1>3, <1>4, <1>5, Replaced
<1> QED BY <1>1, <1>3, <1>6, InvNext

\* buffer::realloc
LEMMA ReallocStep ==
  ASSUME BufferInv, misfreed = {}, NEW b \in Buffers, Realloc(b) PROVE BufferInv'
<1>0. Shapes /\ MemoryKept(memory) /\ Holding /\ page_size \in PageSizes
  BY InvParts DEF Shapes
<1> DEFINE m == Freed(memory, buffer[b])
           a == buffer[b].alloc
           type == buffer[b].type
<1>1. /\ Alive(b) /\ Releasable(b) /\ shared' = shared \ Only(b)
      /\ stale' = (stale \ Only(b)) \cup (Held(b) \ Only(b))
      /\ UNCHANGED <<page_size, misfreed>>
  BY DEF Realloc, Release
<1>a. PICK n \in Counts : \E o \in Allocated(m, a, type, n) :
        /\ buffer' = [buffer EXCEPT ![b].data = o.data, ![b].size = o.size]
        /\ memory' = o.memory /\ abandoned' = abandoned \cup o.lost
  BY DEF Realloc, FreedFirst
<1>2. PICK o \in Allocated(m, a, type, n) :
        /\ buffer' = [buffer EXCEPT ![b].data = o.data, ![b].size = o.size]
        /\ memory' = o.memory /\ abandoned' = abandoned \cup o.lost
  BY <1>a
<1> DEFINE h == Made(type, a, o)
<1>3. /\ MemoryKept(m) /\ DOMAIN m.blocks = DOMAIN memory.blocks \ Held(b)
      /\ \A q \in DOMAIN m.blocks : m.blocks[q] = memory.blocks[q]
      /\ buffer[b] \in BufferType
  BY <1>0, <1>1, AfterFree
<1>4. a \in Allocators /\ type \in Types
  BY <1>3 DEF BufferType
<1>5. buffer' = [buffer EXCEPT ![b] = h]
  <2>1. [buffer[b] EXCEPT !.data = o.data, !.size = o.size] = h
    <3> DEFINE r == [buffer[b] EXCEPT !.data = o.data, !.size = o.size]
    <3>1. /\ r \in [type : Types, alloc : Allocators, data : {o.data}, size : {o.size}]
          /\ r.alloc = a /\ r.type = type
      BY <1>3 DEF BufferType
    <3> HIDE DEF r, a, type
    <3>2. r = [type |-> type, alloc |-> a, data |-> o.data, size |-> o.size]
      BY <3>1
    <3> QED BY <3>2 DEF r, Made
  <2>2. buffer' = [buffer EXCEPT ![b] = [buffer[b] EXCEPT !.data = o.data, !.size = o.size]]
    BY <1>0, <1>2 DEF Shapes
  <2> QED BY <2>1, <2>2
<1> HIDE DEF h, m, a, type
<1>6. /\ h \in BufferType /\ (h.data = Null => h.size = 0)
      /\ MemoryKept(memory') /\ Served(m, memory', o.lost, h)
  BY <1>0, <1>2, <1>3, <1>4, Given DEF h
<1>7. Shapes' /\ Holding'
  BY <1>0, <1>1, <1>2, <1>3, <1>5, <1>6, Replaced
<1> QED BY <1>1, <1>6, <1>7, InvNext

\* A release that is undefined was of an address that a conversion shared.
LEMMA MisfreeStep ==
  ASSUME BufferInv, NEW b \in Buffers, Misfree(b) PROVE BufferInv'
<1>0. Shapes /\ MemoryKept(memory) /\ Holding
  BY InvParts
<1>1. /\ Alive(b) /\ buffer[b].data # Null /\ misfreed' = {buffer[b].data}
      /\ Releasable(b) => memory.blocks[buffer[b].data].kind # buffer[b].alloc
      /\ UNCHANGED <<page_size, memory, buffer, abandoned, shared, stale>>
  BY DEF Misfree
<1>2. buffer[b].data \in Addrs
  BY <1>0, <1>1, EmptiedType DEF BufferType
<1>3. buffer[b].data \in shared
  <2> SUFFICES ASSUME buffer[b].data \notin shared PROVE FALSE
    OBVIOUS
  <2>1. /\ buffer[b].data \in DOMAIN memory.blocks
        /\ memory.blocks[buffer[b].data].kind = buffer[b].alloc
    BY <1>0, <1>1, OwnBlock
  <2> QED BY <1>1, <2>1 DEF Releasable
<1>4. Shapes'
  BY <1>0, <1>1, <1>2 DEF Shapes, Alive
<1>5. Holding'
  <2>1. BlocksFollow' /\ SharedInside' /\ HeldOnce' /\ LargeOnce' /\ NoOtherLeak'
    BY <1>0, <1>1, PageSizeKept
       DEF Holding, BlocksFollow, SharedInside, HeldOnce, LargeOnce, NoOtherLeak,
           Holds, Alive
  <2> QED BY <1>1, <1>3, <2>1 DEF Holding
<1> QED BY <1>0, <1>1, <1>4, <1>5, InvNext
\* The moving constructor.
LEMMA MoveConstructStep ==
  ASSUME BufferInv, misfreed = {}, NEW b \in Buffers, NEW source \in Buffers,
         MoveConstruct(b, source)
  PROVE  BufferInv'
<1>0. Shapes /\ MemoryKept(memory) /\ Holding
  BY InvParts
<1> DEFINE k == MovedFrom(buffer[source])
<1>1. /\ ~Alive(b) /\ Alive(source) /\ b # source
      /\ UNCHANGED <<page_size, memory, abandoned, shared, stale, misfreed>>
  BY DEF MoveConstruct
<1>2. k \in BufferType /\ buffer[source] \in BufferType /\ k.data = Null /\ k.size = 0
  BY <1>0, <1>1, EmptiedType
<1>3. buffer' = [[buffer EXCEPT ![b] = buffer[source]] EXCEPT ![source] = k]
  BY <1>0, <1>1 DEF MoveConstruct, Shapes
<1> HIDE DEF k
<1>4. /\ buffer'[b] = buffer[source] /\ buffer'[source] = k
      /\ \A c \in Buffers \ {b, source} : buffer'[c] = buffer[c]
      /\ buffer' \in [Buffers -> BufferType \cup {Null}]
  BY <1>0, <1>1, <1>2, <1>3 DEF Shapes
<1>5. Shapes'
  BY <1>0, <1>1, <1>2, <1>4 DEF Shapes, Alive
<1>6. Holding'
  <2> DEFINE from == [c \in Buffers |-> IF c = b THEN source ELSE c]
  <2>1. from \in [Buffers -> Buffers]
    OBVIOUS
  <2>2. \A c \in Buffers : buffer'[c] # Null /\ buffer'[c].data # Null =>
          c # source /\ Alive(from[c]) /\ buffer'[c] = buffer[from[c]]
    BY <1>1, <1>2, <1>4 DEF Alive
  <2>3. \A c, d \in Buffers :
            /\ from[c] = from[d]
            /\ buffer'[c] # Null /\ buffer'[c].data # Null
            /\ buffer'[d] # Null /\ buffer'[d].data # Null
          => c = d
    BY <2>2
  <2>4. \A p \in DOMAIN memory.blocks, c \in Buffers :
          Holds(c, p) => \/ p \in abandoned'
                         \/ \E d \in Buffers : buffer'[d] # Null /\ buffer'[d].data = p
    BY <1>1, <1>4 DEF Holds, Alive
  <2>5. \A c \in Buffers : buffer'[c] # Null /\ buffer'[c].data # Null =>
          /\ Alive(from[c]) /\ buffer'[c] = buffer[from[c]]
          /\ buffer'[c].data \notin {}
    BY <2>2
  <2>6. /\ abandoned \subseteq abandoned' /\ UNCHANGED <<page_size, memory, misfreed>>
        /\ shared' = shared \ {} /\ stale' = stale \ {}
    BY <1>1
  <2> HIDE DEF from
  <2>7. Handover(from, {})
    BY <2>1, <2>3, <2>4, <2>5, <2>6 DEF Handover
  <2> QED BY <1>0, <2>7, Handed
<1> QED BY <1>0, <1>1, <1>5, <1>6, InvNext

\* A block in the memory that b drops is remembered, or somebody else has it.
LEMMA DroppedKnown ==
  ASSUME Shapes, MemoryKept(memory), NEW b \in Buffers, Alive(b), Drop(b),
         NEW p \in DOMAIN memory.blocks, Holds(b, p)
  PROVE  p \in abandoned' \/ \E c \in Buffers \ {b} : Holds(c, p)
<1>1. p \in Held(b)
  BY HeldType DEF MemoryKept
<1> QED BY <1>1, HeldType DEF Drop

\* A live buffer drops what it holds and gets nothing, from nobody.
LEMMA DropStep ==
  ASSUME BufferInv, misfreed = {}, NEW b \in Buffers, Alive(b), Drop(b),
         UNCHANGED page_size,
         NEW h \in BufferType \cup {Null}, buffer' = [buffer EXCEPT ![b] = h],
         h # Null => h.data = Null /\ h.size = 0
  PROVE  BufferInv'
<1>0. Shapes /\ MemoryKept(memory) /\ Holding
  BY InvParts
<1>1. /\ buffer'[b] = h /\ \A c \in Buffers \ {b} : buffer'[c] = buffer[c]
      /\ buffer' \in [Buffers -> BufferType \cup {Null}]
  BY <1>0 DEF Shapes
<1>2. /\ abandoned' = abandoned \cup (Only(b) \cap DOMAIN memory.blocks)
      /\ shared' = shared \ Only(b) /\ stale' = stale \ Only(b)
      /\ UNCHANGED <<page_size, memory, misfreed>>
  BY DEF Drop
<1>3. Shapes'
  <2>1. Only(b) \subseteq Addrs
    BY <1>0, HeldType
  <2> QED BY <1>0, <1>1, <1>2, <2>1 DEF Shapes, Alive
<1>4. Holding'
  <2> DEFINE from == [c \in Buffers |-> c]
  <2>1. from \in [Buffers -> Buffers]
    OBVIOUS
  <2>2. \A c \in Buffers : buffer'[c] # Null /\ buffer'[c].data # Null =>
          /\ Alive(from[c]) /\ buffer'[c] = buffer[from[c]]
          /\ buffer'[c].data \notin Only(b)
    BY <1>1 DEF Alive, Only
  <2>3. \A c, d \in Buffers :
            /\ from[c] = from[d]
            /\ buffer'[c] # Null /\ buffer'[c].data # Null
            /\ buffer'[d] # Null /\ buffer'[d].data # Null
          => c = d
    OBVIOUS
  <2>4. \A p \in DOMAIN memory.blocks, c \in Buffers :
          Holds(c, p) => \/ p \in abandoned'
                         \/ \E d \in Buffers : buffer'[d] # Null /\ buffer'[d].data = p
    BY <1>0, <1>1, DroppedKnown DEF Holds, Alive
  <2>5. abandoned \subseteq abandoned'
    BY <1>2
  <2> HIDE DEF from
  <2>6. Handover(from, Only(b))
    BY <1>2, <2>1, <2>2, <2>3, <2>4, <2>5 DEF Handover
  <2> QED BY <1>0, <2>6, Handed
<1> QED BY <1>0, <1>2, <1>3, <1>4, InvNext

\* Assigning nullptr.
LEMMA AssignNullStep ==
  ASSUME BufferInv, UNCHANGED page_size, misfreed = {}, NEW b \in Buffers,
         AssignNull(b)
  PROVE  BufferInv'
<1>0. Shapes /\ Alive(b) /\ Drop(b)
  BY InvParts DEF AssignNull
<1>1. buffer' = [buffer EXCEPT ![b] = MovedFrom(buffer[b])]
  BY <1>0 DEF AssignNull, MovedFrom, Shapes
<1>2. /\ MovedFrom(buffer[b]) \in BufferType
      /\ MovedFrom(buffer[b]).data = Null /\ MovedFrom(buffer[b]).size = 0
  BY <1>0, EmptiedType
<1> QED BY <1>0, <1>1, <1>2, DropStep

\* The destructor.
LEMMA DestroyStep ==
  ASSUME BufferInv, misfreed = {}, NEW b \in Buffers, Destroy(b) PROVE BufferInv'
<1>1. Alive(b) /\ Drop(b) /\ buffer' = [buffer EXCEPT ![b] = Null] /\ UNCHANGED page_size
  BY DEF Destroy, Drop
<1> QED BY <1>1, DropStep

\* The moving assignment, also of a buffer to itself.
LEMMA MoveAssignStep ==
  ASSUME BufferInv, misfreed = {}, NEW b \in Buffers, NEW source \in Buffers,
         MoveAssign(b, source)
  PROVE  BufferInv'
<1>0. Shapes /\ MemoryKept(memory) /\ Holding
  BY InvParts
<1> DEFINE k == MovedFrom(buffer[source])
<1>1. /\ Alive(b) /\ Alive(source) /\ Drop(b)
      /\ abandoned' = abandoned \cup (Only(b) \cap DOMAIN memory.blocks)
      /\ shared' = shared \ Only(b) /\ stale' = stale \ Only(b)
      /\ UNCHANGED <<page_size, memory, misfreed>>
  BY DEF MoveAssign, Drop
<1>2. k \in BufferType /\ buffer[source] \in BufferType /\ k.data = Null /\ k.size = 0
  BY <1>0, <1>1, EmptiedType
<1>3. CASE b = source
  <2>1. buffer' = [buffer EXCEPT ![b] = k]
    BY <1>0, <1>3 DEF MoveAssign, Shapes
  <2> HIDE DEF k
  <2> QED BY <1>1, <1>2, <2>1, DropStep
<1>4. CASE b # source
  <2>1. buffer' = [[buffer EXCEPT ![b] = buffer[source]] EXCEPT ![source] = k]
    BY <1>0, <1>4 DEF MoveAssign, Shapes
  <2> HIDE DEF k
  <2>2. /\ buffer'[b] = buffer[source] /\ buffer'[source] = k
        /\ \A c \in Buffers \ {b, source} : buffer'[c] = buffer[c]
        /\ buffer' \in [Buffers -> BufferType \cup {Null}]
    BY <1>0, <1>2, <1>4, <2>1 DEF Shapes
  <2>3. Shapes'
    <3>1. Only(b) \subseteq Addrs
      BY <1>0, <1>1, HeldType
    <3> QED BY <1>0, <1>1, <1>2, <2>2, <3>1 DEF Shapes, Alive
  <2>4. Holding'
    <3> DEFINE from == [c \in Buffers |-> IF c = b THEN source ELSE c]
    <3>1. from \in [Buffers -> Buffers]
      OBVIOUS
    <3>2. \A c \in Buffers : buffer'[c] # Null /\ buffer'[c].data # Null =>
            /\ c # source /\ from[c] # b
            /\ Alive(from[c]) /\ buffer'[c] = buffer[from[c]]
      BY <1>1, <1>2, <1>4, <2>2 DEF Alive
    <3>3. \A c, d \in Buffers :
              /\ from[c] = from[d]
              /\ buffer'[c] # Null /\ buffer'[c].data # Null
              /\ buffer'[d] # Null /\ buffer'[d].data # Null
            => c = d
      BY <3>2
    <3>4. \A p \in DOMAIN memory.blocks, c \in Buffers :
            Holds(c, p) => \/ p \in abandoned'
                          \/ \E d \in Buffers : buffer'[d] # Null /\ buffer'[d].data = p
      <4>1. \A p \in DOMAIN memory.blocks, c \in Buffers \ {b} :
              Holds(c, p) => \E d \in Buffers : buffer'[d] # Null /\ buffer'[d].data = p
        BY <2>2 DEF Holds, Alive
      <4> QED BY <1>0, <1>1, <4>1, DroppedKnown
    <3>5. \A c \in Buffers : buffer'[c] # Null /\ buffer'[c].data # Null =>
            /\ Alive(from[c]) /\ buffer'[c] = buffer[from[c]]
            /\ buffer'[c].data \notin Only(b)
      BY <3>1, <3>2 DEF Only
    <3>6. abandoned \subseteq abandoned' /\ UNCHANGED <<page_size, memory, misfreed>>
      BY <1>1
    <3> HIDE DEF from
    <3>7. Handover(from, Only(b))
      BY <1>1, <3>1, <3>3, <3>4, <3>5, <3>6 DEF Handover
    <3> QED BY <1>0, <3>7, Handed
  <2> QED BY <1>0, <1>1, <2>3, <2>4, InvNext
<1> QED BY <1>3, <1>4

\* operator buffer<OTHERTYPE>
LEMMA ViewStep ==
  ASSUME BufferInv, misfreed = {}, NEW b \in Buffers, NEW source \in Buffers,
         View(b, source)
  PROVE  BufferInv'
<1>0. Shapes /\ MemoryKept(memory) /\ Holding
  BY InvParts
<1> DEFINE n == buffer[source].size * ElementSize
           p == buffer[source].data
           k == (n % Modulus) \div OtherSize
           h == [type |-> "OTHERTYPE", alloc |-> "std", data |-> p, size |-> k]
<1>1. /\ ~Alive(b) /\ Alive(source) /\ buffer[source].type = "TYPE" /\ b # source
      /\ buffer' = [buffer EXCEPT ![b] = h] /\ shared' = shared \cup Held(source)
      /\ UNCHANGED <<page_size, memory, abandoned, stale, misfreed>>
  BY DEF View, ViewSize
<1>2. /\ Modulus \in Nat \ {0} /\ OtherSize \in Nat \ {0} /\ ElementSize \in Nat
      /\ Null \notin Addrs
  BY BufferAssumption
<1>3. /\ buffer[source] \in BufferType /\ p \in Addrs \cup {Null}
      /\ buffer[source].size \in Nat /\ (p = Null => buffer[source].size = 0)
  BY <1>0, <1>1, EmptiedType DEF BufferType, Shapes
<1>4. SizeOf("OTHERTYPE") = OtherSize /\ SizeOf("TYPE") = ElementSize
  BY DEF SizeOf
<1>5. n \in Nat /\ n < Modulus /\ (p = Null => n = 0)
  <2>1. n \in Nat
    BY <1>2, <1>3, ProductType
  <2>2. CASE p = Null
    BY <1>2, <1>3, <2>2
  <2>3. CASE p # Null
    BY <1>0, <1>1, <1>4, <2>1, <2>3 DEF Holding, BlocksFollow
  <2> QED BY <2>1, <2>2, <2>3
<1>6. k \in Nat /\ k * OtherSize \in Nat /\ k * OtherSize <= n /\ k <= n
  <2> DEFINE q == n \div OtherSize
  <2> HIDE DEF n
  <2>1. k = q
    BY <1>2, <1>5, BelowDivisor
  <2>2. q \in Nat /\ q * OtherSize <= n /\ q <= n
    BY <1>2, <1>5, QuotientFits
  <2> HIDE DEF q, k
  <2>3. q * OtherSize \in Nat
    BY <1>2, <2>2, ProductType
  <2> QED BY <2>1, <2>2, <2>3
<1> HIDE DEF k
<1>7. /\ h.size * SizeOf(h.type) \in Nat /\ h.size * SizeOf(h.type) <= n
      /\ h.size * SizeOf(h.type) < Modulus
      /\ h.alloc = "std" /\ h.data = p /\ h.size = k
  <2>1. h.size = k /\ h.type = "OTHERTYPE" /\ h.alloc = "std" /\ h.data = p
    OBVIOUS
  <2>2. h.size * SizeOf(h.type) = k * OtherSize
    BY <1>4, <2>1
  <2> DEFINE w == k * OtherSize
  <2>3. w \in Nat /\ w <= n
    BY <1>6
  <2> HIDE DEF w, n
  <2>4. w < Modulus
    BY <1>2, <1>5, <2>3
  <2> QED BY <2>1, <2>2, <2>3, <2>4 DEF w
<1>8. h \in BufferType /\ (h.data = Null => h.size = 0) /\ h # Null
  <2> HIDE DEF n
  <2>1. k \in 0..(Modulus - 1) /\ (p = Null => k = 0)
    BY <1>2, <1>5, <1>6
  <2>2. h \in BufferType
    BY <1>3, <2>1 DEF BufferType, Types, Allocators
  <2>3. Null \notin BufferType
    BY BufferAssumption DEF BufferType
  <2> QED BY <2>1, <2>2, <2>3
<1> HIDE DEF h
<1>9. /\ buffer'[b] = h /\ \A c \in Buffers \ {b} : buffer'[c] = buffer[c]
      /\ buffer' \in [Buffers -> BufferType \cup {Null}]
  BY <1>0, <1>1, <1>8 DEF Shapes
<1>10. /\ Held(source) \subseteq Addrs
       /\ \A q \in Addrs : buffer[source].data = q <=> q \in Held(source)
  BY <1>0, <1>1, HeldType DEF Holds
<1>11. Shapes'
  BY <1>0, <1>1, <1>8, <1>9, <1>10 DEF Shapes, Alive
\* What the source and the new buffer have is shared now, and still there.
<1>12. p # Null /\ (buffer[source].alloc = "large" \/ p \notin stale) =>
         /\ p \in DOMAIN memory.blocks /\ memory.blocks[p].bytes \in Nat
         /\ n <= memory.blocks[p].bytes
  <2>1. \A q \in DOMAIN memory.blocks : memory.blocks[q].bytes \in Nat
    BY DEF BufferInv, TypeOK
  <2> QED BY <1>0, <1>1, <1>4, <2>1, ElementsInBlock
<1>13. p # Null => p \in shared'
  BY <1>1, <1>3, <1>10
<1>14. BlocksFollow'
  <2> SUFFICES ASSUME NEW c \in Buffers, buffer'[c] # Null, buffer'[c].data # Null
               PROVE  LET l == buffer'[c]
                      IN  /\ l.size * SizeOf(l.type) < Modulus
                          /\ l.alloc = "large" \/ l.data \notin shared' =>
                               /\ l.data \in DOMAIN memory'.blocks
                               /\ memory'.blocks[l.data] = BlockFor(l)
                               /\ l.alloc = "large" => RoundUp(l.size * SizeOf(l.type)) # 0
    BY <1>1, PageSizeKept DEF BlocksFollow, Alive
  <2>1. CASE c = b
    BY <1>7, <1>9, <1>13, <2>1
  <2>2. CASE c # b
    <3>1. Alive(c) /\ buffer'[c] = buffer[c]
      BY <1>9, <2>2 DEF Alive
    <3> QED BY <1>0, <1>1, <3>1 DEF Holding, BlocksFollow
  <2> QED BY <2>1, <2>2
<1>15. SharedInside'
  <2> SUFFICES ASSUME NEW c \in Buffers, buffer'[c] # Null,
                      buffer'[c].data \in shared' \ stale
               PROVE  /\ buffer'[c].data \in DOMAIN memory.blocks
                      /\ buffer'[c].size * SizeOf(buffer'[c].type)
                           <= memory.blocks[buffer'[c].data].bytes
    BY <1>1 DEF SharedInside, Alive
  <2>0. buffer'[c].data # Null
    BY <1>2, <1>11 DEF Shapes
  <2>1. CASE c = b
    <3> DEFINE w == h.size * SizeOf(h.type)
    <3>1. p \in DOMAIN memory.blocks /\ memory.blocks[p].bytes \in Nat
          /\ n <= memory.blocks[p].bytes
      BY <1>7, <1>9, <1>12, <2>0, <2>1
    <3>2. w \in Nat /\ w <= n
      BY <1>7
    <3> HIDE DEF w, n, p
    <3>3. w <= memory.blocks[p].bytes
      BY <1>5, <3>1, <3>2
    <3> QED BY <1>7, <1>9, <2>1, <3>1, <3>3 DEF w
  <2>2. CASE c # b
    <3>1. /\ Alive(c) /\ buffer'[c] = buffer[c]
          /\ buffer[c].data # Null /\ buffer[c].data \notin stale
      BY <1>9, <2>0, <2>2 DEF Alive
    <3> QED BY <1>0, <3>1, ElementsInBlock
  <2> QED BY <2>1, <2>2
<1>16. HeldOnce'
  <2> SUFFICES ASSUME NEW q \in Addrs, q \notin shared', NEW c \in Buffers, NEW d \in Buffers,
                      buffer'[c] # Null, buffer'[c].data = q,
                      buffer'[d] # Null, buffer'[d].data = q
               PROVE  c = d
    BY DEF HeldOnce, Holds, Alive
  <2>1. c # b /\ d # b
    BY <1>2, <1>7, <1>9, <1>13
  <2>2. Holds(c, q) /\ Holds(d, q) /\ q \notin shared
    BY <1>1, <1>9, <2>1 DEF Holds, Alive
  <2> QED BY <1>0, <2>2 DEF Holding, HeldOnce
<1>17. LargeOnce'
  <2>1. buffer'[b].alloc # "large"
    BY <1>7, <1>9
  <2> QED BY <1>0, <1>9, <2>1 DEF Holding, LargeOnce, Alive
<1>18. NoOtherLeak' /\ misfreed' \subseteq shared'
  BY <1>0, <1>1, <1>9 DEF Holding, NoOtherLeak, Holds, Alive
<1>19. Holding'
  BY <1>14, <1>15, <1>16, <1>17, <1>18 DEF Holding
<1> QED BY <1>0, <1>1, <1>11, <1>19, InvNext
\* Nothing has been allocated yet.
LEMMA InitInv == Init => BufferInv
<1> SUFFICES ASSUME Init PROVE BufferInv
  OBVIOUS
<1>1. Shapes
  BY DEF Init, Shapes, Alive
<1>2. DOMAIN memory.blocks = {} /\ memory.pool = IF page_size = 0 THEN 0 ELSE PoolPages
  BY DEF Init
<1>3. MemoryKept(memory)
  <2>1. PagesHeld(memory) = {}
    BY <1>2 DEF PagesHeld, LargeBlocks
  <2>2. IsFiniteSet({}) /\ Cardinality({}) = 0 /\ PoolPages \in Nat
    BY FS_EmptySet, BufferAssumption
  <2> QED BY <1>2, <2>1, <2>2 DEF MemoryKept
<1>4. Holding
  <2>1. \A b \in Buffers : ~Alive(b)
    BY DEF Init, Alive
  <2> QED BY <1>2, <2>1 DEF Init, Holding, BlocksFollow, SharedInside, HeldOnce,
                            LargeOnce, NoOtherLeak, Holds
<1> QED BY <1>1, <1>3, <1>4, InvParts

\* Every call keeps the invariant.
LEMMA NextInv == BufferInv /\ [Next]_vars => BufferInv'
<1> SUFFICES ASSUME BufferInv, [Next]_vars PROVE BufferInv'
  OBVIOUS
<1>0. Shapes /\ MemoryKept(memory) /\ Holding
  BY InvParts
<1>1. CASE UNCHANGED vars
  <2>1. Shapes'
    BY <1>0, <1>1 DEF vars, Shapes, Alive
  <2>2. Holding'
    BY <1>0, <1>1, PageSizeKept
       DEF vars, Alive, Holding, BlocksFollow, SharedInside, HeldOnce, LargeOnce,
           NoOtherLeak, Holds
  <2> QED BY <1>0, <1>1, <2>1, <2>2, InvNext DEF vars
<1>2. ASSUME misfreed = {}, NEW b \in Buffers,
             \/ Construct(b) \/ ConstructEmpty(b) \/ Realloc(b) \/ Free(b) \/ Misfree(b)
             \/ AssignNull(b) \/ Destroy(b)
             \/ \E source \in Buffers :
                  MoveConstruct(b, source) \/ MoveAssign(b, source) \/ View(b, source)
      PROVE  BufferInv'
  <2>1. AssignNull(b) => UNCHANGED page_size
    BY DEF AssignNull, Drop
  <2> QED BY <1>2, <2>1, ConstructStep, ConstructEmptyStep, ReallocStep, FreeStep,
             MisfreeStep, AssignNullStep, DestroyStep, ViewStep, MoveConstructStep,
             MoveAssignStep
<1> QED BY <1>1, <1>2 DEF Next

-----------------------------------------------------------------------------
(* The results.                                                            *)

\* The invariant of buffer and its allocators, for all sequences of calls.
THEOREM Invariance == Spec => []BufferInv
  BY InitInv, NextInv, PTL DEF Spec

\* TypeOK: no counter of the allocators leaves its range, and a buffer
\* without data has no elements.
THEOREM TypeCorrect == Spec => []TypeOK
<1>1. BufferInv => TypeOK
  BY DEF BufferInv
<1> QED BY <1>1, Invariance, PTL

\* OwnedOnce: without a conversion no block is held twice, after its release
\* or by an allocator that is not its own, and only at an address that a
\* conversion shared can a release be undefined.
THEOREM HeldByOne == Spec => []OwnedOnce
<1>1. ASSUME BufferInv PROVE OwnedOnce
  <2>1. Shapes /\ Holding
    BY <1>1, InvParts
  <2> QED BY <2>1, OwnBlock DEF Holding, OwnedOnce
<1> QED BY <1>1, Invariance, PTL

\* ElementsFit: no product, rounding or conversion of a size makes a block
\* that is too small for the elements of its buffer, or of one converted from
\* it.
THEOREM InsideBlocks == Spec => []ElementsFit
<1>1. ASSUME BufferInv PROVE ElementsFit
  <2>1. Shapes /\ Holding
    BY <1>1, InvParts
  <2> QED BY <2>1, ElementsInBlock DEF ElementsFit
<1> QED BY <1>1, Invariance, PTL

\* PagesConserved: the length munmap gets is the one mmap got.
THEOREM PagesReturned == Spec => []PagesConserved
<1>1. BufferInv => PagesConserved
  BY DEF BufferInv, MemoryKept, PagesConserved
<1> QED BY <1>1, Invariance, PTL

\* NoOtherLeak: a block that no buffer holds was dropped by an assignment or
\* a destructor, or lost when a constructor of its elements threw.
THEOREM OnlyDroppedLeak == Spec => []NoOtherLeak
<1>1. BufferInv => NoOtherLeak
  BY DEF BufferInv
<1> QED BY <1>1, Invariance, PTL
=============================================================================
