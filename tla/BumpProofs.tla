------------------------------ MODULE BumpProofs ------------------------------
(***************************************************************************)
(* unsafe_bump_allocator, for every address space, heap and sequence of    *)
(* requests: the objects have their types, the heap has one owner, and     *)
(* while what was asked for fits the blocks are aligned, inside and apart. *)
(*                                                                         *)
(* The step that matters is Allocate.  align_up computes in the address    *)
(* space, so its sum may wrap; the lemmas show that it does not where the  *)
(* rounded sum is below the top, because the top is itself a multiple of   *)
(* the alignment.  The next free address is then what reach, which counts  *)
(* without wrapping, says it is (CursorInv).                               *)
(***************************************************************************)
EXTENDS Bump, TLAPS

\* Euclidean division, as the provers know it.
LEMMA ModFacts ==
  ASSUME NEW n \in Nat, NEW a \in Nat \ {0}
  PROVE  n % a \in Nat /\ n % a < a /\ n % a <= n /\ n \div a \in Nat /\ n = a * (n \div a) + (n % a)
BY SMT

\* A multiple of a leaves no remainder.
LEMMA MultipleMod ==
  ASSUME NEW q \in Nat, NEW a \in Nat \ {0}
  PROVE  (a * q) % a = 0
BY SMT

\* Between a multiple of a and a larger one there is a whole a.
LEMMA Smaller ==
  ASSUME NEW a \in Nat \ {0}, NEW q \in Nat, NEW k \in Nat, a * q < a * k
  PROVE  q + 1 <= k /\ a * (q + 1) <= a * k
BY SMT

\* e rounded down to a multiple of a is the last one not above e.
LEMMA Rounded ==
  ASSUME NEW e \in Nat, NEW a \in Nat \ {0}
  PROVE  /\ e - (e % a) \in Nat
         /\ e - (e % a) <= e
         /\ e < e - (e % a) + a
         /\ (e - (e % a)) % a = 0
<1> DEFINE q == e \div a
<1>1. q \in Nat /\ e = a * q + (e % a) /\ e % a \in Nat /\ e % a < a
  BY ModFacts
<1>2. a * q \in Nat
  BY <1>1, SMT
<1>3. e - (e % a) = a * q
  <2> HIDE DEF q
  <2> QED BY <1>1, <1>2, SMT
<1>4. (a * q) % a = 0
  BY <1>1, MultipleMod
<1> HIDE DEF q
<1> QED BY <1>1, <1>2, <1>3, <1>4

\* A multiple m of a above e rounded down is above e itself.
LEMMA RoundedBelow ==
  ASSUME NEW e \in Nat, NEW a \in Nat \ {0}, NEW m \in Nat,
         m % a = 0, e - (e % a) < m
  PROVE  e < m
<1> DEFINE q == e \div a
           k == m \div a
<1>1. q \in Nat /\ e = a * q + (e % a) /\ e % a \in Nat /\ e % a < a
  BY ModFacts
<1>2. k \in Nat /\ m = a * k + (m % a)
  BY ModFacts
<1> HIDE DEF q, k
<1>3. a * q \in Nat /\ a * k \in Nat
  BY <1>1, <1>2, SMT
<1>4. e - (e % a) = a * q /\ m = a * k
  BY <1>1, <1>2, <1>3, SMT
<1>5. a * (q + 1) <= a * k
  BY <1>1, <1>2, <1>4, Smaller
<1>6. a * (q + 1) = a * q + a
  BY <1>1, SMT
<1> QED BY <1>1, <1>3, <1>4, <1>5, <1>6, SMT

\* align_up, where its result stays below the top of the address space: a
\* multiple of the alignment, not below where it started.
LEMMA AlignFits ==
  ASSUME NEW c \in Nat, NEW a \in Nat \ {0}, Modulus \in Nat, Modulus % a = 0,
         (c + a - 1) - ((c + a - 1) % a) < Modulus
  PROVE  /\ AlignUp(c, a) = (c + a - 1) - ((c + a - 1) % a)
         /\ c <= AlignUp(c, a)
         /\ AlignUp(c, a) % a = 0
<1> DEFINE e == c + a - 1
<1>1. e \in Nat
  BY SMT
<1>2. e < Modulus
  BY <1>1, RoundedBelow
<1>3. e % Modulus = e
  BY <1>1, <1>2, SMT
<1>4. AlignUp(c, a) = e - (e % a)
  BY <1>3 DEF AlignUp
<1>5. e < e - (e % a) + a /\ e - (e % a) \in Nat /\ (e - (e % a)) % a = 0
  BY <1>1, Rounded
<1>6. c <= e - (e % a)
  <2>1. e = c + a - 1
    OBVIOUS
  <2> DEFINE f == e - (e % a)
  <2>2. e < f + a /\ f \in Nat
    BY <1>5
  <2> HIDE DEF e, f
  <2>3. c <= f
    BY <2>1, <2>2, SMT
  <2> QED BY <2>3 DEF f
<1> QED BY <1>4, <1>5, <1>6

\* align_up and the next free address always give addresses.
LEMMA AlignIsAddress ==
  ASSUME NEW c \in Nat, NEW a \in Nat \ {0}, Modulus \in Nat \ {0}
  PROVE  AlignUp(c, a) \in 0..(Modulus - 1)
<1> DEFINE s == (c + a - 1) % Modulus
<1>1. c + a - 1 \in Nat
  BY SMT
<1>2. s \in Nat /\ s < Modulus
  BY <1>1, ModFacts
<1>3. AlignUp(c, a) = s - (s % a)
  BY DEF AlignUp
<1> HIDE DEF s
<1>4. s - (s % a) \in Nat /\ s - (s % a) <= s
  BY <1>2, Rounded
<1> QED BY <1>2, <1>3, <1>4, SMT

\* Nor is the next free address outside the address space.
LEMMA NextIsAddress ==
  ASSUME NEW o, NEW c \in Nat, NEW a \in Nat \ {0}, NEW bytes \in Nat,
         Modulus \in Nat \ {0}
  PROVE  NextFree(o, AlignUp(c, a), bytes) \in 0..(Modulus - 1)
<1>0. 0..(Modulus - 1) \subseteq Nat
  BY SMT
<1>1. AlignUp(c, a) \in Nat
  BY <1>0, AlignIsAddress
<1> DEFINE n == AlignUp(c, a) + bytes
<1>2. n \in Nat
  BY <1>1
<1>3. NextFree(o, AlignUp(c, a), bytes) = n % Modulus
  BY DEF NextFree
<1> HIDE DEF n
<1>4. n % Modulus \in Nat /\ n % Modulus < Modulus
  BY <1>2, ModFacts
<1> QED BY <1>3, <1>4, SMT

\* Counted without wrapping, rounding up never goes back.
LEMMA UpAbove ==
  ASSUME NEW c \in Nat, NEW a \in Nat \ {0}
  PROVE  /\ (c + a - 1) - ((c + a - 1) % a) \in Nat
         /\ c <= (c + a - 1) - ((c + a - 1) % a)
<1> DEFINE e == c + a - 1
           f == e - (e % a)
<1>1. e \in Nat /\ e = c + a - 1
  BY SMT
<1>2. f \in Nat /\ e < f + a
  BY <1>1, Rounded
<1>3. c <= f
  <2> HIDE DEF e, f
  <2> QED BY <1>1, <1>2, SMT
<1> QED BY <1>2, <1>3

-----------------------------------------------------------------------------
Obj == [heap : Nat, current : 0..(Modulus - 1), heap_size : Nat]
Block == [addr : 0..(Modulus - 1), bytes : Nat, align : Nat \ {0}]

\* What the assumptions say of the heap and a request, at any time.
LEMMA Constants ==
  ASSUME place \in Heaps
  PROVE  /\ Modulus \in Nat \ {0} /\ place.base \in Nat \ {0} /\ place.size \in Nat
         /\ place.base + place.size < Modulus
         /\ \A r \in Requests : r.align \in Nat \ {0} /\ Modulus % r.align = 0
         /\ Null \notin Obj
<1>1. place \in [base : Nat \ {0}, size : Nat] /\ place.base + place.size < Modulus
  BY BumpAssumption
<1>2. Modulus \in Nat
  BY BumpAssumption
<1>3. \A r \in Requests : r \in [count : Nat, size : Nat, align : Nat \ {0}]
                          /\ Modulus % r.align = 0
  BY BumpAssumption
<1>4. Null \notin Obj
  BY BumpAssumption, <1>2 DEF Obj
<1> QED BY <1>1, <1>2, <1>3, <1>4

\* The bytes asked for are a size, and those of the elements when these are
\* fewer than there are addresses.
LEMMA RequestSize ==
  ASSUME NEW r \in Requests, Modulus \in Nat \ {0}
  PROVE  /\ Extent(r) \in Nat /\ Bytes(r) \in Nat
         /\ Extent(r) < Modulus => Bytes(r) = Extent(r)
<1>1. r.count \in Nat /\ r.size \in Nat
  BY BumpAssumption
<1> DEFINE e == Extent(r)
<1>2. e \in Nat
  BY <1>1, SMT DEF Extent
<1>3. Bytes(r) = e % Modulus
  BY DEF Bytes
<1> HIDE DEF e
<1>4. e % Modulus \in Nat
  BY <1>2, ModFacts
<1>5. e < Modulus => e % Modulus = e
  BY <1>2, SMT
<1> QED BY <1>2, <1>3, <1>4, <1>5 DEF e

\* A live object is a record of its type, and the heap has its base.
LEMMA AliveObject ==
  ASSUME TypeOK, NEW o \in Objects, Alive(o)
  PROVE  object[o] \in Obj
BY DEF TypeOK, Alive, Obj

\* Before any object is made there is no heap and no block.
LEMMA InitInv == Init => BumpInv
<1> SUFFICES ASSUME Init PROVE BumpInv
  OBVIOUS
<1>1. Modulus \in Nat \ {0}
  BY Constants DEF Init
<1>2. \A o \in Objects : ~Alive(o)
  BY DEF Init, Alive
<1>3. TypeOK
  BY DEF Init, TypeOK
<1>4. OneOwner
  BY <1>2 DEF OneOwner, Init
<1>5. CursorInv /\ BlocksApart
  BY DEF CursorInv, BlocksApart, Init
<1> QED BY <1>3, <1>4, <1>5 DEF BumpInv

\* The constructor: the object is the owner, and nothing is cut yet.
LEMMA CreateStep ==
  ASSUME BumpInv, NEW o \in Objects, Create(o)
  PROVE  BumpInv'
<1> USE DEF BumpInv
<1>1. /\ Modulus \in Nat \ {0} /\ place.base \in Nat \ {0} /\ place.size \in Nat
      /\ place.base < Modulus
  BY Constants DEF TypeOK
<1>2. blocks = <<>> /\ blocks' = <<>> /\ place' = place /\ place \in Heaps
  BY DEF Create, TypeOK
<1>3. \A p \in Objects : Alive(p) => object[p].heap = 0
  BY DEF Create, OneOwner
<1>4. Null \notin Obj
  BY Constants DEF TypeOK
<1>5. object' = [object EXCEPT ![o] = object'[o]] /\ object'[o] \in Obj
  BY <1>1 DEF Create, TypeOK, Obj
<1>6. \A p \in Objects \ {o} : object'[p] = object[p]
  BY <1>5 DEF TypeOK
<1>7. reach' = place.base
  BY DEF Create
<1>8. TypeOK'
  BY <1>1, <1>2, <1>5, <1>7 DEF TypeOK, Create, Obj
<1>9. BlocksApart' /\ DOMAIN blocks' = {}
  BY <1>2 DEF BlocksApart
<1>10. CASE heap' = "taken"
  <2>1. object'[o].heap = place.base /\ object'[o].current = place.base
    BY <1>10 DEF Create, TypeOK
  <2>2. OneOwner'
    BY <1>1, <1>2, <1>3, <1>4, <1>5, <1>6, <1>10, <2>1 DEF OneOwner, Alive
  <2>3. \A p \in Objects : Alive(p)' /\ object'[p].heap # 0 => p = o
    BY <1>3, <1>6 DEF Alive
  <2>4. CursorInv'
    BY <1>1, <1>2, <1>7, <1>9, <2>1, <2>3 DEF CursorInv
  <2> QED BY <1>8, <1>9, <2>2, <2>4
<1>11. CASE heap' = "refused"
  <2>1. object'[o].heap = 0
    BY <1>11 DEF Create, TypeOK
  <2>2. OneOwner'
    BY <1>3, <1>6, <1>11, <2>1 DEF OneOwner, Alive
  <2>3. CursorInv'
    BY <1>11 DEF CursorInv
  <2> QED BY <1>8, <1>9, <2>2, <2>3
<1> QED BY <1>10, <1>11 DEF Create

\* A move: the heap changes hands, and only the owner is known by it.
LEMMA MoveStep ==
  ASSUME BumpInv, NEW o \in Objects, NEW source \in Objects,
         MoveConstruct(o, source)
  PROVE  BumpInv'
<1> USE DEF BumpInv
<1>1. Modulus \in Nat \ {0} /\ Null \notin Obj
  BY Constants DEF TypeOK
<1>2. o # source /\ object[source] \in Obj /\ object[o] = Null
  BY AliveObject DEF MoveConstruct, Alive
<1> DEFINE rest == MovedFrom(source)
<1>c. rest \in Obj /\ rest.heap = 0
  BY <1>1, <1>2 DEF MovedFrom, Obj
<1>d. object' = [object EXCEPT ![o] = object[source], ![source] = rest]
  BY DEF MoveConstruct
<1>e. object \in [Objects -> Obj \cup {Null}]
  BY DEF TypeOK, Obj
<1> HIDE DEF rest
<1>3. /\ object'[o] = object[source]
      /\ object'[source] = rest
      /\ \A p \in Objects \ {o, source} : object'[p] = object[p]
      /\ object' \in [Objects -> Obj \cup {Null}]
  BY <1>2, <1>c, <1>d, <1>e
<1>4. object'[source] \in Obj /\ object'[source].heap = 0
  BY <1>3, <1>c
<1>5. UNCHANGED <<heap, place, blocks, reach>>
  BY DEF MoveConstruct
<1>6. TypeOK'
  BY <1>3, <1>5 DEF TypeOK, Obj
<1>7. \A p \in Objects : Alive(p)' /\ object'[p].heap # 0 =>
        \/ p = o /\ object'[p] = object[source] /\ Alive(source)
        \/ p \notin {o, source} /\ object'[p] = object[p] /\ Alive(p)
  BY <1>2, <1>3, <1>4 DEF Alive, MoveConstruct
<1>8. OneOwner'
  <2>1. \A p \in Objects : Alive(p)' /\ object'[p].heap # 0 =>
          heap' = "taken" /\ object'[p].heap = place'.base
    BY <1>5, <1>7 DEF OneOwner
  <2>2. \A p, q \in Objects :
          Alive(p)' /\ Alive(q)' /\ object'[p].heap # 0 /\ object'[q].heap # 0 => p = q
    BY <1>7 DEF OneOwner
  <2>3. heap' = "taken" => \E p \in Objects : Alive(p)' /\ object'[p].heap # 0
    <3> SUFFICES ASSUME heap' = "taken"
                 PROVE  \E p \in Objects : Alive(p)' /\ object'[p].heap # 0
      OBVIOUS
    <3>1. PICK p \in Objects : Alive(p) /\ object[p].heap # 0
      BY <1>5 DEF OneOwner
    <3>2. CASE p = source
      BY <1>1, <1>2, <1>3, <3>1, <3>2 DEF Alive
    <3>3. CASE p # source
      BY <1>2, <1>3, <3>1, <3>3 DEF Alive
    <3> QED BY <3>2, <3>3
  <2> QED BY <2>1, <2>2, <2>3 DEF OneOwner
<1>9. CursorInv' /\ BlocksApart'
  BY <1>5, <1>7 DEF CursorInv, BlocksApart, Fits
<1> QED BY <1>6, <1>8, <1>9

\* The destructor: with the owner goes the heap, and with it the blocks.
LEMMA DestroyStep ==
  ASSUME BumpInv, NEW o \in Objects, Destroy(o)
  PROVE  BumpInv'
<1> USE DEF BumpInv
<1>1. object'[o] = Null /\ \A p \in Objects \ {o} : object'[p] = object[p]
  BY DEF Destroy, TypeOK
<1>2. object' \in [Objects -> Obj \cup {Null}]
  BY DEF Destroy, TypeOK, Obj
<1>3. \A p \in Objects : Alive(p)' => p # o /\ Alive(p) /\ object'[p] = object[p]
  BY <1>1 DEF Alive
<1>4. CASE object[o].heap # 0
  <2>1. heap' = "released" /\ blocks' = <<>>
    BY <1>4 DEF Destroy
  <2>2. TypeOK'
    BY <1>2, <2>1 DEF TypeOK, Destroy, Obj
  <2>3. \A p \in Objects : Alive(p)' => object'[p].heap = 0
    BY <1>3, <1>4 DEF OneOwner, Destroy
  <2>4. OneOwner'
    BY <2>1, <2>3 DEF OneOwner
  <2>5. CursorInv' /\ BlocksApart'
    BY <2>1 DEF CursorInv, BlocksApart
  <2> QED BY <2>2, <2>4, <2>5
<1>5. CASE object[o].heap = 0
  <2>1. UNCHANGED <<heap, place, blocks, reach>>
    BY <1>5 DEF Destroy
  <2>2. TypeOK'
    BY <1>2, <2>1 DEF TypeOK, Obj
  <2>3. OneOwner'
    <3>1. heap' = "taken" => \E p \in Objects : Alive(p)' /\ object'[p].heap # 0
      BY <1>1, <1>5, <2>1 DEF OneOwner, Alive
    <3>2. \A p \in Objects : Alive(p)' /\ object'[p].heap # 0 =>
            heap' = "taken" /\ object'[p].heap = place'.base
      BY <1>3, <2>1 DEF OneOwner
    <3>3. \A p, q \in Objects :
            Alive(p)' /\ Alive(q)' /\ object'[p].heap # 0 /\ object'[q].heap # 0 => p = q
      BY <1>3 DEF OneOwner
    <3> QED BY <3>1, <3>2, <3>3 DEF OneOwner
  <2>4. CursorInv' /\ BlocksApart'
    BY <1>3, <2>1 DEF CursorInv, BlocksApart, Fits
  <2> QED BY <2>2, <2>3, <2>4
<1> QED BY <1>4, <1>5

\* allocate by an object without a heap: only its own cursor moves.
LEMMA AllocateWithout ==
  ASSUME BumpInv, NEW o \in Objects, Allocate(o), object[o].heap = 0
  PROVE  BumpInv'
<1> USE DEF BumpInv
<1>1. Modulus \in Nat \ {0} /\ Null \notin Obj /\ object[o] \in Obj
  BY Constants, AliveObject DEF TypeOK, Allocate
<1>2. PICK r \in Requests :
        object' = [object EXCEPT ![o].current =
          NextFree(o, AlignUp(object[o].current, r.align), Bytes(r))]
  BY DEF Allocate
<1> DEFINE next == NextFree(o, AlignUp(object[o].current, r.align), Bytes(r))
<1>3. next \in 0..(Modulus - 1)
  <2>1. Bytes(r) \in Nat /\ r.align \in Nat \ {0}
    BY <1>1, Constants, RequestSize DEF TypeOK
  <2>2. object[o].current \in Nat
    BY <1>1 DEF Obj
  <2> QED BY <1>1, <2>1, <2>2, NextIsAddress
<1> HIDE DEF next
<1>4. UNCHANGED <<heap, place, blocks, reach>>
  BY DEF Allocate
<1>5. object' = [object EXCEPT ![o] = [object[o] EXCEPT !.current = next]]
  BY <1>2 DEF next
<1>6. /\ [object[o] EXCEPT !.current = next] \in Obj
      /\ [object[o] EXCEPT !.current = next].heap = 0
  BY <1>1, <1>3 DEF Obj
<1>7. /\ object' \in [Objects -> Obj \cup {Null}]
      /\ object'[o] # Null /\ object'[o].heap = 0
      /\ \A p \in Objects \ {o} : object'[p] = object[p]
  BY <1>1, <1>5, <1>6 DEF TypeOK, Obj
<1>8. \A p \in Objects : Alive(p)' /\ object'[p].heap # 0 =>
        p # o /\ object'[p] = object[p] /\ Alive(p)
  BY <1>7 DEF Alive
<1>9. TypeOK'
  BY <1>4, <1>7 DEF TypeOK, Obj
<1>10. OneOwner'
  <2>1. heap' = "taken" => \E p \in Objects : Alive(p)' /\ object'[p].heap # 0
    BY <1>4, <1>7 DEF OneOwner, Alive
  <2>2. \A p \in Objects : Alive(p)' /\ object'[p].heap # 0 =>
          heap' = "taken" /\ object'[p].heap = place'.base
    BY <1>4, <1>8 DEF OneOwner
  <2>3. \A p, q \in Objects :
          Alive(p)' /\ Alive(q)' /\ object'[p].heap # 0 /\ object'[q].heap # 0 => p = q
    BY <1>8 DEF OneOwner
  <2> QED BY <2>1, <2>2, <2>3 DEF OneOwner
<1>11. CursorInv' /\ BlocksApart'
  BY <1>4, <1>8 DEF CursorInv, BlocksApart, Fits
<1> QED BY <1>9, <1>10, <1>11

\* allocate by the owner: the block starts at the next multiple of the
\* alignment after all blocks before it, and ends where the next one may start.
LEMMA AllocateOwner ==
  ASSUME BumpInv, NEW o \in Objects, Allocate(o), object[o].heap # 0
  PROVE  BumpInv'
<1> USE DEF BumpInv
<1>1. /\ Modulus \in Nat \ {0} /\ Null \notin Obj /\ object[o] \in Obj
      /\ place.base \in Nat \ {0} /\ place.size \in Nat
      /\ place.base + place.size < Modulus
      /\ reach \in Nat /\ heap = "taken" /\ Alive(o)
  BY Constants, AliveObject DEF TypeOK, Allocate, OneOwner
<1> DEFINE cur == object[o].current
<1>a. cur \in Nat
  BY <1>1 DEF Obj
<1>2. PICK r \in Requests :
        /\ object' = [object EXCEPT ![o].current =
             NextFree(o, AlignUp(cur, r.align), Bytes(r))]
        /\ blocks' = Append(blocks, [addr |-> AlignUp(cur, r.align),
                                     bytes |-> Extent(r), align |-> r.align])
        /\ reach' = (reach + r.align - 1) - ((reach + r.align - 1) % r.align)
                      + Extent(r)
  BY DEF Allocate
<1>b. r.align \in Nat \ {0} /\ Modulus % r.align = 0
  BY Constants DEF TypeOK
<1> DEFINE extent == Extent(r)
           bytes == Bytes(r)
<1>3. /\ r.align \in Nat \ {0} /\ Modulus % r.align = 0
      /\ extent \in Nat /\ bytes \in Nat /\ (extent < Modulus => bytes = extent)
  BY <1>1, <1>b, RequestSize
<1> DEFINE next == NextFree(o, AlignUp(cur, r.align), bytes)
           aligned == AlignUp(cur, r.align)
           up == (reach + r.align - 1) - ((reach + r.align - 1) % r.align)
           block == [addr |-> aligned, bytes |-> extent, align |-> r.align]
<1>4. next \in 0..(Modulus - 1)
  BY <1>1, <1>3, <1>a, NextIsAddress
<1>5. aligned \in 0..(Modulus - 1)
  BY <1>1, <1>3, <1>a, AlignIsAddress
<1>6. up \in Nat /\ reach <= up
  BY <1>1, <1>3, UpAbove
<1>7. place' = place /\ heap' = heap
  BY DEF Allocate
<1>8. object' = [object EXCEPT ![o] = [object[o] EXCEPT !.current = next]]
  BY <1>2
<1>9. blocks' = Append(blocks, block) /\ reach' = up + extent
  BY <1>2
<1>n. next = (aligned + bytes) % Modulus
  BY DEF NextFree
<1>u. up < Modulus /\ cur = reach => aligned = up /\ aligned % r.align = 0
  <2> SUFFICES ASSUME up < Modulus, cur = reach
               PROVE  aligned = up /\ aligned % r.align = 0
    OBVIOUS
  <2>1. /\ AlignUp(reach, r.align) = up
        /\ AlignUp(reach, r.align) % r.align = 0
    BY <1>1, <1>3, AlignFits
  <2> QED BY <2>1
<1> HIDE DEF next, aligned, up, block, extent, bytes
<1>10. /\ [object[o] EXCEPT !.current = next] \in Obj
       /\ [object[o] EXCEPT !.current = next].heap = object[o].heap
       /\ [object[o] EXCEPT !.current = next].current = next
  BY <1>1, <1>4 DEF Obj
<1>11. /\ object' \in [Objects -> Obj \cup {Null}]
       /\ object'[o] # Null /\ object'[o].heap = object[o].heap
       /\ object'[o].current = next
       /\ \A p \in Objects \ {o} : object'[p] = object[p]
  BY <1>1, <1>8, <1>10 DEF TypeOK, Obj
<1>12. \A p \in Objects : /\ Alive(p)' <=> Alive(p)
                          /\ Alive(p) => object'[p].heap = object[p].heap
  BY <1>1, <1>11 DEF Alive
<1>13. \A p \in Objects : Alive(p) /\ object[p].heap # 0 => p = o
  BY <1>1 DEF OneOwner
<1>14. block \in Block /\ block.addr = aligned /\ block.bytes = extent
         /\ block.align = r.align
  BY <1>3, <1>5 DEF block, Block
<1>15. blocks \in Seq(Block)
  BY DEF TypeOK, Block
<1>16. /\ blocks' \in Seq(Block)
       /\ DOMAIN blocks' = DOMAIN blocks \cup {Len(blocks) + 1}
       /\ blocks'[Len(blocks) + 1] = block
       /\ \A x \in DOMAIN blocks : blocks'[x] = blocks[x]
       /\ \A x \in DOMAIN blocks : x \in Nat /\ x <= Len(blocks)
       /\ Len(blocks) \in Nat
  BY <1>9, <1>14, <1>15, SMT
<1>17. reach' \in Nat /\ reach <= reach'
  BY <1>1, <1>3, <1>6, <1>9, SMT
<1>18. TypeOK'
  BY <1>1, <1>7, <1>11, <1>16, <1>17 DEF TypeOK, Obj, Block
<1>19. OneOwner'
  BY <1>7, <1>12 DEF OneOwner
<1>20. ASSUME Fits'
       PROVE  /\ Fits /\ cur = reach /\ next = reach'
              /\ aligned = up /\ aligned % r.align = 0
  <2>1. reach' <= place.base + place.size
    BY <1>7, <1>20 DEF Fits
  <2>2. Fits
    BY <1>1, <1>17, <2>1, SMT DEF Fits
  <2>3. cur = reach
    BY <1>1, <2>2 DEF CursorInv
  <2>4. /\ up < Modulus /\ up + extent < Modulus /\ up + extent \in Nat
        /\ extent < Modulus
    BY <1>1, <1>3, <1>6, <1>9, <2>1, SMT
  <2>5. aligned = up /\ aligned % r.align = 0
    BY <1>u, <2>3, <2>4
  <2>6. next = up + extent
    BY <1>1, <1>3, <1>n, <2>4, <2>5, SMT
  <2> QED BY <1>9, <2>2, <2>3, <2>5, <2>6
<1>21. CursorInv'
  <2>1. place'.base <= reach'
    BY <1>1, <1>7, <1>17, SMT DEF CursorInv
  <2>2. ASSUME Fits'
        PROVE  \A p \in Objects : Alive(p)' /\ object'[p].heap # 0 =>
                 object'[p].current = reach'
    BY <1>11, <1>12, <1>13, <1>20, <2>2
  <2>3. ASSUME Fits', NEW x \in DOMAIN blocks'
        PROVE  blocks'[x].addr + blocks'[x].bytes <= reach'
    <3>1. CASE x = Len(blocks) + 1
      BY <1>6, <1>3, <1>9, <1>14, <1>16, <1>20, <2>3, <3>1, SMT
    <3>2. CASE x \in DOMAIN blocks
      <4>1. blocks[x].addr + blocks[x].bytes <= reach
        BY <1>1, <1>20, <2>3, <3>2 DEF CursorInv
      <4>2. blocks[x] \in Block
        BY <1>15, <3>2
      <4>3. blocks[x].addr + blocks[x].bytes \in Nat
        BY <1>1, <4>2, SMT DEF Block
      <4> QED BY <1>1, <1>16, <1>17, <3>2, <4>1, <4>3, SMT
    <3> QED BY <1>16, <3>1, <3>2
  <2> QED BY <2>1, <2>2, <2>3 DEF CursorInv
<1>22. BlocksApart'
  <2> SUFFICES ASSUME Fits'
               PROVE  /\ \A x \in DOMAIN blocks' :
                           /\ blocks'[x].addr % blocks'[x].align = 0
                           /\ place'.base <= blocks'[x].addr
                           /\ blocks'[x].addr + blocks'[x].bytes <= place'.base + place'.size
                      /\ \A x, y \in DOMAIN blocks' : x < y =>
                           blocks'[x].addr + blocks'[x].bytes <= blocks'[y].addr
    BY DEF BlocksApart
  <2>1. Fits /\ reach' <= place.base + place.size
    BY <1>7, <1>20 DEF Fits
  <2>2. /\ block.addr % block.align = 0 /\ place.base <= block.addr
        /\ block.addr + block.bytes <= place.base + place.size
    <3>1. place.base <= reach
      BY <1>1 DEF CursorInv
    <3>2. place.base <= up
      BY <1>1, <1>6, <3>1, SMT
    <3> QED BY <1>9, <1>14, <1>20, <2>1, <3>2
  <2>3. \A x \in DOMAIN blocks :
          /\ blocks[x].addr % blocks[x].align = 0
          /\ place.base <= blocks[x].addr
          /\ blocks[x].addr + blocks[x].bytes <= place.base + place.size
    BY <2>1 DEF BlocksApart
  <2>4. \A x \in DOMAIN blocks' :
          /\ blocks'[x].addr % blocks'[x].align = 0
          /\ place'.base <= blocks'[x].addr
          /\ blocks'[x].addr + blocks'[x].bytes <= place'.base + place'.size
    BY <1>7, <1>16, <2>2, <2>3
  <2>5. ASSUME NEW x \in DOMAIN blocks', NEW y \in DOMAIN blocks', x < y
        PROVE  blocks'[x].addr + blocks'[x].bytes <= blocks'[y].addr
    <3>1. x \in DOMAIN blocks
      BY <1>16, <2>5, SMT
    <3>2. CASE y \in DOMAIN blocks
      BY <1>16, <2>1, <2>5, <3>1, <3>2 DEF BlocksApart
    <3>3. CASE y = Len(blocks) + 1
      <4>1. blocks[x].addr + blocks[x].bytes <= reach
        BY <1>1, <2>1, <3>1 DEF CursorInv
      <4>2. blocks[x] \in Block
        BY <1>15, <3>1
      <4>3. blocks[x].addr + blocks[x].bytes \in Nat
        BY <1>1, <4>2, SMT DEF Block
      <4>4. block.addr = up
        BY <1>14, <1>20
      <4> QED BY <1>1, <1>6, <1>16, <3>1, <3>3, <4>1, <4>3, <4>4, SMT
    <3> QED BY <1>16, <3>2, <3>3
  <2> QED BY <2>4, <2>5
<1> QED BY <1>18, <1>19, <1>21, <1>22

\* Every step keeps the invariant.
LEMMA NextInv == BumpInv /\ [Next]_vars => BumpInv'
<1> SUFFICES ASSUME BumpInv, [Next]_vars PROVE BumpInv'
  OBVIOUS
<1>1. ASSUME NEW o \in Objects, Create(o) PROVE BumpInv'
  BY <1>1, CreateStep
<1>2. ASSUME NEW o \in Objects, Allocate(o) PROVE BumpInv'
  BY <1>2, AllocateWithout, AllocateOwner
<1>3. ASSUME NEW o \in Objects, Destroy(o) PROVE BumpInv'
  BY <1>3, DestroyStep
<1>4. ASSUME NEW o \in Objects, NEW source \in Objects, MoveConstruct(o, source)
      PROVE  BumpInv'
  BY <1>4, MoveStep
<1>5. CASE UNCHANGED vars
  BY <1>5 DEF vars, BumpInv, TypeOK, OneOwner, CursorInv, BlocksApart, Fits, Alive
<1> QED BY <1>1, <1>2, <1>3, <1>4, <1>5 DEF Next

\* The invariant holds of every reachable state.
LEMMA Always == Spec => []BumpInv
BY InitInv, NextInv, PTL DEF Spec

\* Whatever the heap, the requests and the objects, each variable has its
\* type, and there are blocks only while there is memory.
THEOREM TypeCorrect == Spec => []TypeOK
<1>1. BumpInv => TypeOK
  BY DEF BumpInv
<1> QED BY <1>1, Always, PTL

\* Moves and destructors in any order leave the heap with exactly one owner
\* while it is there: it is released once and never used afterwards.
THEOREM OwnedOnce == Spec => []OneOwner
<1>1. BumpInv => OneOwner
  BY DEF BumpInv
<1> QED BY <1>1, Always, PTL

\* For any heap in any address space and any sequence of requests that fits
\* in it, the blocks are aligned, inside the heap, and never overlap.
THEOREM BlocksStayApart == Spec => []BlocksApart
<1>1. BumpInv => BlocksApart
  BY DEF BumpInv
<1> QED BY <1>1, Always, PTL

=============================================================================
