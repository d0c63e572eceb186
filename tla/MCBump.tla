-------------------------------- MODULE MCBump --------------------------------
(* Bump in an address space of 32 bytes, with a heap in the middle and one *)
(* that ends just below the top.                                           *)
EXTENDS Bump

MCHeaps    == {[base |-> 6, size |-> 12], [base |-> 20, size |-> 11]}
\* Bytes, elements, and more elements than the address space has bytes: the
\* product of the last is 2.
MCRequests == [count : {0, 3}, size : {1}, align : {1, 4}]
              \cup [count : {1, 2}, size : {4}, align : {4}]
              \cup {[count |-> 17, size |-> 2, align |-> 2]}
=============================================================================
