------------------------------- MODULE MCBuffer -------------------------------
(* Buffer with 4-bit sizes: pages of 4 bytes, elements of 2, conversions   *)
(* to elements of 4.  Of the counts, 6 needs three of the four large       *)
(* pages, so that two do not fit, the bytes of 7 wrap when they are        *)
(* rounded up and those of 8 when they are computed.                       *)
EXTENDS Buffer

CONSTANTS a1, a2, a3, b1, b2

MCPageSizes == {0, 4}
MCCounts    == {0, 3, 6, 7, 8}
MCAddrs     == {a1, a2, a3}
MCBuffers   == {b1, b2}
Symmetry    == Permutations(MCAddrs) \cup Permutations(MCBuffers)
=============================================================================
