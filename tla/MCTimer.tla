------------------------------- MODULE MCTimer -------------------------------
(* Timer with a 5-bit counter: no frequency (an empty timer), one tick a   *)
(* second, frequencies that divide the range and that do not, ticks longer *)
(* and shorter than the unit.                                              *)
EXTENDS Timer

MCTop         == 15
MCFrequencies == {0, 1, 3, 4}
MCUnits       == {1, 3, 5}
MCWindows     == {0, 1, 3}
=============================================================================
