--------------------------- MODULE MCSeatInventory ---------------------------
(* SeatInventory for TLC: model values and the symmetry of user and event  *)
(* ids, which no definition tells apart.                                   *)
EXTENDS SeatInventory, TLC

Symmetry == Permutations(Users) \cup Permutations(Events)
=============================================================================
