--------------------------- MODULE MCVelocityWindow ---------------------------
(* VelocityWindow for TLC: addresses are alike, and so are users.          *)
EXTENDS VelocityWindow, TLC

Symmetry == Permutations(Ips) \cup Permutations(Users)
=============================================================================
