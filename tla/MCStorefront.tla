----------------------------- MODULE MCStorefront -----------------------------
(* Storefront for TLC: two events on two pages, each with one seat.        *)
EXTENDS Storefront
CONSTANTS s1, s2
MCEventOf == [s \in Seats |-> IF s = s1 THEN 1 ELSE 2]
=============================================================================
