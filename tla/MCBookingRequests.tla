-------------------------- MODULE MCBookingRequests --------------------------
(* BookingRequests for TLC: clients are alike, and so are bearers.         *)
EXTENDS BookingRequests, TLC

Symmetry == Permutations(Clients) \cup Permutations(Tokens)
=============================================================================
