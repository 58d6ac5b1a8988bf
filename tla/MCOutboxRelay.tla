---------------------------- MODULE MCOutboxRelay ----------------------------
(* OutboxRelay for TLC, with the symmetry of the tasks of each kind for    *)
(* the runs that check no liveness.                                        *)
EXTENDS OutboxRelay, TLC

Symmetry == Permutations(Publishers) \cup Permutations(Consumers) \cup Permutations(Recoverers)
=============================================================================
