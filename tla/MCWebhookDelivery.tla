-------------------------- MODULE MCWebhookDelivery --------------------------
(* WebhookDelivery for TLC, with the symmetry of users, events and handler *)
(* slots for the runs that check no liveness.                              *)
EXTENDS WebhookDelivery, TLC

Symmetry == Permutations(Users) \cup Permutations(Events) \cup Permutations(Handlers)
=============================================================================
