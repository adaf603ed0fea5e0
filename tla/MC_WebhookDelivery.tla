-------------------------- MODULE MC_WebhookDelivery --------------------------
(* Instances of WebhookDelivery for TLC.                                     *)
EXTENDS WebhookDelivery, TLC

Symmetric == Permutations(Workers) \cup Permutations(Events)
=============================================================================
