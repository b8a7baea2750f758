------------------------------ MODULE MCWebhook ------------------------------
(* Small instances of WebhookDelivery for TLC. *)
EXTENDS WebhookDelivery, TLC

(* Permits are interchangeable, and so are events nobody has told apart. *)
WorkerSymmetry == Permutations(Workers)
EventSymmetry == Permutations(Events)
Symmetry == WorkerSymmetry \cup EventSymmetry
==============================================================================
