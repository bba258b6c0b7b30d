------------------------------ MODULE MCWebhookTx ------------------------------
(***************************************************************************)
(* Instances of WebhookTx for TLC.                                         *)
(***************************************************************************)
EXTENDS WebhookTx, TLC

Interchangeable ==
    Permutations(Customers) \cup Permutations(Products) \cup Permutations(Orders)
    \cup Permutations(EventIds) \cup Permutations(Providers) \cup Permutations(Sessions)

\* Bound: the products can be ordered.
Orderables == \A p \in Products : isActive[p]
=============================================================================
