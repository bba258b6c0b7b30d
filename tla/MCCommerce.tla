------------------------------ MODULE MCCommerce ------------------------------
(***************************************************************************)
(* Instances of Commerce for TLC.                                          *)
(***************************************************************************)
EXTENDS Commerce, TLC

\* Rows of one table and notification identifiers are interchangeable; the
\* identifiers of payments are not, they are compared.
Interchangeable ==
    Permutations(Customers) \cup Permutations(Products) \cup Permutations(Orders)
    \cup Permutations(EventIds) \cup Permutations(Providers)

\* Bound: administrators leave the catalogue alone, so that a run spends its
\* states on orders and payments.
QuietCatalogue == deleted = {} /\ \A p \in Products : isActive[p]
=============================================================================
