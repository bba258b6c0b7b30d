--------------------------- MODULE MCCommerceHistory ---------------------------
(***************************************************************************)
(* Instances of CommerceHistory for TLC.                                   *)
(***************************************************************************)
EXTENDS CommerceHistory, TLC, FiniteSets

CONSTANT MaxEvents   \* bound: the notifications recorded

Interchangeable ==
    Permutations(Customers) \cup Permutations(Products) \cup Permutations(Orders)
    \cup Permutations(EventIds) \cup Permutations(Providers)

\* Bounds: administrators leave the catalogue alone, and a cart that can
\* become no order stays empty.
QuietShop ==
    /\ deleted = {}
    /\ \A p \in Products : isActive[p]
    /\ (\A o \in Orders : order[o] # NoRow) => \A c \in Customers : cart[c] = EmptyCart
    /\ Cardinality(event) <= MaxEvents
=============================================================================
