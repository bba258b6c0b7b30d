-------------------------------- MODULE MCCartTx --------------------------------
EXTENDS CartTx, TLC

\* Line identifiers are compared, the others are not.
Symmetry == Permutations(Customers) \cup Permutations(CartIds)
            \cup Permutations(Orders) \cup Permutations(Sessions)

\* Bounds: the products stay active, and nothing follows the last order.
Bounded ==
    /\ \A p \in Products : isActive[p]
    /\ \E o \in Orders : order[o] = NoRow
=============================================================================
