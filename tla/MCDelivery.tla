------------------------------- MODULE MCDelivery -------------------------------
EXTENDS Delivery, TLC, FiniteSets

CONSTANTS
    Asked,     \* bound: the statuses administrators ask for
    MaxSent    \* bound: the reports sent

MCEventIds ==
    Transactions \cup (Transactions \X Vocabulary)
    \cup (Orders \X Vocabulary \X BOOLEAN)

\* Bounds: as in the runs of MCCommerceHistory, and the order has, when an
\* administrator touches it, one of the statuses Asked.
Bounded ==
    /\ deleted = {}
    /\ \A p \in Products : isActive[p]
    /\ (\A o \in Orders : order[o] # NoRow) => \A c \in Customers : cart[c] = EmptyCart
    /\ \A o \in Orders : past[o] \subseteq Asked
    /\ Cardinality(sent) <= MaxSent
=============================================================================
