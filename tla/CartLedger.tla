------------------------------- MODULE CartLedger -------------------------------
(***************************************************************************)
(* What the shop promises a customer about the basket: it changes as the   *)
(* customer asks, and an order holds the basket it was made from.          *)
(***************************************************************************)
EXTENDS Naturals

CONSTANTS Customers, Products, Orders, NoRow

VARIABLES
    basket,   \* the quantities a customer is about to order
    placed    \* the quantities of each order

Quantities == [Products -> Nat]
NoItems == [p \in Products |-> 0]

Init ==
    /\ basket = [c \in Customers |-> NoItems]
    /\ placed = [o \in Orders |-> NoRow]

Add(c, p, q) ==
    /\ basket' = [basket EXCEPT ![c][p] = @ + q]
    /\ UNCHANGED placed

Put(c, p, q) ==
    /\ basket[c][p] > 0
    /\ basket' = [basket EXCEPT ![c][p] = q]
    /\ UNCHANGED placed

Drop(c, p) ==
    /\ basket[c][p] > 0
    /\ basket' = [basket EXCEPT ![c][p] = 0]
    /\ UNCHANGED placed

Empty(c) ==
    /\ basket' = [basket EXCEPT ![c] = NoItems]
    /\ UNCHANGED placed

Order(c, o) ==
    /\ placed[o] = NoRow
    /\ basket[c] # NoItems
    /\ placed' = [placed EXCEPT ![o] = basket[c]]
    /\ basket' = [basket EXCEPT ![c] = NoItems]

\* The quantity asked for is whatever the basket shows afterwards.
Next ==
    \E c \in Customers :
        \/ \E p \in Products :
               \/ /\ basket'[c][p] > basket[c][p]
                  /\ Add(c, p, basket'[c][p] - basket[c][p])
               \/ basket'[c][p] > 0 /\ Put(c, p, basket'[c][p])
               \/ Drop(c, p)
        \/ Empty(c)
        \/ \E o \in Orders : Order(c, o)

Spec == Init /\ [][Next]_<<basket, placed>>
=============================================================================
