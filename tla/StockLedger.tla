------------------------------ MODULE StockLedger ------------------------------
(***************************************************************************)
(* What the store promises about stock, without statuses, carts, payments  *)
(* or notifications: an order takes goods once, gives them back at most    *)
(* once, and between the two only an administrator changes a product's     *)
(* stock, by writing it.  What is given back arrives, unless the product   *)
(* is withdrawn, or was until the order was last heard of.                 *)
(***************************************************************************)
EXTENDS Naturals

CONSTANTS Products, Orders

Quantities == [Products -> Nat]
Nothing == [p \in Products |-> 0]

VARIABLES
    stock,    \* what can still be ordered
    holds,    \* what each order has taken and not given back
    placed,   \* the orders that have been placed
    gone,     \* the products that are withdrawn
    back      \* the products brought back since each order was last heard of

ledger == <<stock, holds, placed, gone, back>>

Init ==
    /\ stock \in Quantities
    /\ holds = [o \in Orders |-> Nothing]
    /\ placed = {}
    /\ gone = {}
    /\ back = [o \in Orders |-> {}]

\* A new order takes goods that are there, all of them or none: what it
\* holds afterwards is what the stock lost.
Take(o) ==
    /\ o \notin placed
    /\ placed' = placed \cup {o}
    /\ holds' \in [Orders -> Quantities]
    /\ \A other \in Orders \ {o} : holds'[other] = holds[other]
    /\ \A p \in Products :
          /\ holds'[o][p] <= stock[p]
          /\ holds'[o][p] > 0 => p \notin gone
    /\ stock' = [p \in Products |-> stock[p] - holds'[o][p]]
    /\ UNCHANGED <<gone, back>>

\* Orders are heard of.
Hear(heard) ==
    /\ back' = [o \in Orders |-> IF o \in heard THEN {} ELSE back[o]]
    /\ UNCHANGED <<placed, gone>>

\* They keep what they hold.
Keep(heard) == Hear(heard) /\ UNCHANGED <<stock, holds>>

\* An order gives everything back; what is withdrawn is lost, and what was may be.
GiveBack(o) ==
    /\ \E lost \in SUBSET back[o] :
          stock' = [p \in Products |->
                       IF p \in gone \cup lost THEN stock[p] ELSE stock[p] + holds[o][p]]
    /\ holds' = [holds EXCEPT ![o] = Nothing]
    /\ Hear({o})

\* An administrator counts a product, or withdraws it, or both.
Count(p) ==
    /\ stock' \in Quantities
    /\ \A other \in Products \ {p} : stock'[other] = stock[other]
    /\ gone' = gone \ {p}
    /\ back' = [o \in Orders |-> back[o] \cup {q \in {p} \cap gone : o \in placed}]
    /\ UNCHANGED <<holds, placed>>

Withdraw(p) ==
    /\ gone' = gone \cup {p}
    /\ UNCHANGED <<stock, holds, placed, back>>

Next ==
    \/ \E o \in Orders : Take(o) \/ GiveBack(o)
    \/ \E heard \in SUBSET Orders : Keep(heard)
    \/ \E p \in Products : Count(p) \/ Withdraw(p)

Spec == Init /\ [][Next]_ledger
=============================================================================
