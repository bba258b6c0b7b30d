---------------------------- MODULE CommerceHistory ----------------------------
(***************************************************************************)
(* Commerce with an observer: past remembers every status each order has   *)
(* had.  The observer reads the orders table after each request and has no *)
(* counterpart in the code.                                                *)
(***************************************************************************)
EXTENDS Commerce

VARIABLE past

hvars == <<vars, past>>

HInit == Init /\ past = [o \in Orders |-> {}]

Observe ==
    past' = [o \in Orders |->
                IF order'[o] = NoRow THEN {} ELSE past[o] \cup {order'[o].status}]

HNext == Next /\ Observe

HSpec == HInit /\ [][HNext]_hvars

-----------------------------------------------------------------------------
\* A recorded notification of payment is never lost: unless an administrator
\* cancelled the order at some time, the order is sold and the payment it
\* names is paid, whatever was reported before or after it and for whichever
\* of the order's payments.
PaidNotificationApplied ==
    \A e \in event :
        (e.status = "PAID" /\ "CANCELLED" \notin past[e.order])
        => /\ order[e.order].status \in Sold
           /\ \E i \in PaymentIds : /\ payment[i] # NoRow
                                    /\ payment[i].order = e.order
                                    /\ payment[i].provider = e.provider
                                    /\ payment[i].status = "PAID"

\* An order that is closed without ever having been sold has given its items
\* back, whichever administrator or notification closed it first and whatever
\* closed status later notifications gave it.
UnsoldOrderReturnsStock ==
    \A o \in Orders :
        (/\ order[o] # NoRow
         /\ order[o].status \in {"CANCELLED", "EXPIRED", "FAILED"}
         /\ past[o] \cap Sold = {})
        => order[o].restored

-----------------------------------------------------------------------------
(***************************************************************************)
(* What they need to be inductive, together with IInv of Commerce.         *)
(***************************************************************************)

\* The observer has seen the status every order has, and nothing of an order
\* not made yet.
PastSeen ==
    \A o \in Orders : IF order[o] = NoRow THEN past[o] = {} ELSE order[o].status \in past[o]

\* Money taken sells the order, unless an administrator has cancelled it.
PaidPaymentSells ==
    \A i \in PaymentIds :
        (/\ payment[i] # NoRow
         /\ payment[i].status = "PAID"
         /\ "CANCELLED" \notin past[payment[i].order])
        => order[payment[i].order].status \in Sold

HInv == PastSeen /\ PaidPaymentSells /\ PaidNotificationApplied /\ UnsoldOrderReturnsStock

-----------------------------------------------------------------------------
(***************************************************************************)
(* An expectation of the repository's tests that the store does not meet.  *)
(***************************************************************************)

\* An order an administrator has cancelled is never sold: notifications of
\* payment are applied only to orders that were not cancelled.
OnceCancelledNeverPaid ==
    \A o \in Orders : "CANCELLED" \in past[o] => order[o].status \notin Sold
=============================================================================
