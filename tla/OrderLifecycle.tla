---------------------------- MODULE OrderLifecycle ----------------------------
(***************************************************************************)
(* The status rules of orders and payments as pure operators: the table of *)
(* transitions an administrator may ask for (internal/order/service.go)    *)
(* and the decisions a payment notification takes                          *)
(* (internal/payment/service.go).  Statuses are the strings of the code.   *)
(***************************************************************************)

OrderStatus ==
    {"PENDING_PAYMENT", "PAID", "PROCESSING", "READY_TO_SHIP", "SHIPPED",
     "COMPLETED", "CANCELLED", "EXPIRED", "FAILED"}

PaymentStatus ==
    {"PENDING", "PAID", "EXPIRED", "FAILED", "CANCELLED", "REFUNDED"}

\* Mutant: an order that ran out of time may be marked paid by hand.
TransitionsReopeningExpired ==
    ({"PENDING_PAYMENT", "EXPIRED"} \X {"PAID", "CANCELLED", "EXPIRED", "FAILED"})
    \cup ({"PAID"} \X {"PROCESSING", "CANCELLED"})

\* The map of maps allowedTransitions, as a relation: a pair is present where
\* the code stores true.
allowedTransitions ==
    ({"PENDING_PAYMENT"} \X {"PAID", "CANCELLED", "EXPIRED", "FAILED"})
    \cup ({"PAID"} \X {"PROCESSING", "CANCELLED"})
    \cup {<<"PROCESSING", "READY_TO_SHIP">>, <<"READY_TO_SHIP", "SHIPPED">>,
          <<"SHIPPED", "COMPLETED">>}

\* Mutant: the switch of isPaidOrBeyond without one of its cases.
PaidOrBeyondWithoutReadyToShip ==
    {"PAID", "PROCESSING", "SHIPPED", "COMPLETED"}

\* The statuses for which isPaidOrBeyond answers true.
PaidOrBeyond ==
    {"PAID", "PROCESSING", "READY_TO_SHIP", "SHIPPED", "COMPLETED"}

-----------------------------------------------------------------------------
(***************************************************************************)
(* Giving reserved stock back.                                             *)
(***************************************************************************)

\* Mutant: a cancelled order returns its items again, the flag is not consulted.
ReturnsStockIgnoringFlag(old, new, restored) ==
    old \in {"PENDING_PAYMENT", "CANCELLED"} /\ new \in {"EXPIRED", "FAILED", "CANCELLED"}

\* Mutant: a failed payment does not return the items.
ReturnsStockUnlessFailed(old, new, restored) ==
    old = "PENDING_PAYMENT" /\ new \in {"EXPIRED", "CANCELLED"} /\ ~restored

\* The guards of maybeRestoreStock and of restoreOrderStockIfNeeded, which
\* are the same: does moving from old to new give the items back?
ReturnsStock(old, new, restored) ==
    /\ old = "PENDING_PAYMENT"
    /\ new \in {"EXPIRED", "FAILED", "CANCELLED"}
    /\ ~restored

-----------------------------------------------------------------------------
(***************************************************************************)
(* What a payment notification does.                                       *)
(***************************************************************************)

\* Mutants: a paid payment may be downgraded; a payment that was once settled
\* is left alone.
ChangesEvenIfPaid(current, incoming, orderStatus) ==
    /\ ~(orderStatus = "CANCELLED" /\ incoming = "PAID")
    /\ current # incoming
ChangesOnlyFromPending(current, incoming, orderStatus) ==
    current = "PENDING" /\ incoming # "PENDING"

\* The boolean result of applyWebhookStatus; when it is true the new payment
\* status is the incoming one.
applyWebhookStatus(current, incoming, orderStatus) ==
    /\ ~(orderStatus = "CANCELLED" /\ incoming = "PAID")
    /\ ~(current = "PAID" /\ incoming # "PAID")
    /\ current # incoming

\* Mutants: a paid notification only moves an order that still waits for it;
\* an expired or failed payment leaves its order as it is.
PaidMovesOnlyPendingOrder(orderStatus, paymentStatus) ==
    CASE paymentStatus = "PAID" /\ orderStatus = "PENDING_PAYMENT" -> "PAID"
      [] paymentStatus \in {"EXPIRED", "FAILED", "CANCELLED"}
         /\ orderStatus \notin PaidOrBeyond -> paymentStatus
      [] OTHER -> orderStatus
FailureLeavesOrder(orderStatus, paymentStatus) ==
    IF paymentStatus = "PAID" /\ orderStatus # "CANCELLED"
    THEN "PAID" ELSE orderStatus

\* applyOrderTransition.  Its boolean result is "the status differs from the
\* one the order has", so the new status alone is returned.
applyOrderTransition(orderStatus, paymentStatus) ==
    CASE paymentStatus = "PAID" /\ orderStatus # "CANCELLED" -> "PAID"
      [] paymentStatus \in {"EXPIRED", "FAILED", "CANCELLED"}
         /\ orderStatus \notin PaidOrBeyond -> paymentStatus
      [] OTHER -> orderStatus

\* The payment statuses for which HandleWebhook goes on to the order.
SettlingStatus == {"PAID", "EXPIRED", "FAILED"}
=============================================================================
