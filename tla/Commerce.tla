------------------------------- MODULE Commerce -------------------------------
(***************************************************************************)
(* The store: products, carts, orders, payments and the notifications of   *)
(* the payment providers, one action per request that commits.  Every      *)
(* writing handler runs in one database transaction (or is one statement), *)
(* so a request that fails, is rolled back, or finds nothing to do leaves  *)
(* the database as it was and is a stuttering step here.  What happens     *)
(* between the statements of one request is the subject of the modules     *)
(* whose names end in Tx.                                                  *)
(***************************************************************************)
EXTENDS OrderLifecycle, Naturals

CONSTANTS
    Customers,   \* holders of a cart
    Products,    \* identifiers of the product rows
    Orders,      \* identifiers an order row may get
    PaymentIds,  \* identifiers a payment row may get; their order is the key order
    Providers,   \* the registered payment providers
    EventIds,    \* identifiers a provider gives its notifications
    MaxQty,      \* bound: the largest quantity a cart request asks for
    MaxStock,    \* bound: the largest stock an administrator writes
    NoRow        \* the content of an identifier that no row has yet

ASSUME PaymentIdsAssumption == PaymentIds \subseteq Nat
ASSUME BoundsAssumption == MaxQty \in Nat /\ MaxStock \in Nat

Quantities == [Products -> Nat]

\* A row of orders with the lines of order_items that belong to it.
OrderRow == [status : OrderStatus, restored : BOOLEAN, items : Quantities]

\* A row of payments.  The provider reference is the provider's prefix and
\* the order number, so provider and order stand for it; paid_at is reduced
\* to whether it is set.
PaymentRow ==
    [provider : Providers, order : Orders, status : PaymentStatus, paidAt : BOOLEAN]

\* A row of payment_webhook_events with the action of the audit row written
\* by the same transaction.
EventRow ==
    [provider : Providers, id : EventIds, order : Orders, status : PaymentStatus,
     audit : {"PAYMENT_WEBHOOK", "PAYMENT_WEBHOOK_DUPLICATE"}]

ASSUME NoRowAssumption == NoRow \notin OrderRow /\ NoRow \notin PaymentRow

VARIABLES
    stock,     \* products.stock
    isActive,  \* products.is_active
    deleted,   \* the products whose deleted_at is set
    cart,      \* the quantities in the customer's ACTIVE cart, 0 for no line
    order,     \* the orders table
    payment,   \* the payments table
    event,     \* the payment_webhook_events table
    selected,  \* the provider new payments are made with (PAYMENT_PROVIDER)
    revived,   \* the products an Update has brought back since a request that
               \* holds the order's row last committed
    led        \* the payments that have been the first of their reference since
               \* the server was started

\* revived and led only observe.  They bound what a request that runs for a
\* long time may have read before it commits.
observed == <<revived, led>>
catalog == <<stock, isActive, deleted>>
vars == <<catalog, cart, order, payment, event, selected, observed>>

TypeOK ==
    /\ stock \in Quantities
    /\ isActive \in [Products -> BOOLEAN]
    /\ deleted \in SUBSET Products
    /\ cart \in [Customers -> Quantities]
    /\ order \in [Orders -> OrderRow \cup {NoRow}]
    /\ payment \in [PaymentIds -> PaymentRow \cup {NoRow}]
    /\ event \in SUBSET EventRow
    /\ selected \in Providers
    /\ revived \in [Orders -> SUBSET Products]
    /\ led \in SUBSET PaymentIds

EmptyCart == [p \in Products |-> 0]

\* The catalogue has been set up: a product is created inactive and perhaps
\* activated since.
Init ==
    /\ stock \in [Products -> 0 .. MaxStock]
    /\ isActive \in [Products -> BOOLEAN]
    /\ deleted = {}
    /\ cart = [c \in Customers |-> EmptyCart]
    /\ order = [o \in Orders |-> NoRow]
    /\ payment = [i \in PaymentIds |-> NoRow]
    /\ event = {}
    /\ selected \in Providers
    /\ revived = [o \in Orders |-> {}]
    /\ led = {}

-----------------------------------------------------------------------------
(***************************************************************************)
(* The catalogue.  Requests of administrators.                             *)
(***************************************************************************)

SetStock(p, n) ==
    /\ p \notin deleted
    /\ stock' = [stock EXCEPT ![p] = n]
    /\ UNCHANGED <<isActive, deleted, cart, order, payment, event, selected, observed>>

SetActive(p, active) ==
    /\ p \notin deleted
    /\ isActive' = [isActive EXCEPT ![p] = active]
    /\ UNCHANGED <<stock, deleted, cart, order, payment, event, selected, observed>>

DeleteProduct(p) ==
    /\ p \notin deleted
    /\ deleted' = deleted \cup {p}
    /\ UNCHANGED <<stock, isActive, cart, order, payment, event, selected, observed>>

\* Update writes the row it read before its transaction.  The stock is the
\* one asked for, but is_active and deleted_at are those of the earlier read:
\* wasActive may be stale, and a product deleted in between is written back
\* as live (Save inserts the row on conflict with the deleted one).
UpdateProduct(p, n, wasActive) ==
    /\ stock' = [stock EXCEPT ![p] = n]
    /\ isActive' = [isActive EXCEPT ![p] = wasActive]
    /\ deleted' = deleted \ {p}
    /\ revived' = [o \in Orders |->
                      revived[o] \cup {q \in {p} \cap deleted : order[o] # NoRow}]
    /\ UNCHANGED <<cart, order, payment, event, selected, led>>

-----------------------------------------------------------------------------
(***************************************************************************)
(* The cart.  Requests of a customer.                                      *)
(***************************************************************************)

\* Mutants: the stock is not compared; deleted_at is not looked at.
OrderableIgnoringStock(p, q) == p \notin deleted /\ isActive[p]
OrderableThoughDeleted(p, q) == isActive[p] /\ q <= stock[p]

\* What AddItem, UpdateItem and the conditional UPDATE of Checkout ask of a
\* product before it serves quantity q.
Orderable(p, q) == p \notin deleted /\ isActive[p] /\ q <= stock[p]

\* AddItem: the quantity of an existing line grows, a missing line is made.
AddItem(c, p, q) ==
    /\ Orderable(p, cart[c][p] + q)
    /\ cart' = [cart EXCEPT ![c][p] = @ + q]
    /\ UNCHANGED <<catalog, order, payment, event, selected, observed>>

UpdateItem(c, p, q) ==
    /\ cart[c][p] > 0
    /\ Orderable(p, q)
    /\ cart' = [cart EXCEPT ![c][p] = q]
    /\ UNCHANGED <<catalog, order, payment, event, selected, observed>>

RemoveItem(c, p) ==
    /\ cart[c][p] > 0
    /\ cart' = [cart EXCEPT ![c][p] = 0]
    /\ UNCHANGED <<catalog, order, payment, event, selected, observed>>

Clear(c) ==
    /\ cart' = [cart EXCEPT ![c] = EmptyCart]
    /\ UNCHANGED <<catalog, order, payment, event, selected, observed>>

-----------------------------------------------------------------------------
(***************************************************************************)
(* Orders.                                                                 *)
(***************************************************************************)

\* Mutant: the cart stays ACTIVE, its lines can be ordered again.
CheckoutKeepingCart(c, o) ==
    /\ order[o] = NoRow
    /\ cart[c] # EmptyCart
    /\ \A p \in Products : cart[c][p] > 0 => Orderable(p, cart[c][p])
    /\ stock' = [p \in Products |-> stock[p] - cart[c][p]]
    /\ order' = [order EXCEPT ![o] =
           [status |-> "PENDING_PAYMENT", restored |-> FALSE, items |-> cart[c]]]
    /\ UNCHANGED <<cart, isActive, deleted, payment, event, selected, observed>>

\* The customer's cart becomes order o: each line takes its quantity from the
\* product's stock, and the cart leaves the ACTIVE state.  Any line that cannot
\* be served refuses the request, as does an address that is not the customer's.
Checkout(c, o) ==
    /\ order[o] = NoRow
    /\ cart[c] # EmptyCart
    /\ \A p \in Products : cart[c][p] > 0 => Orderable(p, cart[c][p])
    /\ stock' = [p \in Products |-> stock[p] - cart[c][p]]
    /\ order' = [order EXCEPT ![o] =
           [status |-> "PENDING_PAYMENT", restored |-> FALSE, items |-> cart[c]]]
    /\ cart' = [cart EXCEPT ![c] = EmptyCart]
    /\ UNCHANGED <<isActive, deleted, payment, event, selected, observed>>

\* The stock after the items of order o are given back.  A deleted product
\* gets nothing, nor do those in missed.
StockWithItemsOf(o, missed) ==
    [p \in Products |-> IF p \in deleted \cup missed THEN stock[p]
                                                     ELSE stock[p] + order[o].items[p]]

\* Order o gets status next; its stock comes back if the status that triggers
\* the move (for a notification, that of the payment) calls for it.  The
\* request has held the order for some time and returns one item after the
\* other: a product that was brought back in that time may have been missed.
MoveOrder(o, trigger, next) ==
    LET returns == ReturnsStock(order[o].status, trigger, order[o].restored)
    IN  /\ \E missed \in SUBSET revived[o] :
               stock' = IF returns THEN StockWithItemsOf(o, missed) ELSE stock
        /\ order' = [order EXCEPT ![o].status = next,
                                  ![o].restored = @ \/ returns]

\* A request that holds order o commits.
Forget(o) == revived' = [revived EXCEPT ![o] = {}]

UpdateOrderStatus(o, next) ==
    /\ order[o] # NoRow
    /\ <<order[o].status, next>> \in allowedTransitions
    /\ MoveOrder(o, next, next)
    /\ Forget(o)
    /\ UNCHANGED <<isActive, deleted, cart, payment, event, selected, led>>

-----------------------------------------------------------------------------
(***************************************************************************)
(* Payments and the notifications of the providers.                        *)
(***************************************************************************)

SameReference(i, j) ==
    /\ payment[j] # NoRow
    /\ payment[j].provider = payment[i].provider
    /\ payment[j].order = payment[i].order

\* First(&pay, "provider = ? AND provider_reference = ?"): of the rows with
\* one reference, the one with the smallest primary key.
FirstByReference(i) ==
    /\ payment[i] # NoRow
    /\ \A j \in PaymentIds : SameReference(i, j) => i <= j

FirstPayments == {i \in PaymentIds : FirstByReference(i)}

\* A payment is made with the selected provider for an order that waits for
\* one; a PENDING payment of the order, of either provider, is returned
\* instead.  The row's identifier is random: any unused one.
CreatePaymentForOrder(o, i) ==
    /\ order[o] # NoRow
    /\ order[o].status = "PENDING_PAYMENT"
    /\ \A j \in PaymentIds : ~(/\ payment[j] # NoRow
                               /\ payment[j].order = o
                               /\ payment[j].status = "PENDING")
    /\ payment[i] = NoRow
    /\ payment' = [payment EXCEPT ![i] =
           [provider |-> selected, order |-> o, status |-> "PENDING", paidAt |-> FALSE]]
    /\ led' = led \cup FirstPayments'
    /\ Forget(o)
    /\ UNCHANGED <<catalog, cart, order, event, selected>>

\* A notification with a new identifier, reporting status s, is applied to
\* payment i, the row that was the first of its reference when it was looked
\* for.  While the request waited for the order a row with a smaller key may
\* have been inserted.  A notification whose identifier is recorded already,
\* or whose reference no payment has, is rolled back.
HandleWebhook(i, id, s) ==
    LET provider == payment[i].provider
        o        == payment[i].order
        changed  == applyWebhookStatus(payment[i].status, s, order[o].status)
    IN  /\ payment[i] # NoRow
        /\ i \in led
        /\ \A e \in event : ~(e.provider = provider /\ e.id = id)
        /\ event' = event \cup
               {[provider |-> provider, id |-> id, order |-> o, status |-> s,
                 audit |-> IF changed THEN "PAYMENT_WEBHOOK"
                                      ELSE "PAYMENT_WEBHOOK_DUPLICATE"]}
        /\ payment' = IF changed
                      THEN [payment EXCEPT ![i].status = s,
                                           ![i].paidAt = @ \/ s = "PAID"]
                      ELSE payment
        /\ IF changed /\ s \in SettlingStatus
           THEN MoveOrder(o, s, applyOrderTransition(order[o].status, s))
           ELSE UNCHANGED <<stock, order>>
        /\ Forget(o)
        /\ UNCHANGED <<isActive, deleted, cart, selected, led>>

\* The server is started again, perhaps with another PAYMENT_PROVIDER.  Both
\* providers stay registered for notifications.
Restart(provider) ==
    /\ selected' = provider
    /\ revived' = [o \in Orders |-> {}]
    /\ led' = FirstPayments
    /\ UNCHANGED <<catalog, cart, order, payment, event>>

-----------------------------------------------------------------------------
AdminStep ==
    \/ \E p \in Products, n \in 0 .. MaxStock : SetStock(p, n)
    \/ \E p \in Products, active \in BOOLEAN : SetActive(p, active)
    \/ \E p \in Products : DeleteProduct(p)
    \/ \E p \in Products, n \in 0 .. MaxStock, wasActive \in BOOLEAN :
           UpdateProduct(p, n, wasActive)
    \/ \E o \in Orders, next \in OrderStatus : UpdateOrderStatus(o, next)

CustomerStep ==
    \/ \E c \in Customers, p \in Products, q \in 1 .. MaxQty :
           AddItem(c, p, q) \/ UpdateItem(c, p, q)
    \/ \E c \in Customers, p \in Products : RemoveItem(c, p)
    \/ \E c \in Customers : Clear(c)
    \/ \E c \in Customers, o \in Orders : Checkout(c, o)
    \/ \E o \in Orders, i \in PaymentIds : CreatePaymentForOrder(o, i)

ProviderStep ==
    \E i \in PaymentIds, id \in EventIds, s \in PaymentStatus : HandleWebhook(i, id, s)

Next ==
    \/ AdminStep
    \/ CustomerStep
    \/ ProviderStep
    \/ \E provider \in Providers : Restart(provider)

Spec == Init /\ [][Next]_vars

-----------------------------------------------------------------------------
(***************************************************************************)
(* Properties.                                                             *)
(***************************************************************************)

\* The statuses of an order that money was taken for.
Sold == OrderStatus \ {"PENDING_PAYMENT", "CANCELLED", "EXPIRED", "FAILED"}

\* What order o has taken and not given back.
HeldBy(o) ==
    IF order[o] = NoRow \/ order[o].restored THEN EmptyCart ELSE order[o].items

\* The store seen as a ledger of stock.  The store keeps every promise
\* StockLedger makes: checkout takes all the items of an order or none, an
\* order gives them back once, whoever closes it, and entirely, but to products
\* that are deleted or were while it was held, and nothing but an
\* administrator's count changes stock otherwise.
Ledger == INSTANCE StockLedger WITH
    holds  <- [o \in Orders |-> HeldBy(o)],
    placed <- {o \in Orders : order[o] # NoRow},
    gone   <- deleted,
    back   <- revived

ImplementsLedger == Ledger!Spec

\* The store seen from a basket.  A basket changes one product at a time or
\* is emptied; a checkout orders all of it and leaves nothing of it, so no
\* item is ordered twice, and no administrator, notification or return of
\* stock changes a basket or what an order was made of.
Carts == INSTANCE CartLedger WITH
    basket <- cart,
    placed <- [o \in Orders |-> IF order[o] = NoRow THEN NoRow ELSE order[o].items]

ImplementsCarts == Carts!Spec

\* Whatever a step does to an order, stock and what the order holds keep
\* their sum: checkout takes exactly what the order holds, and of the
\* administrator, the notification of failure and the late notification of
\* another payment only the first to release the order gives its items back.
\* Excepted are products that were deleted while a request may have held the
\* order: they get all of their items or nothing.
StockConservation ==
    [][\A o \in Orders : order'[o] # order[o] =>
          \A p \in Products :
              \/ stock'[p] + HeldBy(o)'[p] = stock[p] + HeldBy(o)[p]
              \/ p \in deleted \cup revived[o] /\ stock'[p] = stock[p]]_vars

\* Once a payment of an order has been paid, has expired or has failed, the
\* order does not wait for payment any more, in whatever order notifications,
\* administrators and second payments come.
SettledPaymentClosesOrder ==
    \A i \in PaymentIds :
        (/\ payment[i] # NoRow
         /\ payment[i].status \in {"PAID", "EXPIRED", "FAILED"})
        => order[payment[i].order].status # "PENDING_PAYMENT"

\* An order that gave its items back is sold afterwards only because a
\* payment of it was paid: the administrator's transitions never bring it back.
ReopenedOrderIsPaid ==
    \A o \in Orders :
        (order[o] # NoRow /\ order[o].restored /\ order[o].status \in Sold)
        => \E i \in PaymentIds : /\ payment[i] # NoRow
                                 /\ payment[i].order = o
                                 /\ payment[i].status = "PAID"

\* A paid payment stays paid and keeps its paid_at, whatever arrives late.
PaidPaymentFinal ==
    [][\A i \in PaymentIds :
          (payment[i] # NoRow /\ payment[i].status = "PAID")
          => payment'[i] = payment[i] /\ payment[i].paidAt]_vars

\* The step that accepts money for an order marks that order as paid, even
\* when the order had expired or failed, and never does so for an order the
\* administrator has cancelled.
AcceptedMoneyMarksOrderPaid ==
    [][\A i \in PaymentIds :
          (/\ payment[i] # NoRow
           /\ payment[i].status # "PAID"
           /\ payment'[i].status = "PAID")
          => /\ order[payment[i].order].status # "CANCELLED"
             /\ order'[payment[i].order].status = "PAID"]_vars

\* A late notification never takes a sold order back to waiting for payment,
\* expired or failed: only an administrator ends it, by cancelling it.
LateFailureNeverUndoesPaid ==
    [][\A o \in Orders :
          (order[o] # NoRow /\ order[o].status \in Sold)
          => order'[o].status \in Sold \cup {"CANCELLED"}]_vars

-----------------------------------------------------------------------------
(***************************************************************************)
(* The inductive invariant that SettledPaymentClosesOrder,                 *)
(* ReopenedOrderIsPaid and the action properties above follow from.        *)
(***************************************************************************)

\* A payment belongs to an order that exists.
PaymentHasOrder ==
    \A i \in PaymentIds : payment[i] # NoRow => order[payment[i].order] # NoRow

\* An order that waits for payment has not given its items back.
PendingHoldsStock ==
    \A o \in Orders :
        (order[o] # NoRow /\ order[o].status = "PENDING_PAYMENT") => ~order[o].restored

\* A paid payment has its paid_at.
PaidIsDated ==
    \A i \in PaymentIds :
        (payment[i] # NoRow /\ payment[i].status = "PAID") => payment[i].paidAt

\* The row a lookup finds now is one of those a request may have found.
FirstHasLed == FirstPayments \subseteq led

\* The parts together: what the handlers rely on whenever one of them starts.
IInv ==
    /\ TypeOK
    /\ PaymentHasOrder
    /\ PendingHoldsStock
    /\ SettledPaymentClosesOrder
    /\ PaidIsDated
    /\ FirstHasLed
    /\ ReopenedOrderIsPaid

-----------------------------------------------------------------------------
(***************************************************************************)
(* Expectations of the repository that the store does not meet.            *)
(***************************************************************************)

\* An order has at most one payment that waits for money: asking for a
\* payment twice returns the one that is pending.
AtMostOnePendingPayment ==
    \A i, j \in PaymentIds :
        (/\ payment[i] # NoRow /\ payment[j] # NoRow
         /\ payment[i].order = payment[j].order
         /\ payment[i].status = "PENDING" /\ payment[j].status = "PENDING") => i = j

\* A reference is paid once: what a second notification of the payment finds
\* is a payment that is PAID.
OnePaidPaymentPerReference ==
    \A i, j \in PaymentIds :
        (/\ payment[i] # NoRow
         /\ SameReference(i, j)
         /\ payment[i].status = "PAID"
         /\ payment[j].status = "PAID") => i = j
=============================================================================
