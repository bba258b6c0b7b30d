---------------------------- MODULE CommerceProofs ----------------------------
(***************************************************************************)
(* Proofs about Commerce, for any sets of customers, products, orders,     *)
(* providers and notifications and any bounds.                             *)
(***************************************************************************)
EXTENDS Commerce, TLAPS

-----------------------------------------------------------------------------
(***************************************************************************)
(* Lemmas about the parts the actions are built from.                      *)
(***************************************************************************)

\* The status an order gets from a notification is one an order can have.
LEMMA TransitionTyped ==
    ASSUME NEW old \in OrderStatus, NEW s \in SettlingStatus
    PROVE  applyOrderTransition(old, s) \in OrderStatus
BY DEF applyOrderTransition, OrderStatus, SettlingStatus, PaidOrBeyond

\* Moving an existing order keeps the tables of orders and products typed.
LEMMA MoveOrderTyped ==
    ASSUME TypeOK, NEW o \in Orders, order[o] # NoRow,
           NEW trigger, NEW next \in OrderStatus, MoveOrder(o, trigger, next)
    PROVE  /\ stock' \in Quantities
           /\ order' \in [Orders -> OrderRow \cup {NoRow}]
<1> DEFINE returns == ReturnsStock(order[o].status, trigger, order[o].restored)
<1>1. order[o] \in OrderRow
  BY DEF TypeOK
<1>2. stock' \in Quantities
  <2>1. ASSUME NEW missed PROVE StockWithItemsOf(o, missed) \in Quantities
    BY <1>1 DEF TypeOK, StockWithItemsOf, Quantities, OrderRow
  <2>2. QED
    BY <2>1 DEF TypeOK, MoveOrder
<1>3. order' \in [Orders -> OrderRow \cup {NoRow}]
  <2>1. returns \in BOOLEAN
    BY DEF ReturnsStock
  <2>2. [order[o] EXCEPT !.status = next, !.restored = @ \/ returns] \in OrderRow
    BY <1>1, <2>1 DEF OrderRow
  <2>3. order' = [order EXCEPT ![o] =
                     [order[o] EXCEPT !.status = next, !.restored = @ \/ returns]]
    BY <1>1 DEF MoveOrder, TypeOK
  <2>4. QED
    BY <2>2, <2>3 DEF TypeOK
<1>4. QED
  BY <1>2, <1>3

-----------------------------------------------------------------------------
(***************************************************************************)
(* The steps, as far as orders and payments can tell them apart.           *)
(***************************************************************************)

\* Payment i gets status s, as HandleWebhook writes it.
PaymentGets(i, s) ==
    payment' = [payment EXCEPT ![i].status = s, ![i].paidAt = @ \/ s = "PAID"]

\* Only four kinds of requests touch orders or payments.
LEMMA StepCases ==
    ASSUME [Next]_vars
    PROVE  \/ UNCHANGED <<order, payment>>
           \/ \E c \in Customers, o \in Orders : Checkout(c, o)
           \/ \E o \in Orders, next \in OrderStatus : UpdateOrderStatus(o, next)
           \/ \E o \in Orders, i \in PaymentIds : CreatePaymentForOrder(o, i)
           \/ \E i \in PaymentIds, id \in EventIds, s \in PaymentStatus : HandleWebhook(i, id, s)
BY DEF Next, AdminStep, CustomerStep, ProviderStep, vars, SetStock, SetActive,
       DeleteProduct, UpdateProduct, AddItem, UpdateItem, RemoveItem, Clear, Restart

\* What a notification does is one of three: nothing but record it, change
\* the payment alone, or settle the payment and go on to the order.
LEMMA WebhookCases ==
    ASSUME NEW i \in PaymentIds, NEW id \in EventIds, NEW s \in PaymentStatus,
           HandleWebhook(i, id, s)
    PROVE  \/ UNCHANGED <<stock, order, payment>>
           \/ /\ applyWebhookStatus(payment[i].status, s, order[payment[i].order].status)
              /\ PaymentGets(i, s)
              /\ \/ s \notin SettlingStatus /\ UNCHANGED <<stock, order>>
                 \/ /\ s \in SettlingStatus
                    /\ MoveOrder(payment[i].order, s,
                           applyOrderTransition(order[payment[i].order].status, s))
BY DEF HandleWebhook, PaymentGets

\* The payment row a notification writes is typed.
LEMMA PaymentGetsTyped ==
    ASSUME TypeOK, NEW i \in PaymentIds, payment[i] # NoRow,
           NEW s \in PaymentStatus, PaymentGets(i, s)
    PROVE  payment' \in [PaymentIds -> PaymentRow \cup {NoRow}]
<1>1. payment[i] \in PaymentRow
  BY DEF TypeOK
<1>2. [payment[i] EXCEPT !.status = s, !.paidAt = @ \/ s = "PAID"] \in PaymentRow
  BY <1>1 DEF PaymentRow
<1>3. payment' = [payment EXCEPT ![i] =
                     [payment[i] EXCEPT !.status = s, !.paidAt = @ \/ s = "PAID"]]
  BY <1>1 DEF PaymentGets, TypeOK
<1>4. QED
  BY <1>2, <1>3 DEF TypeOK

-----------------------------------------------------------------------------
(***************************************************************************)
(* The tables stay typed; in particular no stock is ever negative.         *)
(***************************************************************************)

\* The empty tables and a catalogue set up before are typed.
LEMMA TypeInit == Init => TypeOK
<1> SUFFICES ASSUME Init PROVE TypeOK
  OBVIOUS
<1>1. stock \in Quantities
  BY BoundsAssumption DEF Init, Quantities
<1>2. QED
  BY <1>1 DEF Init, TypeOK, EmptyCart, Quantities

\* A notification keeps the tables typed, whichever row it is applied to.
LEMMA WebhookTyped ==
    ASSUME TypeOK, PaymentHasOrder, NEW i \in PaymentIds, NEW id \in EventIds,
           NEW s \in PaymentStatus, HandleWebhook(i, id, s)
    PROVE  TypeOK'
<1> USE DEF TypeOK
<1> DEFINE o == payment[i].order
<1>1. payment[i] # NoRow
  BY DEF HandleWebhook
<1>2. payment[i] \in PaymentRow /\ o \in Orders /\ payment[i].provider \in Providers
  BY <1>1 DEF PaymentRow
<1>3. order[o] # NoRow /\ order[o].status \in OrderStatus
  BY <1>1, <1>2 DEF PaymentHasOrder, OrderRow
<1>4. stock' \in Quantities /\ order' \in [Orders -> OrderRow \cup {NoRow}]
  <2>1. CASE UNCHANGED <<stock, order>>
    BY <2>1
  <2>2. CASE /\ s \in SettlingStatus
             /\ MoveOrder(o, s, applyOrderTransition(order[o].status, s))
    <3>1. applyOrderTransition(order[o].status, s) \in OrderStatus
      BY <1>3, <2>2, TransitionTyped
    <3>2. QED
      BY <1>2, <1>3, <2>2, <3>1, MoveOrderTyped
  <2>3. QED
    BY <2>1, <2>2, WebhookCases
<1>5. payment' \in [PaymentIds -> PaymentRow \cup {NoRow}]
  <2>1. CASE UNCHANGED payment
    BY <2>1
  <2>2. CASE PaymentGets(i, s)
    BY <1>1, <2>2, PaymentGetsTyped
  <2>3. QED
    BY <2>1, <2>2, WebhookCases
<1>6. event' \in SUBSET EventRow
  BY <1>2 DEF HandleWebhook, EventRow
<1>7. UNCHANGED <<isActive, deleted, cart, selected, led>>
  BY DEF HandleWebhook
<1>8. revived' \in [Orders -> SUBSET Products]
  BY DEF HandleWebhook, Forget
<1>9. QED
  BY <1>4, <1>5, <1>6, <1>7, <1>8

\* Every request keeps the tables typed if payments belong to orders.
LEMMA TypeStep ==
    ASSUME TypeOK, PaymentHasOrder, [Next]_vars
    PROVE  TypeOK'
<1> USE DEF TypeOK, catalog, observed, Forget
<1>1. ASSUME NEW p \in Products, NEW n \in 0 .. MaxStock, SetStock(p, n)
      PROVE  TypeOK'
  <2>1. n \in Nat
    BY BoundsAssumption
  <2>2. QED
    BY <1>1, <2>1 DEF SetStock, Quantities
<1>2. ASSUME NEW p \in Products, NEW active \in BOOLEAN, SetActive(p, active)
      PROVE  TypeOK'
  BY <1>2 DEF SetActive
<1>3. ASSUME NEW p \in Products, DeleteProduct(p)
      PROVE  TypeOK'
  BY <1>3 DEF DeleteProduct
<1>4. ASSUME NEW p \in Products, NEW n \in 0 .. MaxStock, NEW wasActive \in BOOLEAN,
             UpdateProduct(p, n, wasActive)
      PROVE  TypeOK'
  <2>1. n \in Nat
    BY BoundsAssumption
  <2>2. QED
    BY <1>4, <2>1 DEF UpdateProduct, Quantities
<1>5. ASSUME NEW o \in Orders, NEW next \in OrderStatus, UpdateOrderStatus(o, next)
      PROVE  TypeOK'
  <2>1. stock' \in Quantities /\ order' \in [Orders -> OrderRow \cup {NoRow}]
    BY <1>5, MoveOrderTyped DEF UpdateOrderStatus
  <2>2. QED
    BY <1>5, <2>1 DEF UpdateOrderStatus
<1>6. ASSUME NEW c \in Customers, NEW p \in Products, NEW q \in 1 .. MaxQty,
             AddItem(c, p, q) \/ UpdateItem(c, p, q)
      PROVE  TypeOK'
  <2>1. q \in Nat
    BY BoundsAssumption
  <2>2. cart[c] \in Quantities
    OBVIOUS
  <2>3. /\ [cart[c] EXCEPT ![p] = cart[c][p] + q] \in Quantities
        /\ [cart[c] EXCEPT ![p] = q] \in Quantities
    BY <2>1, <2>2 DEF Quantities
  <2>4. \/ cart' = [cart EXCEPT ![c] = [cart[c] EXCEPT ![p] = cart[c][p] + q]]
        \/ cart' = [cart EXCEPT ![c] = [cart[c] EXCEPT ![p] = q]]
    BY <1>6 DEF AddItem, UpdateItem
  <2>5. QED
    BY <1>6, <2>3, <2>4 DEF AddItem, UpdateItem
<1>7. ASSUME NEW c \in Customers, NEW p \in Products, RemoveItem(c, p)
      PROVE  TypeOK'
  <2>1. [cart[c] EXCEPT ![p] = 0] \in Quantities
    BY DEF Quantities
  <2>2. cart' = [cart EXCEPT ![c] = [cart[c] EXCEPT ![p] = 0]]
    BY <1>7 DEF RemoveItem
  <2>3. QED
    BY <1>7, <2>1, <2>2 DEF RemoveItem
<1>8. EmptyCart \in Quantities
  BY DEF EmptyCart, Quantities
<1>9. ASSUME NEW c \in Customers, Clear(c)
      PROVE  TypeOK'
  BY <1>8, <1>9 DEF Clear
<1>10. ASSUME NEW c \in Customers, NEW o \in Orders, Checkout(c, o)
       PROVE  TypeOK'
  <2>1. \A p \in Products : cart[c][p] \in Nat /\ stock[p] \in Nat
    BY DEF Quantities
  <2>2. \A p \in Products : cart[c][p] <= stock[p]
    BY <1>10, <2>1 DEF Checkout, Orderable
  <2>3. stock' \in Quantities
    <3>1. \A p \in Products : stock[p] - cart[c][p] \in Nat
      BY <2>1, <2>2
    <3>2. QED
      BY <1>10, <3>1 DEF Checkout, Quantities
  <2>4. [status |-> "PENDING_PAYMENT", restored |-> FALSE, items |-> cart[c]] \in OrderRow
    BY DEF OrderRow, OrderStatus
  <2>5. order' \in [Orders -> OrderRow \cup {NoRow}]
    BY <1>10, <2>4 DEF Checkout
  <2>6. QED
    BY <1>8, <1>10, <2>3, <2>5 DEF Checkout
<1>11. ASSUME NEW o \in Orders, NEW i \in PaymentIds, CreatePaymentForOrder(o, i)
       PROVE  TypeOK'
  <2>1. [provider |-> selected, order |-> o, status |-> "PENDING", paidAt |-> FALSE]
        \in PaymentRow
    BY DEF PaymentRow, PaymentStatus
  <2>2. QED
    BY <1>11, <2>1 DEF CreatePaymentForOrder, FirstPayments
<1>12. ASSUME NEW i \in PaymentIds, NEW id \in EventIds, NEW s \in PaymentStatus,
              HandleWebhook(i, id, s)
       PROVE  TypeOK'
  BY <1>12, WebhookTyped
<1>13. ASSUME NEW provider \in Providers, Restart(provider)
       PROVE  TypeOK'
  BY <1>13 DEF Restart, FirstPayments
<1>14. CASE UNCHANGED vars
  BY <1>14 DEF vars
<1>15. QED
  BY <1>1, <1>2, <1>3, <1>4, <1>5, <1>6, <1>7, <1>9, <1>10, <1>11, <1>12, <1>13, <1>14
     DEF Next, AdminStep, CustomerStep, ProviderStep

-----------------------------------------------------------------------------
(***************************************************************************)
(* The inductive invariant, one lemma for each part.  Every lemma assumes  *)
(* the whole invariant before a step of the store.                         *)
(***************************************************************************)

\* What moving order o does, written without EXCEPT.
LEMMA MoveOrderEffect ==
    ASSUME TypeOK, NEW o \in Orders, order[o] # NoRow,
           NEW trigger, NEW next \in OrderStatus, MoveOrder(o, trigger, next)
    PROVE  /\ \A other \in Orders \ {o} : order'[other] = order[other]
           /\ order'[o] # NoRow
           /\ order'[o].status = next
           /\ order'[o].restored =
                  (order[o].restored \/ ReturnsStock(order[o].status, trigger, order[o].restored))
           /\ order'[o].items = order[o].items
<1>1. order[o] \in OrderRow /\ order[o].restored \in BOOLEAN
  BY DEF TypeOK, OrderRow
<1> DEFINE row == [order[o] EXCEPT !.status = next,
                                   !.restored = @ \/ ReturnsStock(order[o].status, trigger,
                                                                  order[o].restored)]
<1>2. order' = [order EXCEPT ![o] = row]
  BY <1>1 DEF MoveOrder, TypeOK
<1>3. /\ row.status = next
      /\ row.restored =
            (order[o].restored \/ ReturnsStock(order[o].status, trigger, order[o].restored))
      /\ row.items = order[o].items
  BY <1>1 DEF OrderRow
<1>4. order'[o] = row
  BY <1>2 DEF TypeOK
<1>5. row # NoRow
  <2>1. ReturnsStock(order[o].status, trigger, order[o].restored) \in BOOLEAN
    BY DEF ReturnsStock
  <2>2. row \in OrderRow
    BY <1>1, <2>1 DEF OrderRow
  <2>3. QED
    BY NoRowAssumption, <2>2
<1>6. QED
  BY <1>2, <1>3, <1>4, <1>5 DEF TypeOK

\* What a notification does to the payment row it finds.
LEMMA PaymentGetsEffect ==
    ASSUME TypeOK, NEW i \in PaymentIds, payment[i] # NoRow,
           NEW s \in PaymentStatus, PaymentGets(i, s)
    PROVE  /\ \A j \in PaymentIds \ {i} : payment'[j] = payment[j]
           /\ payment'[i] # NoRow
           /\ payment'[i].status = s
           /\ payment'[i].order = payment[i].order
           /\ payment'[i].provider = payment[i].provider
           /\ s = "PAID" => payment'[i].paidAt
<1>1. payment[i] \in PaymentRow
  BY DEF TypeOK
<1> DEFINE row == [payment[i] EXCEPT !.status = s, !.paidAt = @ \/ s = "PAID"]
<1>2. payment' = [payment EXCEPT ![i] = row]
  BY <1>1 DEF PaymentGets, TypeOK
<1>3. /\ row \in PaymentRow
      /\ row.status = s
      /\ row.order = payment[i].order
      /\ row.provider = payment[i].provider
      /\ s = "PAID" => row.paidAt
  BY <1>1 DEF PaymentRow
<1>4. payment'[i] = row
  BY <1>2 DEF TypeOK
<1>5. QED
  BY <1>2, <1>3, <1>4, NoRowAssumption DEF TypeOK

\* An order that no longer waits for payment gets no status that waits.
LEMMA TransitionLeavesPending ==
    ASSUME NEW old \in OrderStatus, NEW s \in SettlingStatus
    PROVE  applyOrderTransition(old, s) # "PENDING_PAYMENT"
BY DEF applyOrderTransition, OrderStatus, SettlingStatus, PaidOrBeyond

\* What an administrator's transition can lead from and to: never back to
\* waiting for payment, and from a sold order only on or to CANCELLED.
LEMMA AllowedTransitionsTyped ==
    ASSUME NEW old, NEW next, <<old, next>> \in allowedTransitions
    PROVE  /\ old \in OrderStatus /\ next \in OrderStatus
           /\ next # "PENDING_PAYMENT"
           /\ next \in Sold => old \in Sold \/ old = "PENDING_PAYMENT"
           /\ old \in Sold => next \in Sold \cup {"CANCELLED"}
BY DEF allowedTransitions, OrderStatus, Sold

\* The reading of a notification that the lemmas below share: the order of
\* the payment exists, and the transition leads to a status of orders.
LEMMA WebhookOrder ==
    ASSUME TypeOK, PaymentHasOrder, NEW i \in PaymentIds, payment[i] # NoRow
    PROVE  /\ payment[i] \in PaymentRow
           /\ payment[i].order \in Orders
           /\ payment[i].status \in PaymentStatus
           /\ order[payment[i].order] # NoRow
           /\ order[payment[i].order] \in OrderRow
           /\ order[payment[i].order].status \in OrderStatus
<1>1. payment[i] \in PaymentRow
  BY DEF TypeOK
<1>2. payment[i].order \in Orders /\ payment[i].status \in PaymentStatus
  BY <1>1 DEF PaymentRow
<1>3. order[payment[i].order] # NoRow
  BY DEF PaymentHasOrder
<1>4. order[payment[i].order] \in OrderRow
  BY <1>2, <1>3 DEF TypeOK
<1>5. QED
  BY <1>1, <1>2, <1>3, <1>4 DEF OrderRow

\* A notification that changes its payment, seen from both tables.
LEMMA WebhookEffect ==
    ASSUME IInv, NEW i \in PaymentIds, NEW id \in EventIds, NEW s \in PaymentStatus,
           HandleWebhook(i, id, s), ~ UNCHANGED payment
    PROVE  LET o == payment[i].order IN
           /\ payment[i] # NoRow
           /\ o \in Orders /\ order[o] # NoRow /\ order[o] \in OrderRow
           /\ payment[i].status # "PAID"
           /\ PaymentGets(i, s)
           /\ s = "PAID" => order[o].status # "CANCELLED" /\ order'[o].status = "PAID"
           /\ s \in {"EXPIRED", "FAILED"} => order'[o].status # "PENDING_PAYMENT"
<1> DEFINE o == payment[i].order
           next == applyOrderTransition(order[o].status, s)
<1>1. payment[i] # NoRow
  BY DEF HandleWebhook
<1>2. o \in Orders /\ order[o] # NoRow /\ order[o] \in OrderRow /\ order[o].status \in OrderStatus
  BY <1>1, WebhookOrder DEF IInv
<1>3. /\ applyWebhookStatus(payment[i].status, s, order[o].status)
      /\ PaymentGets(i, s)
      /\ \/ s \notin SettlingStatus
         \/ s \in SettlingStatus /\ MoveOrder(o, s, next)
  BY WebhookCases DEF IInv
<1>4. /\ payment[i].status # "PAID"
      /\ s = "PAID" => order[o].status # "CANCELLED"
  BY <1>3 DEF applyWebhookStatus
<1>5. s \in {"PAID", "EXPIRED", "FAILED"} => order'[o].status = next
  <2>1. SUFFICES ASSUME s \in SettlingStatus PROVE order'[o].status = next
    BY DEF SettlingStatus
  <2>2. next \in OrderStatus
    BY <1>2, <2>1, TransitionTyped
  <2>3. MoveOrder(o, s, next)
    BY <1>3, <2>1
  <2> HIDE DEF next, o
  <2>4. QED
    BY <1>2, <2>2, <2>3, MoveOrderEffect DEF IInv
<1>6. s = "PAID" => next = "PAID"
  BY <1>4 DEF applyOrderTransition
<1>7. s \in {"EXPIRED", "FAILED"} => next # "PENDING_PAYMENT"
  BY <1>2, TransitionLeavesPending DEF SettlingStatus
<1>8. QED
  BY <1>1, <1>2, <1>3, <1>4, <1>5, <1>6, <1>7

\* Every payment row keeps its order and provider; a new one is PENDING and
\* for an order that waits for payment; a paid one does not change; and a row
\* that settles does it together with its order.
LEMMA PaymentsAdvance ==
    ASSUME IInv, [Next]_vars, NEW i \in PaymentIds, payment'[i] # NoRow
    PROVE  \/ /\ payment[i] = NoRow
              /\ payment'[i].status = "PENDING"
              /\ payment'[i].order \in Orders
              /\ order[payment'[i].order] # NoRow
              /\ order[payment'[i].order].status = "PENDING_PAYMENT"
           \/ payment[i] # NoRow /\ payment'[i] = payment[i]
           \/ /\ payment[i] # NoRow /\ payment[i].status # "PAID"
              /\ payment'[i].order = payment[i].order
              /\ payment'[i].provider = payment[i].provider
              /\ \A j \in PaymentIds \ {i} : payment'[j] = payment[j]
              /\ payment'[i].status = "PAID" =>
                     /\ payment'[i].paidAt
                     /\ order[payment[i].order].status # "CANCELLED"
                     /\ order'[payment[i].order].status = "PAID"
              /\ payment'[i].status \in {"EXPIRED", "FAILED"} =>
                     order'[payment[i].order].status # "PENDING_PAYMENT"
<1>1. CASE UNCHANGED payment
  BY <1>1
<1>2. ASSUME NEW o \in Orders, NEW j \in PaymentIds, CreatePaymentForOrder(o, j)
      PROVE  \/ /\ payment[i] = NoRow
                /\ payment'[i].status = "PENDING"
                /\ payment'[i].order \in Orders
                /\ order[payment'[i].order] # NoRow
                /\ order[payment'[i].order].status = "PENDING_PAYMENT"
             \/ payment[i] # NoRow /\ payment'[i] = payment[i]
  <2>1. CASE i = j
    BY <1>2, <2>1 DEF CreatePaymentForOrder, IInv, TypeOK
  <2>2. CASE i # j
    BY <1>2, <2>2 DEF CreatePaymentForOrder, IInv, TypeOK
  <2>3. QED
    BY <2>1, <2>2
<1>3. ASSUME NEW j \in PaymentIds, NEW id \in EventIds, NEW s \in PaymentStatus,
             HandleWebhook(j, id, s), ~ UNCHANGED payment, i # j
      PROVE  payment[i] # NoRow /\ payment'[i] = payment[i]
  BY <1>3, WebhookEffect, PaymentGetsEffect DEF IInv
<1>4. ASSUME NEW id \in EventIds, NEW s \in PaymentStatus,
             HandleWebhook(i, id, s), ~ UNCHANGED payment
      PROVE  /\ payment[i] # NoRow /\ payment[i].status # "PAID"
             /\ payment'[i].order = payment[i].order
             /\ payment'[i].provider = payment[i].provider
             /\ \A j \in PaymentIds \ {i} : payment'[j] = payment[j]
             /\ payment'[i].status = "PAID" =>
                    /\ payment'[i].paidAt
                    /\ order[payment[i].order].status # "CANCELLED"
                    /\ order'[payment[i].order].status = "PAID"
             /\ payment'[i].status \in {"EXPIRED", "FAILED"} =>
                    order'[payment[i].order].status # "PENDING_PAYMENT"
  <2>1. /\ payment[i] # NoRow /\ payment[i].status # "PAID"
        /\ PaymentGets(i, s)
        /\ s = "PAID" => /\ order[payment[i].order].status # "CANCELLED"
                         /\ order'[payment[i].order].status = "PAID"
        /\ s \in {"EXPIRED", "FAILED"} => order'[payment[i].order].status # "PENDING_PAYMENT"
    BY <1>4, WebhookEffect
  <2>2. /\ \A j \in PaymentIds \ {i} : payment'[j] = payment[j]
        /\ payment'[i].status = s
        /\ payment'[i].order = payment[i].order
        /\ payment'[i].provider = payment[i].provider
        /\ s = "PAID" => payment'[i].paidAt
    BY <2>1, PaymentGetsEffect DEF IInv
  <2>3. QED
    BY <2>1, <2>2
<1>5. ASSUME NEW c \in Customers, NEW o \in Orders, Checkout(c, o) PROVE UNCHANGED payment
  BY <1>5 DEF Checkout
<1>6. ASSUME NEW o \in Orders, NEW next \in OrderStatus, UpdateOrderStatus(o, next)
      PROVE  UNCHANGED payment
  BY <1>6 DEF UpdateOrderStatus
<1>7. QED
  BY <1>1, <1>2, <1>3, <1>4, <1>5, <1>6, StepCases

\* Payment rows are never removed.
LEMMA PaymentStays ==
    ASSUME IInv, [Next]_vars, NEW i \in PaymentIds, payment[i] # NoRow
    PROVE  payment'[i] # NoRow
<1>1. ASSUME NEW o \in Orders, NEW j \in PaymentIds, CreatePaymentForOrder(o, j)
      PROVE  payment'[i] # NoRow
  BY <1>1 DEF CreatePaymentForOrder, IInv, TypeOK
<1>2. ASSUME NEW j \in PaymentIds, NEW id \in EventIds, NEW s \in PaymentStatus,
             HandleWebhook(j, id, s), ~ UNCHANGED payment
      PROVE  payment'[i] # NoRow
  BY <1>2, WebhookEffect, PaymentGetsEffect DEF IInv
<1>3. QED
  BY <1>1, <1>2, StepCases DEF Checkout, UpdateOrderStatus

\* An order row that was not there before was made by a checkout.
LEMMA NewOrder ==
    ASSUME IInv, [Next]_vars, NEW o \in Orders, order[o] = NoRow, order'[o] # NoRow
    PROVE  order'[o].status = "PENDING_PAYMENT" /\ ~order'[o].restored
<1> USE DEF IInv
<1>1. ASSUME NEW c \in Customers, NEW n \in Orders, Checkout(c, n)
      PROVE  order'[o].status = "PENDING_PAYMENT" /\ ~order'[o].restored
  BY <1>1 DEF Checkout, TypeOK
<1>2. ASSUME NEW n \in Orders, NEW next \in OrderStatus, UpdateOrderStatus(n, next)
      PROVE  FALSE
  BY <1>2, MoveOrderEffect DEF UpdateOrderStatus
<1>3. ASSUME NEW i \in PaymentIds, NEW id \in EventIds, NEW s \in PaymentStatus,
             HandleWebhook(i, id, s)
      PROVE  order'[o] = NoRow
  <2> DEFINE n == payment[i].order
             next == applyOrderTransition(order[n].status, s)
  <2>1. payment[i] # NoRow
    BY <1>3 DEF HandleWebhook
  <2>2. n \in Orders /\ order[n] # NoRow /\ order[n].status \in OrderStatus
    BY <2>1, WebhookOrder
  <2>3. CASE UNCHANGED order
    BY <2>3
  <2>4. CASE s \in SettlingStatus /\ MoveOrder(n, s, next)
    <3>1. next \in OrderStatus
      BY <2>2, <2>4, TransitionTyped
    <3> HIDE DEF next
    <3>2. QED
      BY <2>2, <2>4, <3>1, MoveOrderEffect
  <2>5. QED
    BY <1>3, <2>3, <2>4, WebhookCases
<1>4. QED
  BY <1>1, <1>2, <1>3, StepCases DEF CreatePaymentForOrder

\* What may happen to an order that exists: its row stays, it never comes
\* back to waiting for payment, a sold order is sold or cancelled afterwards,
\* and it is sold without holding its items only if it was so before or a
\* payment of it is being accepted.
LEMMA OrdersAdvance ==
    ASSUME IInv, [Next]_vars, NEW o \in Orders, order[o] # NoRow
    PROVE  /\ order'[o] # NoRow
           /\ order'[o].status = "PENDING_PAYMENT" => order'[o] = order[o]
           /\ order[o].status \in Sold => order'[o].status \in Sold \cup {"CANCELLED"}
           /\ order'[o].restored /\ order'[o].status \in Sold =>
                  \/ order[o].restored /\ order[o].status \in Sold
                  \/ \E i \in PaymentIds : /\ payment'[i] # NoRow
                                           /\ payment'[i].order = o
                                           /\ payment'[i].status = "PAID"
<1> USE DEF IInv
<1>1. CASE order'[o] = order[o]
  BY <1>1
<1>2. ASSUME NEW c \in Customers, NEW n \in Orders, Checkout(c, n)
      PROVE  order'[o] = order[o]
  BY <1>2 DEF Checkout, TypeOK
<1>3. order[o].status = "PENDING_PAYMENT" => ~order[o].restored
  BY DEF PendingHoldsStock
<1>4. ASSUME NEW n \in Orders, NEW next \in OrderStatus, UpdateOrderStatus(n, next), n = o
      PROVE  /\ order'[o] # NoRow
             /\ order'[o].status # "PENDING_PAYMENT"
             /\ order[o].status \in Sold => order'[o].status \in Sold \cup {"CANCELLED"}
             /\ order'[o].restored /\ order'[o].status \in Sold =>
                    order[o].restored /\ order[o].status \in Sold
  <2>1. /\ order'[o] # NoRow
        /\ order'[o].status = next
        /\ order'[o].restored =
              (order[o].restored \/ ReturnsStock(order[o].status, next, order[o].restored))
    BY <1>4, MoveOrderEffect DEF UpdateOrderStatus
  <2>2. <<order[o].status, next>> \in allowedTransitions
    BY <1>4 DEF UpdateOrderStatus
  <2>3. next \in Sold => ~ReturnsStock(order[o].status, next, order[o].restored)
    BY DEF ReturnsStock, Sold
  <2>4. QED
    BY <1>3, <2>1, <2>2, <2>3, AllowedTransitionsTyped
<1>5. ASSUME NEW n \in Orders, NEW next \in OrderStatus, UpdateOrderStatus(n, next), n # o
      PROVE  order'[o] = order[o]
  BY <1>5, MoveOrderEffect DEF UpdateOrderStatus
<1>6. ASSUME NEW i \in PaymentIds, NEW id \in EventIds, NEW s \in PaymentStatus,
             HandleWebhook(i, id, s), order'[o] # order[o]
      PROVE  /\ order'[o] # NoRow
             /\ order'[o].status # "PENDING_PAYMENT"
             /\ order[o].status \in Sold => order'[o].status \in Sold \cup {"CANCELLED"}
             /\ order'[o].restored /\ order'[o].status \in Sold =>
                    \/ order[o].restored /\ order[o].status \in Sold
                    \/ \E j \in PaymentIds : /\ payment'[j] # NoRow
                                             /\ payment'[j].order = o
                                             /\ payment'[j].status = "PAID"
  <2> DEFINE n == payment[i].order
             next == applyOrderTransition(order[n].status, s)
  <2>1. payment[i] # NoRow
    BY <1>6 DEF HandleWebhook
  <2>2. n \in Orders /\ order[n] # NoRow /\ order[n].status \in OrderStatus
    BY <2>1, WebhookOrder
  <2>3. PaymentGets(i, s) /\ s \in SettlingStatus /\ MoveOrder(n, s, next)
    BY <1>6, WebhookCases
  <2>4. next \in OrderStatus /\ next # "PENDING_PAYMENT"
    BY <2>2, <2>3, TransitionTyped, TransitionLeavesPending
  <2>5. /\ o = n
        /\ order'[n] # NoRow
        /\ order'[n].status = next
        /\ order'[n].restored =
              (order[n].restored \/ ReturnsStock(order[n].status, s, order[n].restored))
    <3> HIDE DEF next, n
    <3>1. QED
      BY <1>6, <2>2, <2>3, <2>4, MoveOrderEffect
  <2>6. order[o].status \in Sold => next \in Sold \cup {"CANCELLED"}
    BY <2>3, <2>5 DEF applyOrderTransition, Sold, OrderStatus, PaidOrBeyond, SettlingStatus
  <2>7. CASE s = "PAID"
    <3>1. payment'[i] # NoRow /\ payment'[i].order = o /\ payment'[i].status = "PAID"
      BY <2>1, <2>3, <2>5, <2>7, PaymentGetsEffect
    <3>2. QED
      BY <2>4, <2>5, <2>6, <3>1
  <2>8. CASE s # "PAID"
    <3>1. next \in Sold => next = order[o].status
      BY <2>3, <2>5, <2>8 DEF applyOrderTransition, Sold, SettlingStatus
    <3>2. order[o].status \in Sold => ~ReturnsStock(order[o].status, s, order[o].restored)
      BY DEF ReturnsStock, Sold
    <3>3. QED
      BY <2>4, <2>5, <2>6, <3>1, <3>2
  <2>9. QED
    BY <2>7, <2>8
<1>7. ASSUME NEW n \in Orders, NEW i \in PaymentIds, CreatePaymentForOrder(n, i)
      PROVE  order'[o] = order[o]
  BY <1>7 DEF CreatePaymentForOrder
<1>8. QED
  <2>1. CASE order'[o] # order[o]
    BY <1>2, <1>4, <1>5, <1>6, <1>7, <2>1, StepCases
  <2>2. QED
    BY <1>1, <2>1

-----------------------------------------------------------------------------
(***************************************************************************)
(* Every part of the invariant is preserved.                               *)
(***************************************************************************)

\* No request removes an order that a payment belongs to.
LEMMA PaymentHasOrderStep ==
    ASSUME IInv, [Next]_vars PROVE PaymentHasOrder'
<1> SUFFICES ASSUME NEW i \in PaymentIds, payment'[i] # NoRow
             PROVE  order'[payment'[i].order] # NoRow
  BY DEF PaymentHasOrder
<1>1. payment[i] = NoRow =>
          payment'[i].order \in Orders /\ order[payment'[i].order] # NoRow
  BY PaymentsAdvance
<1>2. payment[i] # NoRow =>
          /\ payment'[i].order = payment[i].order
          /\ payment[i].order \in Orders
          /\ order[payment[i].order] # NoRow
  BY PaymentsAdvance, WebhookOrder DEF IInv
<1>3. QED
  BY <1>1, <1>2, OrdersAdvance

\* An order that waits for payment was never released.
LEMMA PendingHoldsStockStep ==
    ASSUME IInv, [Next]_vars PROVE PendingHoldsStock'
<1> SUFFICES ASSUME NEW o \in Orders, order'[o] # NoRow,
                    order'[o].status = "PENDING_PAYMENT"
             PROVE  ~order'[o].restored
  BY DEF PendingHoldsStock
<1>1. CASE order[o] = NoRow
  BY <1>1, NewOrder
<1>2. CASE order[o] # NoRow
  BY <1>2, OrdersAdvance DEF IInv, PendingHoldsStock
<1>3. QED
  BY <1>1, <1>2

\* A notification that settles a payment closes the order, and no request
\* opens it again.
LEMMA SettledPaymentClosesOrderStep ==
    ASSUME IInv, [Next]_vars PROVE SettledPaymentClosesOrder'
<1> SUFFICES ASSUME NEW i \in PaymentIds, payment'[i] # NoRow,
                    payment'[i].status \in {"PAID", "EXPIRED", "FAILED"}
             PROVE  order'[payment'[i].order].status # "PENDING_PAYMENT"
  BY DEF SettledPaymentClosesOrder
<1>1. payment[i] # NoRow
  BY PaymentsAdvance
<1>2. CASE payment'[i] = payment[i]
  <2>1. /\ payment[i].order \in Orders
        /\ order[payment[i].order] # NoRow
        /\ order[payment[i].order].status # "PENDING_PAYMENT"
    BY <1>1, <1>2, WebhookOrder DEF IInv, SettledPaymentClosesOrder
  <2>2. QED
    BY <1>2, <2>1, OrdersAdvance
<1>3. CASE payment'[i] # payment[i]
  BY <1>1, <1>3, PaymentsAdvance
<1>4. QED
  BY <1>2, <1>3

\* What is paid has its paid_at.
LEMMA PaidIsDatedStep ==
    ASSUME IInv, [Next]_vars PROVE PaidIsDated'
BY PaymentsAdvance DEF IInv, PaidIsDated

\* While rows keep what they are looked for by, and none is new, the first ones
\* stay first.
LEMMA FirstsStayLed ==
    ASSUME FirstHasLed, led' = led,
           \A j \in PaymentIds : payment'[j] # NoRow <=> payment[j] # NoRow,
           \A j \in PaymentIds : payment[j] # NoRow =>
               /\ payment'[j].provider = payment[j].provider
               /\ payment'[j].order = payment[j].order
    PROVE  FirstHasLed'
<1> SUFFICES ASSUME NEW i \in PaymentIds, FirstByReference(i)'
             PROVE  i \in led'
  BY DEF FirstHasLed, FirstPayments
<1>1. FirstByReference(i)
  BY DEF FirstByReference, SameReference
<1>2. QED
  BY <1>1 DEF FirstHasLed, FirstPayments

\* The first row of a reference now was so before or has become so by the
\* request that made a payment, which is then counted.
LEMMA FirstHasLedStep ==
    ASSUME IInv, [Next]_vars PROVE FirstHasLed'
<1>1. ASSUME NEW o \in Orders, NEW j \in PaymentIds, CreatePaymentForOrder(o, j)
      PROVE  FirstHasLed'
  BY <1>1 DEF CreatePaymentForOrder, FirstHasLed
<1>2. ASSUME NEW provider \in Providers, Restart(provider)
      PROVE  FirstHasLed'
  BY <1>2 DEF Restart, FirstHasLed, FirstPayments, FirstByReference, SameReference
<1>3. \A j \in PaymentIds : payment[j] # NoRow =>
          /\ payment'[j] # NoRow
          /\ payment'[j].provider = payment[j].provider
          /\ payment'[j].order = payment[j].order
  BY PaymentStays, PaymentsAdvance
<1>4. ASSUME NEW j \in PaymentIds, NEW id \in EventIds, NEW s \in PaymentStatus,
             HandleWebhook(j, id, s)
      PROVE  FirstHasLed'
  <2>1. \A k \in PaymentIds : payment'[k] # NoRow => payment[k] # NoRow
    <3>1. CASE UNCHANGED payment
      BY <3>1
    <3>2. CASE ~ UNCHANGED payment
      <4>1. payment[j] # NoRow
        BY <1>4 DEF HandleWebhook
      <4>2. \A k \in PaymentIds \ {j} : payment'[k] = payment[k]
        BY <1>4, <3>2, <4>1, WebhookEffect, PaymentGetsEffect DEF IInv
      <4>3. QED
        BY <4>1, <4>2
    <3>3. QED
      BY <3>1, <3>2
  <2>2. led' = led
    BY <1>4 DEF HandleWebhook
  <2>3. QED
    BY <1>3, <2>1, <2>2, FirstsStayLed DEF IInv
<1>5. ASSUME UNCHANGED payment, led' = led PROVE FirstHasLed'
  BY <1>5, FirstsStayLed DEF IInv
<1>6. QED
  BY <1>1, <1>2, <1>4, <1>5
     DEF Next, AdminStep, CustomerStep, ProviderStep, vars, observed, SetStock, SetActive,
         DeleteProduct, UpdateProduct, AddItem, UpdateItem, RemoveItem, Clear,
         Checkout, UpdateOrderStatus

\* Only a notification of payment sells an order that was released.
LEMMA ReopenedOrderIsPaidStep ==
    ASSUME IInv, [Next]_vars PROVE ReopenedOrderIsPaid'
<1> SUFFICES ASSUME NEW o \in Orders, order'[o] # NoRow,
                    order'[o].restored, order'[o].status \in Sold
             PROVE  \E i \in PaymentIds : /\ payment'[i] # NoRow
                                          /\ payment'[i].order = o
                                          /\ payment'[i].status = "PAID"
  BY DEF ReopenedOrderIsPaid
<1>1. order[o] # NoRow
  BY NewOrder
<1>2. CASE order[o].restored /\ order[o].status \in Sold
  <2>1. PICK i \in PaymentIds : /\ payment[i] # NoRow
                                /\ payment[i].order = o
                                /\ payment[i].status = "PAID"
    BY <1>1, <1>2 DEF IInv, ReopenedOrderIsPaid
  <2>2. payment'[i] # NoRow
    BY <2>1, PaymentStays
  <2>3. payment'[i] = payment[i]
    BY <2>1, <2>2, PaymentsAdvance
  <2>4. QED
    BY <2>1, <2>2, <2>3
<1>3. QED
  BY <1>1, <1>2, OrdersAdvance

\* The action properties, step by step.
LEMMA PaidPaymentStep ==
    ASSUME IInv, [Next]_vars, NEW i \in PaymentIds,
           payment[i] # NoRow, payment[i].status = "PAID"
    PROVE  payment'[i] = payment[i] /\ payment[i].paidAt
<1>1. payment'[i] # NoRow
  BY PaymentStays
<1>2. QED
  BY <1>1, PaymentsAdvance DEF IInv, PaidIsDated

LEMMA AcceptedMoneyStep ==
    ASSUME IInv, [Next]_vars, NEW i \in PaymentIds,
           payment[i] # NoRow, payment[i].status # "PAID", payment'[i].status = "PAID"
    PROVE  /\ order[payment[i].order].status # "CANCELLED"
           /\ order'[payment[i].order].status = "PAID"
<1>1. payment'[i] # NoRow
  BY PaymentStays
<1>2. QED
  BY <1>1, PaymentsAdvance

-----------------------------------------------------------------------------
(***************************************************************************)
(* Theorems.                                                               *)
(***************************************************************************)

\* The empty tables satisfy the invariant.
LEMMA InvInit == Init => IInv
<1> SUFFICES ASSUME Init PROVE IInv
  OBVIOUS
<1>1. TypeOK
  BY TypeInit
<1>2. FirstHasLed
  BY DEF Init, FirstHasLed, FirstPayments, FirstByReference
<1>3. QED
  BY <1>1, <1>2 DEF Init, IInv, PaymentHasOrder, PendingHoldsStock,
     SettledPaymentClosesOrder, PaidIsDated, ReopenedOrderIsPaid

\* Every request preserves it.
LEMMA InvStep ==
    ASSUME IInv, [Next]_vars
    PROVE  IInv'
<1>1. TypeOK'
  BY TypeStep DEF IInv
<1>2. QED
  BY <1>1, PaymentHasOrderStep, PendingHoldsStockStep, SettledPaymentClosesOrderStep,
     PaidIsDatedStep, FirstHasLedStep, ReopenedOrderIsPaidStep DEF IInv

\* The invariant holds in every state of the store.
THEOREM Invariance == Spec => []IInv
<1>1. Init => IInv
  BY InvInit
<1>2. IInv /\ [Next]_vars => IInv'
  BY InvStep
<1>3. QED
  BY <1>1, <1>2, PTL DEF Spec

\* The tables hold rows of their types; in particular checkout, concurrent
\* restorations and the administrator's writes never make a stock negative.
THEOREM TypeCorrect == Spec => []TypeOK
<1>1. IInv => TypeOK
  BY DEF IInv
<1>2. QED
  BY <1>1, Invariance, PTL

\* An order waits for payment only while none of its payments was settled,
\* whatever the order of notifications, administration and second payments.
THEOREM SettledPaymentsCloseOrders == Spec => []SettledPaymentClosesOrder
<1>1. IInv => SettledPaymentClosesOrder
  BY DEF IInv
<1>2. QED
  BY <1>1, Invariance, PTL

\* An order that gave its stock back is sold only against a paid payment.
THEOREM ReopenedOrdersArePaid == Spec => []ReopenedOrderIsPaid
<1>1. IInv => ReopenedOrderIsPaid
  BY DEF IInv
<1>2. QED
  BY <1>1, Invariance, PTL

\* A late or repeated notification never changes a paid payment.
THEOREM PaidPaymentsFinal == Spec => PaidPaymentFinal
<1> DEFINE Step == \A i \in PaymentIds :
                      (payment[i] # NoRow /\ payment[i].status = "PAID")
                      => payment'[i] = payment[i] /\ payment[i].paidAt
<1>1. IInv /\ [Next]_vars => [Step]_vars
  BY PaidPaymentStep
<1>2. QED
  BY <1>1, Invariance, PTL DEF Spec, PaidPaymentFinal

\* Money is accepted for an order exactly with that order becoming paid, and
\* not for one that is cancelled.
THEOREM AcceptedMoneyMarksOrdersPaid == Spec => AcceptedMoneyMarksOrderPaid
<1> DEFINE Step == \A i \in PaymentIds :
                      (/\ payment[i] # NoRow
                       /\ payment[i].status # "PAID"
                       /\ payment'[i].status = "PAID")
                      => /\ order[payment[i].order].status # "CANCELLED"
                         /\ order'[payment[i].order].status = "PAID"
<1>1. IInv /\ [Next]_vars => [Step]_vars
  BY AcceptedMoneyStep
<1>2. QED
  BY <1>1, Invariance, PTL DEF Spec, AcceptedMoneyMarksOrderPaid

\* A sold order stays sold until an administrator cancels it.
THEOREM LateFailuresNeverUndoPaid == Spec => LateFailureNeverUndoesPaid
<1> DEFINE Step == \A o \in Orders :
                      (order[o] # NoRow /\ order[o].status \in Sold)
                      => order'[o].status \in Sold \cup {"CANCELLED"}
<1>1. IInv /\ [Next]_vars => [Step]_vars
  BY OrdersAdvance
<1>2. QED
  BY <1>1, Invariance, PTL DEF Spec, LateFailureNeverUndoesPaid

-----------------------------------------------------------------------------
(***************************************************************************)
(* Stock is conserved.                                                     *)
(***************************************************************************)

\* An order keeps the sum of stock and what it holds of product p, or the
\* product may be one that gets nothing.
Conserved(o, p) ==
    \/ stock'[p] + HeldBy(o)'[p] = stock[p] + HeldBy(o)[p]
    \/ p \in deleted \cup revived[o] /\ stock'[p] = stock[p]

\* Moving an order changes no other order, and what the order gives up the
\* stock gets back.
LEMMA MoveOrderConserves ==
    ASSUME TypeOK, NEW o \in Orders, order[o] # NoRow, NEW trigger,
           NEW next \in OrderStatus, MoveOrder(o, trigger, next),
           NEW moved \in Orders, order'[moved] # order[moved], NEW p \in Products
    PROVE  Conserved(moved, p)
<1> DEFINE returns == ReturnsStock(order[o].status, trigger, order[o].restored)
<1>1. /\ moved = o
      /\ order'[o] # NoRow
      /\ order'[o].restored = (order[o].restored \/ returns)
      /\ order'[o].items = order[o].items
  BY MoveOrderEffect
<1>2. stock[p] \in Nat /\ order[o].items[p] \in Nat
  BY DEF TypeOK, OrderRow, Quantities
<1>3. CASE ~returns
  <2>1. stock' = stock
    BY <1>3 DEF MoveOrder
  <2>2. order'[o].restored <=> order[o].restored
    BY <1>1, <1>3
  <2>3. HeldBy(o)' = HeldBy(o)
    BY <1>1, <2>2 DEF HeldBy, EmptyCart
  <2>4. QED
    BY <1>1, <2>1, <2>3 DEF Conserved
<1>4. CASE returns
  <2>1. ~order[o].restored /\ order'[o].restored
    BY <1>1, <1>4 DEF ReturnsStock
  <2>2. HeldBy(o)[p] = order[o].items[p] /\ HeldBy(o)'[p] = 0
    BY <1>1, <2>1 DEF HeldBy, EmptyCart
  <2>3. PICK missed \in SUBSET revived[o] : stock' = StockWithItemsOf(o, missed)
    BY <1>4 DEF MoveOrder
  <2>4. stock'[p] = IF p \in deleted \cup missed THEN stock[p] ELSE stock[p] + order[o].items[p]
    BY <2>3 DEF StockWithItemsOf
  <2>5. CASE p \in deleted \cup missed
    BY <1>1, <2>3, <2>4, <2>5 DEF Conserved
  <2>6. CASE p \notin deleted \cup missed
    BY <1>1, <1>2, <2>2, <2>4, <2>6 DEF Conserved
  <2>7. QED
    BY <2>5, <2>6
<1>5. QED
  BY <1>3, <1>4

\* A step changes what an order holds and the stock by the same.
LEMMA OrderConserves ==
    ASSUME IInv, [Next]_vars, NEW o \in Orders, order'[o] # order[o],
           NEW p \in Products
    PROVE  Conserved(o, p)
<1>1. ASSUME NEW c \in Customers, NEW placed \in Orders, Checkout(c, placed)
      PROVE  Conserved(o, p)
  <2>1. placed = o /\ order[o] = NoRow
    BY <1>1 DEF Checkout, IInv, TypeOK
  <2>2. order'[o] = [status |-> "PENDING_PAYMENT", restored |-> FALSE, items |-> cart[c]]
    BY <1>1, <2>1 DEF Checkout, IInv, TypeOK
  <2>3. order'[o] # NoRow
    <3>1. order'[o] \in OrderRow
      BY <2>2 DEF IInv, TypeOK, OrderRow, OrderStatus
    <3>2. QED
      BY <3>1, NoRowAssumption
  <2>4. HeldBy(o)[p] = 0 /\ HeldBy(o)'[p] = cart[c][p]
    BY <2>1, <2>2, <2>3 DEF HeldBy, EmptyCart
  <2>5. stock'[p] = stock[p] - cart[c][p]
    BY <1>1 DEF Checkout
  <2>6. stock[p] \in Nat /\ cart[c][p] \in Nat
    BY DEF IInv, TypeOK, Quantities
  <2>7. QED
    BY <2>4, <2>5, <2>6 DEF Conserved
<1>2. ASSUME NEW moved \in Orders, NEW next \in OrderStatus,
             UpdateOrderStatus(moved, next)
      PROVE  Conserved(o, p)
  BY <1>2, MoveOrderConserves DEF UpdateOrderStatus, IInv
<1>3. ASSUME NEW i \in PaymentIds, NEW id \in EventIds, NEW s \in PaymentStatus,
             HandleWebhook(i, id, s)
      PROVE  Conserved(o, p)
  <2> DEFINE moved == payment[i].order
             next == applyOrderTransition(order[moved].status, s)
  <2>1. payment[i] # NoRow
    BY <1>3 DEF HandleWebhook
  <2>2. moved \in Orders /\ order[moved] # NoRow /\ order[moved].status \in OrderStatus
    BY <2>1, WebhookOrder DEF IInv
  <2>3. s \in SettlingStatus /\ MoveOrder(moved, s, next)
    BY <1>3, WebhookCases DEF IInv
  <2>4. next \in OrderStatus
    BY <2>2, <2>3, TransitionTyped
  <2> HIDE DEF moved, next
  <2>5. QED
    BY <2>2, <2>3, <2>4, MoveOrderConserves DEF IInv
<1>4. QED
  BY <1>1, <1>2, <1>3, StepCases DEF CreatePaymentForOrder

\* Checkout takes what the order holds, and whoever releases an order gives
\* that back, once: of a product that is deleted, or was while a request may
\* have held the order, all or nothing.
THEOREM StockConserved == Spec => StockConservation
<1> DEFINE Step == \A o \in Orders : order'[o] # order[o] =>
                      \A p \in Products :
                          \/ stock'[p] + HeldBy(o)'[p] = stock[p] + HeldBy(o)[p]
                          \/ p \in deleted \cup revived[o] /\ stock'[p] = stock[p]
<1>1. IInv /\ [Next]_vars => [Step]_vars
  BY OrderConserves DEF Conserved
<1>2. QED
  BY <1>1, Invariance, PTL DEF Spec, StockConservation

-----------------------------------------------------------------------------
(***************************************************************************)
(* The store implements the ledger of stock.                               *)
(***************************************************************************)

\* The refinement mapping: what the orders hold, and which are placed.
HoldsMap == [o \in Orders |-> HeldBy(o)]
PlacedMap == {o \in Orders : order[o] # NoRow}

\* The mapping gives quantities for every order.
LEMMA HoldsMapTyped == TypeOK => HoldsMap \in [Orders -> Quantities]
BY DEF TypeOK, HoldsMap, HeldBy, OrderRow, EmptyCart, Quantities

\* A checkout takes the items of a new order, all of them.
LEMMA CheckoutTakes ==
    ASSUME IInv, IInv', NEW c \in Customers, NEW o \in Orders, Checkout(c, o)
    PROVE  Ledger!Take(o)
<1>1. \A other \in Orders \ {o} : order'[other] = order[other]
  BY DEF Checkout, IInv, TypeOK
<1>2. order'[o] = [status |-> "PENDING_PAYMENT", restored |-> FALSE, items |-> cart[c]]
  BY DEF Checkout, IInv, TypeOK
<1>3. order[o] = NoRow /\ order'[o] # NoRow
  <2>1. order'[o] \in OrderRow
    BY <1>2 DEF IInv, TypeOK, OrderRow, OrderStatus
  <2>2. QED
    BY <2>1, NoRowAssumption DEF Checkout
<1>4. HoldsMap'[o] = cart[c] /\ \A other \in Orders \ {o} : HoldsMap'[other] = HoldsMap[other]
  BY <1>1, <1>2, <1>3 DEF HoldsMap, HeldBy
<1>5. PlacedMap' = PlacedMap \cup {o} /\ o \notin PlacedMap
  BY <1>1, <1>3 DEF PlacedMap
<1>6. HoldsMap' \in [Orders -> Quantities]
  <2>1. TypeOK'
    BY DEF IInv
  <2>2. QED
    BY <2>1, HoldsMapTyped DEF HoldsMap, HeldBy, TypeOK, OrderRow, EmptyCart, Quantities
<1>7. \A p \in Products : /\ cart[c][p] <= stock[p]
                          /\ cart[c][p] > 0 => p \notin deleted
  <2> SUFFICES ASSUME NEW p \in Products
               PROVE  cart[c][p] <= stock[p] /\ (cart[c][p] > 0 => p \notin deleted)
    OBVIOUS
  <2>1. cart[c][p] \in Nat /\ stock[p] \in Nat
    BY DEF IInv, TypeOK, Quantities
  <2>2. QED
    BY <2>1 DEF Checkout, Orderable
<1>8. stock' = [p \in Products |-> stock[p] - HoldsMap'[o][p]]
  BY <1>4 DEF Checkout
<1>9. QED
  BY <1>4, <1>5, <1>6, <1>7, <1>8
     DEF Ledger!Take, Ledger!Quantities, Quantities, HoldsMap, HeldBy, PlacedMap, Checkout, observed

\* Moving an order gives its items back or leaves what the ledger counts
\* alone; in any case the order is heard of.
LEMMA MoveOrderGivesBack ==
    ASSUME IInv, NEW o \in Orders, order[o] # NoRow, NEW trigger,
           NEW next \in OrderStatus, MoveOrder(o, trigger, next), Forget(o),
           UNCHANGED deleted
    PROVE  Ledger!Next
<1> DEFINE returns == ReturnsStock(order[o].status, trigger, order[o].restored)
<1>1. /\ \A other \in Orders \ {o} : order'[other] = order[other]
      /\ order'[o] # NoRow
      /\ order'[o].restored = (order[o].restored \/ returns)
      /\ order'[o].items = order[o].items
  BY MoveOrderEffect DEF IInv
<1>2. PlacedMap' = PlacedMap
  BY <1>1 DEF PlacedMap
<1>3. Ledger!Hear({o})
  BY <1>2 DEF Ledger!Hear, Forget, IInv, TypeOK, PlacedMap
<1>4. CASE ~returns
  <2>1. order'[o].restored <=> order[o].restored
    BY <1>1, <1>4
  <2>2. HoldsMap' = HoldsMap
    BY <1>1, <2>1 DEF HoldsMap, HeldBy
  <2>3. stock' = stock
    BY <1>4 DEF MoveOrder
  <2>4. Ledger!Keep({o})
    BY <1>3, <2>2, <2>3 DEF Ledger!Keep, HoldsMap, HeldBy
  <2>5. QED
    BY <2>4 DEF Ledger!Next
<1>5. CASE returns
  <2>1. ~order[o].restored
    BY <1>5 DEF ReturnsStock
  <2>2. order'[o].restored
    BY <1>1, <1>5
  <2>3. HoldsMap[o] = order[o].items
    BY <2>1 DEF HoldsMap, HeldBy
  <2>4. HoldsMap' = [HoldsMap EXCEPT ![o] = EmptyCart]
    BY <1>1, <2>2 DEF HoldsMap, HeldBy
  <2>5. \E lost \in SUBSET revived[o] :
            stock' = [p \in Products |-> IF p \in deleted \cup lost
                                         THEN stock[p] ELSE stock[p] + HoldsMap[o][p]]
    BY <1>5, <2>3 DEF MoveOrder, StockWithItemsOf
  <2>6. Ledger!GiveBack(o)
    BY <1>3, <2>4, <2>5 DEF Ledger!GiveBack, Ledger!Nothing, HoldsMap, HeldBy, EmptyCart
  <2>7. QED
    BY <2>6 DEF Ledger!Next
<1>6. QED
  BY <1>4, <1>5

\* A request that touches neither orders nor stock nor deleted_at is nothing
\* to the ledger, or lets it hear of an order.
LEMMA LedgerStutters ==
    ASSUME UNCHANGED <<stock, deleted, revived, order>>
    PROVE  UNCHANGED Ledger!ledger
BY DEF Ledger!ledger, HeldBy

LEMMA LedgerHears ==
    ASSUME TypeOK, UNCHANGED <<stock, deleted, order>>,
           NEW heard \in SUBSET Orders,
           revived' = [o \in Orders |-> IF o \in heard THEN {} ELSE revived[o]]
    PROVE  Ledger!Next
<1>1. Ledger!Keep(heard)
  BY DEF Ledger!Keep, Ledger!Hear, HeldBy
<1>2. QED
  BY <1>1 DEF Ledger!Next

LEMMA LedgerForgets ==
    ASSUME TypeOK, UNCHANGED <<stock, deleted, order>>, NEW o \in Orders, Forget(o)
    PROVE  Ledger!Next
<1>1. revived' = [other \in Orders |-> IF other \in {o} THEN {} ELSE revived[other]]
  BY DEF Forget, TypeOK
<1>2. QED
  BY <1>1, LedgerHears

\* Writing the stock of product p, by SetStock or by Update, is a count.
LEMMA WritesCount ==
    ASSUME TypeOK', NEW p \in Products, UNCHANGED order, deleted' = deleted \ {p},
           \A other \in Products \ {p} : stock'[other] = stock[other],
           revived' = [o \in Orders |->
                          revived[o] \cup {q \in {p} \cap deleted : order[o] # NoRow}]
    PROVE  Ledger!Count(p)
BY DEF Ledger!Count, Ledger!Quantities, TypeOK, Quantities, HeldBy

\* Every request of the store is a step of the ledger or nothing to it.
LEMMA LedgerStep ==
    ASSUME IInv, IInv', [Next]_vars
    PROVE  [Ledger!Next]_(Ledger!ledger)
<1>1. ASSUME NEW p \in Products, NEW n \in 0 .. MaxStock, SetStock(p, n)
      PROVE  Ledger!Next
  <2>1. /\ UNCHANGED order
        /\ deleted' = deleted \ {p}
        /\ \A other \in Products \ {p} : stock'[other] = stock[other]
    BY <1>1 DEF SetStock, IInv, TypeOK, Quantities
  <2>2. revived' = [o \in Orders |->
                       revived[o] \cup {q \in {p} \cap deleted : order[o] # NoRow}]
    BY <1>1 DEF SetStock, observed, IInv, TypeOK
  <2>3. QED
    BY <2>1, <2>2, WritesCount DEF IInv, Ledger!Next
<1>2. ASSUME NEW p \in Products, NEW n \in 0 .. MaxStock, NEW wasActive \in BOOLEAN,
             UpdateProduct(p, n, wasActive)
      PROVE  Ledger!Next
  <2>1. /\ UNCHANGED order
        /\ deleted' = deleted \ {p}
        /\ \A other \in Products \ {p} : stock'[other] = stock[other]
    BY <1>2 DEF UpdateProduct, IInv, TypeOK, Quantities
  <2>2. QED
    BY <1>2, <2>1, WritesCount DEF UpdateProduct, IInv, Ledger!Next
<1>3. ASSUME NEW p \in Products, DeleteProduct(p)
      PROVE  Ledger!Next
  <2>1. Ledger!Withdraw(p)
    BY <1>3 DEF DeleteProduct, observed, Ledger!Withdraw, HeldBy
  <2>2. QED
    BY <2>1 DEF Ledger!Next
<1>4. ASSUME NEW c \in Customers, NEW o \in Orders, Checkout(c, o)
      PROVE  Ledger!Next
  BY <1>4, CheckoutTakes DEF Ledger!Next
<1>5. ASSUME NEW o \in Orders, NEW next \in OrderStatus, UpdateOrderStatus(o, next)
      PROVE  Ledger!Next
  BY <1>5, MoveOrderGivesBack DEF UpdateOrderStatus
<1>6. ASSUME NEW i \in PaymentIds, NEW id \in EventIds, NEW s \in PaymentStatus,
             HandleWebhook(i, id, s)
      PROVE  Ledger!Next
  <2> DEFINE o == payment[i].order
             next == applyOrderTransition(order[o].status, s)
  <2>1. payment[i] # NoRow /\ UNCHANGED deleted /\ Forget(o)
    BY <1>6 DEF HandleWebhook
  <2>2. o \in Orders /\ order[o] # NoRow /\ order[o].status \in OrderStatus
    BY <2>1, WebhookOrder DEF IInv
  <2>3. CASE UNCHANGED <<stock, order>>
    BY <2>1, <2>2, <2>3, LedgerForgets DEF IInv
  <2>4. CASE s \in SettlingStatus /\ MoveOrder(o, s, next)
    <3>1. next \in OrderStatus
      BY <2>2, <2>4, TransitionTyped
    <3> HIDE DEF next, o
    <3>2. QED
      BY <2>1, <2>2, <2>4, <3>1, MoveOrderGivesBack
  <2>5. QED
    BY <1>6, <2>3, <2>4, WebhookCases DEF IInv
<1>7. ASSUME NEW o \in Orders, NEW i \in PaymentIds, CreatePaymentForOrder(o, i)
      PROVE  Ledger!Next
  BY <1>7, LedgerForgets DEF CreatePaymentForOrder, catalog, IInv
<1>8. ASSUME NEW provider \in Providers, Restart(provider)
      PROVE  Ledger!Next
  BY <1>8, LedgerHears DEF Restart, catalog, IInv
<1>9. ASSUME UNCHANGED <<stock, deleted, revived, order>>
      PROVE  UNCHANGED Ledger!ledger
  BY <1>9, LedgerStutters
<1>10. QED
  BY <1>1, <1>2, <1>3, <1>4, <1>5, <1>6, <1>7, <1>8, <1>9
     DEF Next, AdminStep, CustomerStep, ProviderStep, vars, catalog, observed,
         SetActive, AddItem, UpdateItem, RemoveItem, Clear

\* The store keeps the promises of the ledger of stock: an order takes all
\* its items or none, gives them back at most once and entirely, and nothing
\* but an administrator's write changes a stock otherwise.
THEOREM StoreImplementsLedger == Spec => ImplementsLedger
<1>1. Init => Ledger!Init
  <2> SUFFICES ASSUME Init PROVE Ledger!Init
    OBVIOUS
  <2>1. stock \in Quantities
    BY TypeInit DEF TypeOK
  <2>2. QED
    BY <2>1 DEF Init, Ledger!Init, Ledger!Quantities, Quantities, Ledger!Nothing, EmptyCart, HeldBy
<1>2. IInv /\ IInv' /\ [Next]_vars => [Ledger!Next]_(Ledger!ledger)
  BY LedgerStep
<1>3. QED
  BY <1>1, <1>2, Invariance, PTL DEF Spec, ImplementsLedger, Ledger!Spec

-----------------------------------------------------------------------------
(***************************************************************************)
(* The store implements the promises about baskets.                        *)
(***************************************************************************)

\* What every order was made of, as CartLedger sees it.
ItemsPlaced == [o \in Orders |-> IF order[o] = NoRow THEN NoRow ELSE order[o].items]

\* Moving an order changes neither baskets nor what any order was made of.
LEMMA MoveKeepsItems ==
    ASSUME TypeOK, NEW o \in Orders, order[o] # NoRow,
           NEW trigger, NEW next \in OrderStatus, MoveOrder(o, trigger, next)
    PROVE  ItemsPlaced' = ItemsPlaced
<1>1. /\ \A other \in Orders \ {o} : order'[other] = order[other]
      /\ order'[o] # NoRow
      /\ order'[o].items = order[o].items
  BY MoveOrderEffect
<1>2. QED
  BY <1>1 DEF ItemsPlaced

\* A request of a customer about the cart is what CartLedger allows.
LEMMA CartRequestStep ==
    ASSUME TypeOK, NEW c \in Customers, NEW p \in Products, NEW q \in 1 .. MaxQty,
           AddItem(c, p, q) \/ UpdateItem(c, p, q)
    PROVE  Carts!Next
<1>1. q \in Nat /\ q > 0
  BY BoundsAssumption
<1>2. cart[c] \in [Products -> Nat] /\ cart[c][p] \in Nat
  BY DEF TypeOK, Quantities
<1>3. UNCHANGED ItemsPlaced
  BY DEF AddItem, UpdateItem, ItemsPlaced
<1>4. CASE AddItem(c, p, q)
  <2>1. cart' = [cart EXCEPT ![c][p] = cart[c][p] + q]
    BY <1>4 DEF AddItem
  <2>2. cart'[c][p] = cart[c][p] + q
    BY <1>2, <2>1 DEF TypeOK
  <2>3. cart'[c][p] > cart[c][p] /\ cart'[c][p] - cart[c][p] = q
    BY <1>1, <1>2, <2>2
  <2>4. Carts!Add(c, p, cart'[c][p] - cart[c][p])
    BY <1>3, <2>1, <2>3 DEF Carts!Add, ItemsPlaced
  <2>5. QED
    BY <2>3, <2>4 DEF Carts!Next
<1>5. CASE UpdateItem(c, p, q)
  <2>1. cart' = [cart EXCEPT ![c][p] = q] /\ cart[c][p] > 0
    BY <1>5 DEF UpdateItem
  <2>2. cart'[c][p] = q
    BY <1>2, <2>1 DEF TypeOK
  <2>3. Carts!Put(c, p, cart'[c][p])
    BY <1>3, <2>1, <2>2 DEF Carts!Put, ItemsPlaced
  <2>4. QED
    BY <1>1, <2>2, <2>3 DEF Carts!Next
<1>6. QED
  BY <1>4, <1>5

\* Every step of the store is one of CartLedger or changes nothing it sees.
LEMMA CartsStep ==
    ASSUME IInv, [Next]_vars
    PROVE  Carts!Next \/ UNCHANGED <<cart, ItemsPlaced>>
<1>1. TypeOK /\ PaymentHasOrder
  BY DEF IInv
<1>2. ASSUME UNCHANGED <<cart, order>>
      PROVE  UNCHANGED <<cart, ItemsPlaced>>
  BY <1>2 DEF ItemsPlaced
<1>3. ASSUME NEW o \in Orders, NEW next \in OrderStatus, UpdateOrderStatus(o, next)
      PROVE  UNCHANGED <<cart, ItemsPlaced>>
  BY <1>1, <1>3, MoveKeepsItems DEF UpdateOrderStatus
<1>4. ASSUME NEW c \in Customers, NEW p \in Products, NEW q \in 1 .. MaxQty,
             AddItem(c, p, q) \/ UpdateItem(c, p, q)
      PROVE  Carts!Next
  BY <1>1, <1>4, CartRequestStep
<1>5. ASSUME NEW c \in Customers, NEW p \in Products, RemoveItem(c, p)
      PROVE  Carts!Next
  BY <1>5 DEF RemoveItem, Carts!Next, Carts!Drop
<1>6. ASSUME NEW c \in Customers, Clear(c)
      PROVE  Carts!Next
  BY <1>6 DEF Clear, Carts!Next, Carts!Empty, Carts!NoItems, EmptyCart
<1>7. ASSUME NEW c \in Customers, NEW o \in Orders, Checkout(c, o)
      PROVE  Carts!Next
  <2> DEFINE row == [status |-> "PENDING_PAYMENT", restored |-> FALSE, items |-> cart[c]]
  <2>1. /\ order[o] = NoRow
        /\ cart[c] # EmptyCart
        /\ order' = [order EXCEPT ![o] = row]
        /\ cart' = [cart EXCEPT ![c] = EmptyCart]
    BY <1>7 DEF Checkout
  <2>2. row \in OrderRow
    BY <1>1 DEF TypeOK, OrderRow, OrderStatus
  <2>3. row # NoRow /\ row.items = cart[c]
    BY <2>2, NoRowAssumption
  <2>4. order'[o] = row /\ \A other \in Orders \ {o} : order'[other] = order[other]
    BY <1>1, <2>1 DEF TypeOK
  <2>5. ItemsPlaced' = [ItemsPlaced EXCEPT ![o] = cart[c]]
    BY <2>3, <2>4 DEF ItemsPlaced
  <2>6. ItemsPlaced[o] = NoRow
    BY <2>1 DEF ItemsPlaced
  <2>7. Carts!Order(c, o)
    BY <2>1, <2>5, <2>6 DEF Carts!Order, Carts!NoItems, EmptyCart, ItemsPlaced
  <2>8. QED
    BY <2>7 DEF Carts!Next
<1>8. ASSUME NEW i \in PaymentIds, NEW id \in EventIds, NEW s \in PaymentStatus,
             HandleWebhook(i, id, s)
      PROVE  UNCHANGED <<cart, ItemsPlaced>>
  <2> DEFINE o == payment[i].order
  <2>1. payment[i] # NoRow /\ UNCHANGED cart
    BY <1>8 DEF HandleWebhook
  <2>2. o \in Orders /\ order[o] # NoRow /\ order[o].status \in OrderStatus
    BY <1>1, <2>1, WebhookOrder
  <2>3. CASE UNCHANGED order
    BY <2>1, <2>3 DEF ItemsPlaced
  <2>4. CASE /\ s \in SettlingStatus
             /\ MoveOrder(o, s, applyOrderTransition(order[o].status, s))
    <3>1. applyOrderTransition(order[o].status, s) \in OrderStatus
      BY <2>2, <2>4, TransitionTyped
    <3>2. QED
      BY <1>1, <2>1, <2>2, <2>4, <3>1, MoveKeepsItems
  <2>5. QED
    BY <1>1, <1>8, <2>3, <2>4, WebhookCases
<1>9. QED
  BY <1>2, <1>3, <1>4, <1>5, <1>6, <1>7, <1>8
     DEF Next, AdminStep, CustomerStep, ProviderStep, vars,
         SetStock, SetActive, DeleteProduct, UpdateProduct, CreatePaymentForOrder, Restart

\* The store keeps the promises about baskets: what a customer asked for is
\* what an order is made of, all of it and once.
THEOREM StoreImplementsCarts == Spec => ImplementsCarts
<1>1. Init => Carts!Init
  BY DEF Init, Carts!Init, Carts!NoItems, EmptyCart
<1>2. IInv /\ IInv' /\ [Next]_vars => [Carts!Next]_<<cart, ItemsPlaced>>
  BY CartsStep
<1>3. QED
  BY <1>1, <1>2, Invariance, PTL DEF Spec, ImplementsCarts, Carts!Spec, ItemsPlaced
=============================================================================
