------------------------------- MODULE WebhookTx -------------------------------
(***************************************************************************)
(* The transactions of HandleWebhook, CreatePaymentForOrder and            *)
(* UpdateOrderStatus statement by statement, as PostgreSQL runs them at    *)
(* READ COMMITTED.  Rows read FOR UPDATE are locked until the transaction  *)
(* ends, an INSERT waits for another transaction that inserts the same     *)
(* unique key, and nothing written is seen before the commit.              *)
(*                                                                         *)
(* A session serves one request after another, so a provider may repeat a  *)
(* notification at any time, while the first one is still handled, too.    *)
(* The items an order gives back are added to the stock in the step that   *)
(* commits: StockTx has those statements.  Carts are filled and checked    *)
(* out by whole requests, and the catalogue stays as it is.                *)
(***************************************************************************)
EXTENDS Commerce

CONSTANTS
    Sessions,   \* database connections that serve requests
    Reported,   \* bound: the statuses providers report
    Asked       \* bound: the statuses administrators ask for

ASSUME RequestsAssumption == Reported \subseteq PaymentStatus /\ Asked \subseteq OrderStatus

VARIABLES
    pc,        \* the statement a session executes next
    request,   \* the request a session serves
    work       \* what its transaction has read

txvars == <<vars, pc, request, work>>

\* A notification names a payment by its reference, which stands for the
\* provider and the order.
Request ==
    [kind : {"webhook"}, provider : Providers, id : EventIds, order : Orders,
     status : Reported]
    \cup [kind : {"pay"}, order : Orders]
    \cup [kind : {"update"}, order : Orders, status : Asked]

\* found: the key of the payment the reference led to; pay, ord: the rows as
\* they were read.
Work ==
    [found : PaymentIds \cup {NoRow}, pay : PaymentRow \cup {NoRow},
     ord : OrderRow \cup {NoRow}]
NoWork == [found |-> NoRow, pay |-> NoRow, ord |-> NoRow]

-----------------------------------------------------------------------------
(***************************************************************************)
(* Locks and the ends of transactions.                                     *)
(***************************************************************************)

Running(s) == pc[s] # "idle"
Serves(s, kind) == Running(s) /\ request[s].kind = kind

HoldsEvent(s, provider, id) ==
    /\ Serves(s, "webhook")
    /\ request[s].provider = provider
    /\ request[s].id = id
    /\ pc[s] # "record"
HoldsPayment(s, i) ==
    Serves(s, "webhook") /\ pc[s] \in {"order", "commit"} /\ work[s].found = i

\* Mutant: a notification locks its order before its payment.
HoldsOrderFromLookup(s, o) ==
    pc[s] \in {"payment", "pending", "commit"} /\ request[s].order = o

HoldsOrder(s, o) == pc[s] \in {"pending", "commit"} /\ request[s].order = o

\* Mutants: a notification does not wait for one with the same identifier;
\* the payment, the order are read without FOR UPDATE.
EventFreeUnlocked(s, provider, id) == TRUE
PaymentFreeUnlocked(s, i) == TRUE
OrderFreeUnlocked(s, o) == TRUE

EventFree(s, provider, id) == \A t \in Sessions \ {s} : ~HoldsEvent(t, provider, id)
PaymentFree(s, i) == \A t \in Sessions \ {s} : ~HoldsPayment(t, i)
OrderFree(s, o) == \A t \in Sessions \ {s} : ~HoldsOrder(t, o)

\* The next statement of the transaction; its end, which releases its locks.
Goto(s, label) == pc' = [pc EXCEPT ![s] = label] /\ UNCHANGED request
End(s) ==
    /\ pc' = [pc EXCEPT ![s] = "idle"]
    /\ request' = [request EXCEPT ![s] = NoRow]
    /\ work' = [work EXCEPT ![s] = NoWork]

Rollback(s) == End(s) /\ UNCHANGED vars

Begin(s, r) ==
    /\ pc[s] = "idle"
    /\ pc' = [pc EXCEPT ![s] = IF r.kind = "webhook" THEN "record" ELSE "order"]
    /\ request' = [request EXCEPT ![s] = r]
    /\ UNCHANGED <<vars, work>>

-----------------------------------------------------------------------------
(***************************************************************************)
(* HandleWebhook.                                                          *)
(***************************************************************************)

\* The event row is inserted.  After a unique violation PostgreSQL refuses
\* the audit row as well, so the duplicate is rolled back.
RecordEvent(s) ==
    /\ pc[s] = "record"
    /\ EventFree(s, request[s].provider, request[s].id)
    /\ IF \E e \in event : e.provider = request[s].provider /\ e.id = request[s].id
       THEN Rollback(s)
       ELSE Goto(s, "find") /\ UNCHANGED <<vars, work>>

\* The row the query chooses, among the payments committed when it starts.
Chosen(s, i) ==
    /\ FirstByReference(i)
    /\ payment[i].provider = request[s].provider
    /\ payment[i].order = request[s].order

FindPayment(s) ==
    /\ pc[s] = "find"
    /\ \/ /\ \A i \in PaymentIds : ~Chosen(s, i)
          /\ Rollback(s)
       \/ \E i \in PaymentIds :
              /\ Chosen(s, i)
              /\ Goto(s, "payment")
              /\ work' = [work EXCEPT ![s].found = i]
              /\ UNCHANGED vars

\* The query waits for the row it chose and reads its newest version; it does
\* not look for another row that precedes it by then.
LockPayment(s) ==
    /\ pc[s] = "payment"
    /\ PaymentFree(s, work[s].found)
    /\ Goto(s, "order")
    /\ work' = [work EXCEPT ![s].pay = payment[work[s].found]]
    /\ UNCHANGED vars

LockOrderOfPayment(s) ==
    /\ Serves(s, "webhook")
    /\ pc[s] = "order"
    /\ OrderFree(s, request[s].order)
    /\ Goto(s, "commit")
    /\ work' = [work EXCEPT ![s].ord = order[request[s].order]]
    /\ UNCHANGED vars

\* The statements that write, and the commit.  They are decided by the rows
\* read before.
CommitWebhook(s) ==
    LET r       == request[s]
        o       == r.order
        i       == work[s].found
        ord     == work[s].ord
        changed == applyWebhookStatus(work[s].pay.status, r.status, ord.status)
        settles == changed /\ r.status \in SettlingStatus
        returns == settles /\ ReturnsStock(ord.status, r.status, ord.restored)
    IN  /\ Serves(s, "webhook")
        /\ pc[s] = "commit"
        /\ event' = event \cup
               {[provider |-> r.provider, id |-> r.id, order |-> o, status |-> r.status,
                 audit |-> IF changed THEN "PAYMENT_WEBHOOK"
                                      ELSE "PAYMENT_WEBHOOK_DUPLICATE"]}
        /\ payment' = IF changed
                      THEN [payment EXCEPT ![i].status = r.status,
                                           ![i].paidAt = @ \/ r.status = "PAID"]
                      ELSE payment
        /\ order' = IF settles
                    THEN [order EXCEPT ![o].status = applyOrderTransition(ord.status, r.status),
                                       ![o].restored = ord.restored \/ returns]
                    ELSE order
        /\ stock' = IF returns THEN StockWithItemsOf(o, {}) ELSE stock
        /\ Forget(o)
        /\ End(s)
        /\ UNCHANGED <<isActive, deleted, cart, selected, led>>

-----------------------------------------------------------------------------
(***************************************************************************)
(* CreatePaymentForOrder.                                                  *)
(***************************************************************************)

LockOrderToPay(s) ==
    LET o == request[s].order IN
    /\ Serves(s, "pay")
    /\ pc[s] = "order"
    /\ OrderFree(s, o)
    /\ IF order[o] # NoRow /\ order[o].status = "PENDING_PAYMENT"
       THEN Goto(s, "pending") /\ UNCHANGED <<vars, work>>
       ELSE Rollback(s)

\* A payment that is pending is returned, and nothing written.
FindPending(s) ==
    /\ pc[s] = "pending"
    /\ IF \E j \in PaymentIds : /\ payment[j] # NoRow
                                /\ payment[j].order = request[s].order
                                /\ payment[j].status = "PENDING"
       THEN Rollback(s)
       ELSE Goto(s, "commit") /\ UNCHANGED <<vars, work>>

CommitPayment(s, i) ==
    /\ Serves(s, "pay")
    /\ pc[s] = "commit"
    /\ payment[i] = NoRow
    /\ payment' = [payment EXCEPT ![i] =
           [provider |-> selected, order |-> request[s].order, status |-> "PENDING",
            paidAt |-> FALSE]]
    /\ led' = led \cup FirstPayments'
    /\ Forget(request[s].order)
    /\ End(s)
    /\ UNCHANGED <<catalog, cart, order, event, selected>>

-----------------------------------------------------------------------------
(***************************************************************************)
(* UpdateOrderStatus.                                                      *)
(***************************************************************************)

LockOrderToUpdate(s) ==
    LET o == request[s].order IN
    /\ Serves(s, "update")
    /\ pc[s] = "order"
    /\ OrderFree(s, o)
    /\ IF order[o] # NoRow /\ <<order[o].status, request[s].status>> \in allowedTransitions
       THEN /\ Goto(s, "commit")
            /\ work' = [work EXCEPT ![s].ord = order[o]]
            /\ UNCHANGED vars
       ELSE Rollback(s)

\* Save writes the whole row that was read, with its new status.
CommitUpdate(s) ==
    LET o       == request[s].order
        ord     == work[s].ord
        returns == ReturnsStock(ord.status, request[s].status, ord.restored)
    IN  /\ Serves(s, "update")
        /\ pc[s] = "commit"
        /\ order' = [order EXCEPT ![o] = [ord EXCEPT !.status = request[s].status,
                                                     !.restored = @ \/ returns]]
        /\ stock' = IF returns THEN StockWithItemsOf(o, {}) ELSE stock
        /\ Forget(o)
        /\ End(s)
        /\ UNCHANGED <<isActive, deleted, cart, payment, event, selected, led>>

-----------------------------------------------------------------------------
\* A statement fails, or the connection breaks.
Fail(s) == Running(s) /\ Rollback(s)

\* The server stops with all its transactions and is started again, perhaps
\* with another provider.
Crash(provider) ==
    /\ pc' = [s \in Sessions |-> "idle"]
    /\ request' = [s \in Sessions |-> NoRow]
    /\ work' = [s \in Sessions |-> NoWork]
    /\ Restart(provider)

TxInit ==
    /\ Init
    /\ pc = [s \in Sessions |-> "idle"]
    /\ request = [s \in Sessions |-> NoRow]
    /\ work = [s \in Sessions |-> NoWork]

\* The next statement of a session.
Proceed(s) ==
    \/ RecordEvent(s)
    \/ FindPayment(s)
    \/ LockPayment(s)
    \/ LockOrderOfPayment(s)
    \/ CommitWebhook(s)
    \/ LockOrderToPay(s)
    \/ FindPending(s)
    \/ \E i \in PaymentIds : CommitPayment(s, i)
    \/ LockOrderToUpdate(s)
    \/ CommitUpdate(s)

WholeRequest ==
    /\ \/ \E c \in Customers, p \in Products, q \in 1 .. MaxQty : AddItem(c, p, q)
       \/ \E c \in Customers, o \in Orders : Checkout(c, o)
    /\ UNCHANGED <<pc, request, work>>

TxNext ==
    \/ \E s \in Sessions : Proceed(s)
    \/ \E s \in Sessions, r \in Request : Begin(s, r)
    \/ \E s \in Sessions : Fail(s)
    \/ \E provider \in Providers : Crash(provider)
    \/ WholeRequest

TxSpec == TxInit /\ [][TxNext]_txvars

-----------------------------------------------------------------------------
(***************************************************************************)
(* Properties.  Those of Commerce hold here as well (WebhookProofs).       *)
(***************************************************************************)

\* Sessions have read what their statement needs, and no two of them hold
\* one identifier of a notification, one payment or one order.
SessionsOK ==
    /\ pc \in [Sessions -> {"idle", "record", "find", "payment", "order", "pending", "commit"}]
    /\ request \in [Sessions -> Request \cup {NoRow}]
    /\ work \in [Sessions -> Work]
    /\ \A s, t \in Sessions : s # t =>
           /\ \A provider \in Providers, id \in EventIds :
                  ~(HoldsEvent(s, provider, id) /\ HoldsEvent(t, provider, id))
           /\ \A i \in PaymentIds : ~(HoldsPayment(s, i) /\ HoldsPayment(t, i))
           /\ \A o \in Orders : ~(HoldsOrder(s, o) /\ HoldsOrder(t, o))

\* Notifications, requests for payment and administrators that overlap, fail,
\* are repeated or are stopped with the server have the effect of whole requests
\* one after another: each commit is a step of Commerce, and nothing else
\* changes what others see.
ImplementsStore == Spec

-----------------------------------------------------------------------------
(***************************************************************************)
(* The inductive invariant that both properties follow from.               *)
(***************************************************************************)

\* What the statements of a request have read, given its next statement, the
\* request and the work, is what they would read now.
ReadsHold(label, r, w) ==
    /\ label # "idle" => r \in Request
    /\ label \in {"record", "find", "payment"} => r.kind = "webhook"
    /\ label = "pending" => r.kind = "pay"
    /\ (label \in {"find", "payment", "order", "commit"} /\ r.kind = "webhook") =>
           \A e \in event : ~(e.provider = r.provider /\ e.id = r.id)
    /\ (label \in {"payment", "order", "commit"} /\ r.kind = "webhook") =>
           /\ w.found \in PaymentIds
           /\ payment[w.found] # NoRow
           /\ payment[w.found].provider = r.provider
           /\ payment[w.found].order = r.order
           /\ w.found \in led
    /\ (label \in {"order", "commit"} /\ r.kind = "webhook") => w.pay = payment[w.found]
    /\ (label = "commit" /\ r.kind \in {"webhook", "update"}) => w.ord = order[r.order]
    /\ (label = "commit" /\ r.kind = "update") =>
           /\ order[r.order] # NoRow
           /\ <<order[r.order].status, r.status>> \in allowedTransitions
    /\ (label \in {"pending", "commit"} /\ r.kind = "pay") =>
           /\ order[r.order] # NoRow
           /\ order[r.order].status = "PENDING_PAYMENT"
    /\ (label = "commit" /\ r.kind = "pay") =>
           \A j \in PaymentIds : ~(/\ payment[j] # NoRow
                                   /\ payment[j].order = r.order
                                   /\ payment[j].status = "PENDING")

TxIInv ==
    /\ TypeOK
    /\ PaymentHasOrder
    /\ FirstHasLed
    /\ SessionsOK
    /\ \A s \in Sessions : ReadsHold(pc[s], request[s], work[s])

-----------------------------------------------------------------------------
(***************************************************************************)
(* Waiting.                                                                *)
(***************************************************************************)

\* What the next statement of session s needs is free, and there is an
\* identifier for the payment it inserts.
CanProceed(s) ==
    \/ pc[s] = "record" /\ EventFree(s, request[s].provider, request[s].id)
    \/ pc[s] \in {"find", "pending"}
    \/ pc[s] = "payment" /\ PaymentFree(s, work[s].found)
    \/ pc[s] = "order" /\ OrderFree(s, request[s].order)
    \/ pc[s] = "commit" /\ (Serves(s, "pay") => \E i \in PaymentIds : payment[i] = NoRow)

\* While requests run, one of them can go on: transactions take the identifier
\* of a notification, its payment and its order in this sequence, and so never
\* wait for each other in a circle.
NoStandstill ==
    (\E s \in Sessions : Running(s)) /\ (\E i \in PaymentIds : payment[i] = NoRow) =>
        \E s \in Sessions : Running(s) /\ CanProceed(s)
=============================================================================
