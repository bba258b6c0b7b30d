-------------------------------- MODULE StockTx --------------------------------
(***************************************************************************)
(* The transactions of Checkout and UpdateOrderStatus statement by         *)
(* statement, as PostgreSQL runs them at READ COMMITTED: a SELECT ... FOR  *)
(* UPDATE or an UPDATE waits until no other transaction holds the row and  *)
(* then reads its newest committed version; nothing a transaction writes   *)
(* is seen before it commits; a circle of waiting transactions is broken   *)
(* by aborting one of them.                                                *)
(*                                                                         *)
(* Every session serves one request.  Carts are filled between the         *)
(* requests of their customer, not while a checkout of theirs is running.  *)
(***************************************************************************)
EXTENDS OrderLifecycle, Naturals

CONSTANTS
    Customers, Products, Orders,
    Sessions,    \* the requests, each with its database connection
    MaxQty,      \* bound: the largest quantity put into a cart at once
    MaxStock,    \* bound: the largest stock an administrator writes
    Managed,     \* bound: the products administrators change while requests run
    Statuses,    \* bound: the statuses administrators ask for
    NoRow

ASSUME ManagedAssumption == Managed \subseteq Products
ASSUME StatusesAssumption == Statuses \subseteq OrderStatus
ASSUME BoundsAssumption == MaxQty \in Nat /\ MaxStock \in Nat

VARIABLES
    stock, isActive, deleted, cart, order,   \* the committed rows, as in Commerce
    revived,   \* the products brought back, as in Commerce
    pc,        \* the statement a session executes next, or its answer
    request,   \* the request a session serves
    work       \* the variables of the running transaction

catalog == <<stock, isActive, deleted>>
rows == <<catalog, cart, order, revived>>
vars == <<rows, pc, request, work>>

Quantities == [Products -> Nat]
EmptyCart == [p \in Products |-> 0]

Answer == {"ok", "refused", "error"}
Statement == {"cart", "next", "take", "order", "restore", "give"}

Request ==
    [kind : {"checkout"}, customer : Customers]
    \cup [kind : {"update"}, order : Orders, status : Statuses]

OrderRow == [status : OrderStatus, restored : BOOLEAN, items : Quantities]

ASSUME NoRowAssumption == NoRow \notin Request /\ NoRow \notin OrderRow

\* lines: the items read; todo: the products of those not yet updated; at:
\* the product of the current one; locked: the product rows this transaction
\* has updated, and so holds.
Work == [lines : Quantities, todo : SUBSET Products,
         at : Products \cup {NoRow}, locked : SUBSET Products]
NoWork == [lines |-> EmptyCart, todo |-> {}, at |-> NoRow, locked |-> {}]

\* The committed rows are typed as those of Commerce, which the refinement
\* below checks; the transactions have the variables their statement needs,
\* and no product row is updated by two transactions at once.
TxTypeOK ==
    /\ pc \in [Sessions -> {"idle"} \cup Statement \cup Answer]
    /\ request \in [Sessions -> Request \cup {NoRow}]
    /\ work \in [Sessions -> Work]
    /\ \A s, t \in Sessions : s # t => work[s].locked \cap work[t].locked = {}

-----------------------------------------------------------------------------
(***************************************************************************)
(* Row locks and the ends of transactions.                                 *)
(***************************************************************************)

Running(s) == pc[s] \in Statement
Serves(s, kind) == request[s] # NoRow /\ request[s].kind = kind

HoldsCart(s, c) ==
    Serves(s, "checkout") /\ request[s].customer = c /\ pc[s] \in {"next", "take"}
HoldsOrder(s, o) ==
    Serves(s, "update") /\ request[s].order = o /\ pc[s] \in {"restore", "give"}

\* Mutant: the cart is read without FOR UPDATE.
CartFreeUnlocked(s, c) == TRUE

CartFree(s, c) == \A t \in Sessions \ {s} : ~HoldsCart(t, c)
OrderFree(s, o) == \A t \in Sessions \ {s} : ~HoldsOrder(t, o)

\* Mutant: an UPDATE of a product does not wait for another transaction's.
ProductFreeUnlocked(p) == TRUE

ProductFree(p) == \A t \in Sessions : p \notin work[t].locked

Goto(s, label) == pc' = [pc EXCEPT ![s] = label]

\* Mutant: the transaction is left open.
FinishKeepingLocks(s, answer) == Goto(s, answer) /\ UNCHANGED work

\* The transaction ends, its locks and its variables are gone.
Finish(s, answer) ==
    /\ Goto(s, answer)
    /\ work' = [work EXCEPT ![s] = NoWork]

\* Mutant: what a refused checkout has taken before stays taken.
RollbackKeepingStock(s, answer) ==
    /\ Finish(s, answer)
    /\ stock' = IF ~Serves(s, "checkout") THEN stock
                ELSE [p \in Products |-> IF p \in work[s].locked
                                         THEN stock[p] - work[s].lines[p] ELSE stock[p]]
    /\ UNCHANGED <<isActive, deleted, cart, order, revived>>

Rollback(s, answer) == Finish(s, answer) /\ UNCHANGED rows

-----------------------------------------------------------------------------
(***************************************************************************)
(* Checkout.                                                               *)
(***************************************************************************)

Begin(s, r) ==
    /\ pc[s] = "idle"
    /\ request' = [request EXCEPT ![s] = r]
    /\ Goto(s, IF r.kind = "checkout" THEN "cart" ELSE "order")
    /\ UNCHANGED <<rows, work>>

\* The ACTIVE cart is locked and its items are read.  A cart that another
\* checkout took meanwhile is not ACTIVE any more, which shows as empty.
LockCart(s) ==
    LET c == request[s].customer IN
    /\ pc[s] = "cart"
    /\ CartFree(s, c)
    /\ IF cart[c] = EmptyCart
       THEN Rollback(s, "refused")
       ELSE /\ Goto(s, "next")
            /\ work' = [work EXCEPT ![s].lines = cart[c],
                                    ![s].todo = {p \in Products : cart[c][p] > 0}]
            /\ UNCHANGED rows
    /\ UNCHANGED request

\* The product of one of the items, in whatever order they were returned, is
\* read without a lock.
ReadProduct(s, p) ==
    /\ pc[s] = "next"
    /\ p \in work[s].todo
    /\ IF p \in deleted \/ ~isActive[p]
       THEN Rollback(s, "refused")
       ELSE /\ Goto(s, "take")
            /\ work' = [work EXCEPT ![s].at = p]
            /\ UNCHANGED rows
    /\ UNCHANGED request

\* Mutant: the UPDATE does not compare the stock again.
ServesAsRead(p, q) == TRUE

\* The WHERE clause of the conditional UPDATE.
StillServes(p, q) == q <= stock[p] /\ p \notin deleted /\ isActive[p]

\* The conditional UPDATE of the product read before.
TakeStock(s) ==
    LET p == work[s].at IN
    /\ pc[s] = "take"
    /\ ProductFree(p)
    /\ IF StillServes(p, work[s].lines[p])
       THEN /\ Goto(s, "next")
            /\ work' = [work EXCEPT ![s].locked = @ \cup {p}, ![s].todo = @ \ {p}]
            /\ UNCHANGED rows
       ELSE Rollback(s, "refused")
    /\ UNCHANGED request

\* The order and its items are inserted, the cart is checked out, and all of
\* it becomes visible.
CommitCheckout(s, o) ==
    LET c == request[s].customer IN
    /\ pc[s] = "next"
    /\ work[s].todo = {}
    /\ order[o] = NoRow
    /\ stock' = [p \in Products |->
                    IF p \in work[s].locked THEN stock[p] - work[s].lines[p] ELSE stock[p]]
    /\ order' = [order EXCEPT ![o] =
           [status |-> "PENDING_PAYMENT", restored |-> FALSE, items |-> work[s].lines]]
    /\ cart' = [cart EXCEPT ![c] = EmptyCart]
    /\ Finish(s, "ok")
    /\ UNCHANGED <<isActive, deleted, revived, request>>

-----------------------------------------------------------------------------
(***************************************************************************)
(* UpdateOrderStatus.                                                      *)
(***************************************************************************)

Restores(s) ==
    LET row == order[request[s].order]
    IN  ReturnsStock(row.status, request[s].status, row.restored)

\* The order is locked and checked; if its items are to be returned they are
\* read.
LockOrder(s) ==
    LET o == request[s].order IN
    /\ pc[s] = "order"
    /\ OrderFree(s, o)
    /\ IF order[o] = NoRow
       THEN Rollback(s, "refused")
       ELSE IF order[o].status = request[s].status
       THEN Rollback(s, "ok")
       ELSE IF <<order[o].status, request[s].status>> \notin allowedTransitions
       THEN Rollback(s, "refused")
       ELSE /\ Goto(s, "restore")
            /\ work' = [work EXCEPT ![s].lines = order[o].items,
                                    ![s].todo = IF Restores(s)
                                                THEN {p \in Products : order[o].items[p] > 0}
                                                ELSE {}]
            /\ UNCHANGED rows
    /\ UNCHANGED request

NextItem(s, p) ==
    /\ pc[s] = "restore"
    /\ p \in work[s].todo
    /\ Goto(s, "give")
    /\ work' = [work EXCEPT ![s].at = p]
    /\ UNCHANGED <<rows, request>>

\* The UPDATE that adds the item's quantity finds no row if the product is
\* deleted.
GiveStock(s) ==
    LET p == work[s].at IN
    /\ pc[s] = "give"
    /\ ProductFree(p)
    /\ Goto(s, "restore")
    /\ work' = [work EXCEPT ![s].todo = @ \ {p},
                            ![s].locked = IF p \in deleted THEN @ ELSE @ \cup {p}]
    /\ UNCHANGED <<rows, request>>

CommitUpdate(s) ==
    LET o == request[s].order IN
    /\ pc[s] = "restore"
    /\ work[s].todo = {}
    /\ stock' = [p \in Products |->
                    IF p \in work[s].locked THEN stock[p] + work[s].lines[p] ELSE stock[p]]
    /\ order' = [order EXCEPT ![o].status = request[s].status,
                              ![o].restored = @ \/ Restores(s)]
    /\ revived' = [revived EXCEPT ![o] = {}]
    /\ Finish(s, "ok")
    /\ UNCHANGED <<isActive, deleted, cart, request>>

-----------------------------------------------------------------------------
(***************************************************************************)
(* Failures.                                                               *)
(***************************************************************************)

\* A statement fails or the connection breaks: the transaction is rolled back.
Fail(s) ==
    /\ Running(s)
    /\ Rollback(s, "error")
    /\ UNCHANGED request

\* The server stops; the database rolls all its transactions back.
Crash ==
    /\ \E s \in Sessions : Running(s)
    /\ pc' = [s \in Sessions |-> IF Running(s) THEN "error" ELSE pc[s]]
    /\ work' = [s \in Sessions |-> NoWork]
    /\ revived' = [o \in Orders |-> {}]
    /\ UNCHANGED <<catalog, cart, order, request>>

\* Session t holds the row that session s waits for.
Blocks(t, s) ==
    /\ t # s
    /\ \/ pc[s] = "cart" /\ HoldsCart(t, request[s].customer)
       \/ pc[s] = "order" /\ HoldsOrder(t, request[s].order)
       \/ pc[s] \in {"take", "give"} /\ work[s].at \in work[t].locked

\* Session s waits in a circle.
Deadlocked(s) ==
    \E circle \in SUBSET Sessions :
        /\ s \in circle
        /\ \A t \in circle : /\ \E u \in circle : Blocks(u, t)
                             /\ \E u \in circle : Blocks(t, u)

\* The database aborts one of the sessions of a circle.
AbortVictim(s) ==
    /\ Deadlocked(s)
    /\ Rollback(s, "error")
    /\ UNCHANGED request

-----------------------------------------------------------------------------
(***************************************************************************)
(* Requests of a single statement.                                         *)
(***************************************************************************)

AddItem(c, p, q) ==
    /\ \A s \in Sessions : Running(s) => ~(Serves(s, "checkout") /\ request[s].customer = c)
    /\ StillServes(p, cart[c][p] + q)
    /\ cart' = [cart EXCEPT ![c][p] = @ + q]
    /\ UNCHANGED <<catalog, order, revived, pc, request, work>>

SetStock(p, n) ==
    /\ p \notin deleted
    /\ ProductFree(p)
    /\ stock' = [stock EXCEPT ![p] = n]
    /\ UNCHANGED <<isActive, deleted, cart, order, revived, pc, request, work>>

SetActive(p, active) ==
    /\ p \notin deleted
    /\ ProductFree(p)
    /\ isActive' = [isActive EXCEPT ![p] = active]
    /\ UNCHANGED <<stock, deleted, cart, order, revived, pc, request, work>>

DeleteProduct(p) ==
    /\ p \notin deleted
    /\ ProductFree(p)
    /\ deleted' = deleted \cup {p}
    /\ UNCHANGED <<stock, isActive, cart, order, revived, pc, request, work>>

\* Save, which waits for the row as an UPDATE does.  wasActive was read before
\* the transaction, and so was that the row is not deleted: one that has been
\* deleted since is inserted again.
UpdateProduct(p, n, wasActive) ==
    /\ ProductFree(p)
    /\ stock' = [stock EXCEPT ![p] = n]
    /\ isActive' = [isActive EXCEPT ![p] = wasActive]
    /\ deleted' = deleted \ {p}
    /\ revived' = [o \in Orders |->
                      revived[o] \cup {q \in {p} \cap deleted : order[o] # NoRow}]
    /\ UNCHANGED <<cart, order, pc, request, work>>

-----------------------------------------------------------------------------
Init ==
    /\ stock \in [Products -> 0 .. MaxStock]
    /\ isActive = [p \in Products |-> TRUE]
    /\ deleted = {}
    /\ cart = [c \in Customers |-> EmptyCart]
    /\ order = [o \in Orders |-> NoRow]
    /\ revived = [o \in Orders |-> {}]
    /\ pc = [s \in Sessions |-> "idle"]
    /\ request = [s \in Sessions |-> NoRow]
    /\ work = [s \in Sessions |-> NoWork]

\* The next statement of a session.
Proceed(s) ==
    \/ LockCart(s)
    \/ \E p \in Products : ReadProduct(s, p)
    \/ TakeStock(s)
    \/ \E o \in Orders : CommitCheckout(s, o)
    \/ LockOrder(s)
    \/ \E p \in Products : NextItem(s, p)
    \/ GiveStock(s)
    \/ CommitUpdate(s)

Environment ==
    \/ \E s \in Sessions, r \in Request : Begin(s, r)
    \/ \E s \in Sessions : Fail(s)
    \/ Crash
    \/ \E c \in Customers, p \in Products, q \in 1 .. MaxQty : AddItem(c, p, q)
    \/ \E p \in Managed, n \in 0 .. MaxStock : SetStock(p, n)
    \/ \E p \in Managed, active \in BOOLEAN : SetActive(p, active)
    \/ \E p \in Managed : DeleteProduct(p)
    \/ \E p \in Managed, n \in 0 .. MaxStock, wasActive \in BOOLEAN :
           UpdateProduct(p, n, wasActive)

Next ==
    \/ \E s \in Sessions : Proceed(s) \/ AbortVictim(s)
    \/ Environment

Spec == Init /\ [][Next]_vars

\* The server goes on with a request whose statement can be executed, and
\* the database looks for circles again and again.  Nothing makes customers,
\* administrators or failures act.
Fairness ==
    \A s \in Sessions : WF_vars(Proceed(s)) /\ WF_vars(AbortVictim(s))

FairSpec == Spec /\ Fairness

-----------------------------------------------------------------------------
(***************************************************************************)
(* Properties.                                                             *)
(***************************************************************************)

\* Concurrent checkouts, updates of one order and changes of the catalogue
\* have the effect of some sequence of whole requests: a commit is a step of
\* Commerce, and nothing else changes what others see.  An Update may bring a
\* product back between the statement that returns stock to it in vain and the
\* commit: Commerce has that outcome (revived).
Store == INSTANCE Commerce WITH
    PaymentIds <- {}, Providers <- {"midtrans"}, EventIds <- {},
    payment <- [i \in {} |-> NoRow], event <- {}, selected <- "midtrans", led <- {}

ImplementsStore == Store!Spec

\* Every request is answered, although transactions take product rows in any
\* order and so may wait for each other in a circle.
EveryRequestAnswered ==
    \A s \in Sessions : Running(s) ~> pc[s] \in Answer

-----------------------------------------------------------------------------
(***************************************************************************)
(* The inductive invariant that TxTypeOK and ImplementsStore follow from:  *)
(* what a transaction has read under a lock is so until it ends.           *)
(***************************************************************************)

RowsTyped ==
    /\ stock \in Quantities
    /\ isActive \in [Products -> BOOLEAN]
    /\ deleted \in SUBSET Products
    /\ cart \in [Customers -> Quantities]
    /\ order \in [Orders -> OrderRow \cup {NoRow}]
    /\ revived \in [Orders -> SUBSET Products]

\* A session serves a request of the kind its statement belongs to, and has
\* read nothing before its first lock.
SessionStarted(s) ==
    /\ pc[s] \in {"cart", "next", "take"} => Serves(s, "checkout")
    /\ pc[s] \in {"order", "restore", "give"} => Serves(s, "update")
    /\ pc[s] \in {"take", "give"} => work[s].at \in work[s].todo
    /\ pc[s] \notin {"next", "take", "restore", "give"} => work[s] = NoWork

\* The lines read are those of the locked cart; every product of a line is
\* still to be visited or is locked, and a locked one serves its line.
CheckoutReadsHold(s) ==
    pc[s] \in {"next", "take"} =>
        /\ work[s].lines = cart[request[s].customer]
        /\ work[s].lines # EmptyCart
        /\ \A p \in Products : work[s].lines[p] > 0
                                <=> p \in work[s].todo \cup work[s].locked
        /\ \A p \in work[s].locked : StillServes(p, work[s].lines[p])

\* The locked order still may get the status asked for, and if its items go
\* back, every product of an item is to be visited, is locked, is deleted or was
\* so until an Update brought it back.
UpdateReadsHold(s) ==
    pc[s] \in {"restore", "give"} =>
        LET row == order[request[s].order] IN
        /\ row # NoRow
        /\ <<row.status, request[s].status>> \in allowedTransitions
        /\ work[s].lines = row.items
        /\ work[s].locked \cap deleted = {}
        /\ IF Restores(s)
           THEN \A p \in Products : row.items[p] > 0 =>
                    p \in work[s].todo \cup work[s].locked \cup deleted
                            \cup revived[request[s].order]
           ELSE work[s].todo = {} /\ work[s].locked = {}

LocksApart ==
    \A s, t \in Sessions : s # t =>
        /\ \A c \in Customers : ~(HoldsCart(s, c) /\ HoldsCart(t, c))
        /\ \A o \in Orders : ~(HoldsOrder(s, o) /\ HoldsOrder(t, o))

IInv ==
    /\ RowsTyped
    /\ TxTypeOK
    /\ LocksApart
    /\ \A s \in Sessions : /\ SessionStarted(s)
                           /\ CheckoutReadsHold(s)
                           /\ UpdateReadsHold(s)

-----------------------------------------------------------------------------
(***************************************************************************)
(* The safety half of EveryRequestAnswered: some request can always go on, *)
(* and each one that does has fewer statements left.                       *)
(***************************************************************************)

\* A transaction that visits a product does not hold it: no session waits
\* for itself.
VisitedOnce == \A s \in Sessions : work[s].todo \cap work[s].locked = {}

\* The row that the next statement of session s needs is free, and there is an
\* identifier for the order it inserts.
CanProceed(s) ==
    \/ pc[s] = "cart" /\ CartFree(s, request[s].customer)
    \/ pc[s] = "order" /\ OrderFree(s, request[s].order)
    \/ pc[s] \in {"take", "give"} /\ ProductFree(work[s].at)
    \/ pc[s] = "next" /\ (work[s].todo # {} \/ \E o \in Orders : order[o] = NoRow)
    \/ pc[s] = "restore"

\* When every running request waits, some wait in a circle, which the database
\* breaks.
StandstillIsCircle ==
    (\E s \in Sessions : Running(s)) /\ (\E o \in Orders : order[o] = NoRow) =>
        \E s \in Sessions : Running(s) /\ (CanProceed(s) \/ Deadlocked(s))

\* What a session may still have to execute: its first lock, reading and
\* updating the products to be visited, and its commit.
StatementsLeft(s) ==
    CASE pc[s] \in {"cart", "order"} ->
             {<<NoRow, "lock">>, <<NoRow, "commit">>} \cup (Products \X {"read", "update"})
      [] pc[s] \in {"next", "restore"} ->
             {<<NoRow, "commit">>} \cup (work[s].todo \X {"read", "update"})
      [] pc[s] \in {"take", "give"} ->
             {<<NoRow, "commit">>} \cup
             ((work[s].todo \X {"read", "update"}) \ {<<work[s].at, "read">>})
      [] OTHER -> {}

\* No step gives a running request more to do, and each of its own leaves it
\* less.
RequestsAdvance ==
    [][\A s \in Sessions : Running(s) =>
          /\ StatementsLeft(s)' \subseteq StatementsLeft(s)
          /\ Proceed(s) \/ AbortVictim(s) => StatementsLeft(s)' # StatementsLeft(s)]_vars
=============================================================================
