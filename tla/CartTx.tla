--------------------------------- MODULE CartTx ---------------------------------
(***************************************************************************)
(* The requests of a customer about the cart, statement by statement, as   *)
(* PostgreSQL runs them at READ COMMITTED: AddItem, UpdateItem,            *)
(* RemoveItem, Clear, Get, and the part of Checkout that concerns the      *)
(* cart.  Cart lines are rows.  They are read without locks and written    *)
(* back whole, several of them may name one product, and the ACTIVE cart   *)
(* is made outside the transaction of AddItem.                             *)
(*                                                                         *)
(* Transactions write with their last statement here, so writing and       *)
(* committing are one step.  Checkout takes the stock of all its lines in  *)
(* the step that commits: StockTx has those statements.                    *)
(***************************************************************************)
EXTENDS Naturals, FiniteSets

CONSTANTS
    Customers, Products,
    CartIds,     \* identifiers a row of carts may get
    ItemIds,     \* identifiers a row of cart_items may get; numbers, compared
    Orders,      \* identifiers an order may get
    Sessions,    \* database connections that serve requests
    MaxQty,      \* bound: the largest quantity a request asks for
    MaxStock,    \* bound: the largest stock
    NoRow

ASSUME ItemIdsAssumption == ItemIds \subseteq Nat
ASSUME BoundsAssumption == MaxQty \in Nat /\ MaxStock \in Nat

VARIABLES
    stock, isActive,   \* of the products
    cart,              \* the carts table
    line,              \* the cart_items table
    order,             \* the orders table
    pc,                \* the statement a session executes next
    request,           \* the request a session serves
    work               \* what its statements have read

products == <<stock, isActive>>
tables == <<stock, isActive, cart, line, order>>
vars == <<stock, isActive, cart, line, order, pc, request, work>>

Quantities == [Products -> Nat]
CartRow == [customer : Customers, status : {"ACTIVE", "CHECKED_OUT"}]
LineRow == [cart : CartIds, product : Products, quantity : Nat \ {0}]
Lines == [ItemIds -> LineRow \cup {NoRow}]
OrderRow == [cart : CartIds, items : Quantities]

\* The identifier of a line comes from the path of the request, so it may be
\* one of another customer or of no line any more.
Request ==
    [kind : {"get", "clear", "checkout"}, customer : Customers]
    \cup [kind : {"add"}, customer : Customers, product : Products, quantity : 1 .. MaxQty]
    \cup [kind : {"update"}, customer : Customers, item : ItemIds, quantity : 1 .. MaxQty]
    \cup [kind : {"remove"}, customer : Customers, item : ItemIds]

ASSUME NoRowAssumption ==
    NoRow \notin CartRow \cup LineRow \cup OrderRow \cup CartIds \cup ItemIds \cup Request

\* cart: the ACTIVE cart found; stock: that of the product read; item, row:
\* the line found and what is to be saved; lines: those a checkout has read.
\* overtaken only observes: another request of the customer has
\* changed what this one has read and decides by.
Work ==
    [cart : CartIds \cup {NoRow}, stock : Nat, item : ItemIds \cup {NoRow},
     row : LineRow \cup {NoRow}, lines : Lines, overtaken : BOOLEAN]
NoLines == [i \in ItemIds |-> NoRow]
NoWork == [cart |-> NoRow, stock |-> 0, item |-> NoRow, row |-> NoRow,
           lines |-> NoLines, overtaken |-> FALSE]

\* A session that serves no request is idle, or done when the last request was
\* answered with success and has written.
Statement == {"idle", "done", "product", "cart", "make", "item", "write",
              "delete", "items", "commit"}

-----------------------------------------------------------------------------
(***************************************************************************)
(* Queries.                                                                *)
(***************************************************************************)

\* customer_id = ? and status = 'ACTIVE'
ActiveCarts(c) ==
    {k \in CartIds : cart[k] # NoRow /\ cart[k].customer = c /\ cart[k].status = "ACTIVE"}

\* Mutant: the line is looked up by its identifier alone.
ItemOfAnyCart(i, k) == line[i] # NoRow

\* id = ? and cart_id = ?
ItemOfCart(i, k) == line[i] # NoRow /\ line[i].cart = k

\* cart_id = ? and product_id = ?
LinesOf(k, p) == {i \in ItemIds : ItemOfCart(i, k) /\ line[i].product = p}

\* Mutant: AddItem does not look for a line of the product.
NoLine(k, p) == {}

\* The line AddItem adds to: the first of the product, if there is one.
FirstLine(k, p) == {i \in LinesOf(k, p) : \A j \in LinesOf(k, p) : i <= j}

\* cart_id = ?
LinesIn(k) == [i \in ItemIds |-> IF ItemOfCart(i, k) THEN line[i] ELSE NoRow]

\* The pieces that lines ask for of product p, each with its line.
Pieces(lines, p) ==
    UNION {{i} \X (1 .. lines[i].quantity) :
               i \in {j \in ItemIds : lines[j] # NoRow /\ lines[j].product = p}}

\* What lines ask of each product, of however many lines.
QuantitiesOf(lines) == [p \in Products |-> Cardinality(Pieces(lines, p))]

-----------------------------------------------------------------------------
(***************************************************************************)
(* Locks and the ends of requests.                                         *)
(***************************************************************************)

Running(s) == pc[s] \notin {"idle", "done"}
CustomerOf(s) == request[s].customer

\* Checkout reads the cart FOR UPDATE and holds it to its end.
HoldsCart(s, k) == pc[s] \in {"items", "commit"} /\ work[s].cart = k

\* Mutant: Checkout reads the cart without FOR UPDATE.
CartFreeUnlocked(s, k) == TRUE

CartFree(s, k) == \A t \in Sessions \ {s} : ~HoldsCart(t, k)

Begin(s, r) ==
    /\ ~Running(s)
    /\ pc' = [pc EXCEPT ![s] = IF r.kind = "add" THEN "product" ELSE "cart"]
    /\ request' = [request EXCEPT ![s] = r]
    /\ UNCHANGED <<tables, work>>

Goto(s, label) ==
    /\ pc' = [pc EXCEPT ![s] = label]
    /\ UNCHANGED <<tables, request>>

End(s, answer) ==
    /\ pc' = [pc EXCEPT ![s] = answer]
    /\ request' = [request EXCEPT ![s] = NoRow]

\* The request ends and has changed nothing, but for a cart that was made.
Refuse(s) ==
    /\ End(s, "idle")
    /\ work' = [work EXCEPT ![s] = NoWork]
    /\ UNCHANGED tables

\* What session t decides by is no longer what the tables hold when session
\* s of the same customer commits: t has read its line or the items, or it
\* has found the cart that s checks out.
OvertakenBy(s, t) ==
    /\ Running(t)
    /\ CustomerOf(t) = CustomerOf(s)
    /\ \/ pc[t] \in {"write", "commit"}
       \/ work[t].row # NoRow
       \/ request[s].kind = "checkout" /\ work[t].cart # NoRow

Commit(s) ==
    /\ End(s, "done")
    /\ work' = [t \in Sessions |->
                   IF t = s THEN NoWork
                   ELSE [work[t] EXCEPT !.overtaken = @ \/ OvertakenBy(s, t)]]

-----------------------------------------------------------------------------
(***************************************************************************)
(* The statements.                                                         *)
(***************************************************************************)

\* The product is read without a lock, by AddItem at first, by UpdateItem
\* when it has found the line.
ReadProduct(s) ==
    LET r == request[s]
        p == IF r.kind = "add" THEN r.product ELSE work[s].row.product
    IN  /\ pc[s] = "product"
        /\ IF ~isActive[p] \/ r.quantity > stock[p]
           THEN Refuse(s)
           ELSE IF r.kind = "add"
           THEN Goto(s, "cart") /\ work' = [work EXCEPT ![s].stock = stock[p]]
           ELSE Goto(s, "write") /\ work' = [work EXCEPT ![s].row.quantity = r.quantity]

\* The ACTIVE cart is found; Checkout waits for its lock.  A cart that is
\* checked out while it waits is not found.
FindCart(s, k) ==
    LET kind == request[s].kind IN
    /\ pc[s] = "cart"
    /\ k \in ActiveCarts(CustomerOf(s))
    /\ IF kind = "get"
       THEN Refuse(s)
       ELSE /\ kind = "checkout" => CartFree(s, k)
            /\ Goto(s, CASE kind \in {"add", "update"}   -> "item"
                         [] kind \in {"remove", "clear"} -> "delete"
                         [] kind = "checkout"            -> "items")
            /\ work' = [work EXCEPT ![s].cart = k]

\* AddItem and Get make a missing cart, the others end.
FindNoCart(s) ==
    /\ pc[s] = "cart"
    /\ ActiveCarts(CustomerOf(s)) = {}
    /\ IF request[s].kind \in {"add", "get"}
       THEN Goto(s, "make") /\ UNCHANGED work
       ELSE Refuse(s)

\* Mutant: no index keeps a customer from having two ACTIVE carts.
MayMakeCartAlways(c) == TRUE

\* The unique index of the ACTIVE carts.
MayMakeCart(c) == ActiveCarts(c) = {}

\* The cart is inserted by a connection of its own, which commits at once.
MakeCart(s, k) ==
    LET c == CustomerOf(s) IN
    /\ pc[s] = "make"
    /\ MayMakeCart(c)
    /\ cart[k] = NoRow
    /\ cart' = [cart EXCEPT ![k] = [customer |-> c, status |-> "ACTIVE"]]
    /\ IF request[s].kind = "get"
       THEN End(s, "idle") /\ work' = [work EXCEPT ![s] = NoWork]
       ELSE /\ pc' = [pc EXCEPT ![s] = "item"]
            /\ work' = [work EXCEPT ![s].cart = k]
            /\ UNCHANGED request
    /\ UNCHANGED <<products, line, order>>

\* Another request has made the cart: the insertion is refused.
MakeCartAgain(s) ==
    /\ pc[s] = "make"
    /\ ~MayMakeCart(CustomerOf(s))
    /\ Refuse(s)

\* Mutant: the quantity asked for replaces that of the line.
QuantityAsAsked(row, q) == q

\* AddItem adds to the quantity of the line it has read.
NewQuantity(row, q) == row.quantity + q

FindItemToAdd(s) ==
    LET r    == request[s]
        mine == FirstLine(work[s].cart, r.product)
    IN  /\ pc[s] = "item"
        /\ r.kind = "add"
        /\ \/ mine = {} /\ Goto(s, "write") /\ UNCHANGED work
           \/ \E i \in mine :
                 LET row == [line[i] EXCEPT !.quantity = NewQuantity(line[i], r.quantity)]
                 IN  IF row.quantity > work[s].stock
                     THEN Refuse(s)
                     ELSE /\ Goto(s, "write")
                          /\ work' = [work EXCEPT ![s].item = i, ![s].row = row]

FindItemToUpdate(s) ==
    LET i == request[s].item IN
    /\ pc[s] = "item"
    /\ request[s].kind = "update"
    /\ IF ItemOfCart(i, work[s].cart)
       THEN Goto(s, "product") /\ work' = [work EXCEPT ![s].item = i, ![s].row = line[i]]
       ELSE Refuse(s)

\* A new line gets a random identifier, which no request names.  The
\* insertion waits for a checkout that holds the cart (the foreign key).
InsertItem(s, i) ==
    LET k == work[s].cart IN
    /\ pc[s] = "write"
    /\ work[s].item = NoRow
    /\ line[i] = NoRow
    /\ \A t \in Sessions : /\ work[t].item # i
                           /\ Running(t) /\ request[t].kind \in {"update", "remove"}
                              => request[t].item # i
    /\ CartFree(s, k)
    /\ line' = [line EXCEPT ![i] = [cart |-> k, product |-> request[s].product,
                                    quantity |-> request[s].quantity]]
    /\ Commit(s)
    /\ UNCHANGED <<products, cart, order>>

\* Save writes the row that was read, and inserts it if it was deleted since.
SaveItem(s) ==
    LET i == work[s].item IN
    /\ pc[s] = "write"
    /\ i # NoRow
    /\ line[i] = NoRow => CartFree(s, work[s].cart)
    /\ line' = [line EXCEPT ![i] = work[s].row]
    /\ Commit(s)
    /\ UNCHANGED <<products, cart, order>>

\* The lines RemoveItem or Clear deletes.
Doomed(s) ==
    {i \in ItemIds : /\ ItemOfCart(i, work[s].cart)
                     /\ request[s].kind = "remove" => i = request[s].item}

DeleteItems(s) ==
    /\ pc[s] = "delete"
    /\ IF request[s].kind = "remove" /\ Doomed(s) = {}
       THEN Refuse(s)
       ELSE /\ line' = [i \in ItemIds |-> IF i \in Doomed(s) THEN NoRow ELSE line[i]]
            /\ Commit(s)
            /\ UNCHANGED <<products, cart, order>>

ReadItems(s) ==
    LET lines == LinesIn(work[s].cart) IN
    /\ pc[s] = "items"
    /\ IF lines = NoLines
       THEN Refuse(s)
       ELSE Goto(s, "commit") /\ work' = [work EXCEPT ![s].lines = lines]

\* All the UPDATEs of the products find a row.
Served(lines) ==
    \A p \in Products :
        /\ QuantitiesOf(lines)[p] \in 0 .. stock[p]
        /\ isActive[p] \/ QuantitiesOf(lines)[p] = 0

CommitCheckout(s, o) ==
    LET k == work[s].cart
        lines == work[s].lines
    IN  /\ pc[s] = "commit"
        /\ Served(lines)
        /\ order[o] = NoRow
        /\ stock' = [p \in Products |-> stock[p] - QuantitiesOf(lines)[p]]
        /\ order' = [order EXCEPT ![o] = [cart |-> k, items |-> QuantitiesOf(lines)]]
        /\ cart' = [cart EXCEPT ![k].status = "CHECKED_OUT"]
        /\ Commit(s)
        /\ UNCHANGED <<isActive, line>>

RefuseCheckout(s) == pc[s] = "commit" /\ ~Served(work[s].lines) /\ Refuse(s)

\* A statement fails, the connection breaks or the server stops.
Fail(s) == Running(s) /\ Refuse(s)

SetStock(p, n) ==
    /\ stock' = [stock EXCEPT ![p] = n]
    /\ UNCHANGED <<isActive, cart, line, order, pc, request, work>>

SetActive(p, active) ==
    /\ isActive' = [isActive EXCEPT ![p] = active]
    /\ UNCHANGED <<stock, cart, line, order, pc, request, work>>

-----------------------------------------------------------------------------
Init ==
    /\ stock \in [Products -> 0 .. MaxStock]
    /\ isActive \in [Products -> BOOLEAN]
    /\ cart = [k \in CartIds |-> NoRow]
    /\ line = [i \in ItemIds |-> NoRow]
    /\ order = [o \in Orders |-> NoRow]
    /\ pc = [s \in Sessions |-> "idle"]
    /\ request = [s \in Sessions |-> NoRow]
    /\ work = [s \in Sessions |-> NoWork]

Step(s) ==
    \/ \E r \in Request : Begin(s, r)
    \/ ReadProduct(s)
    \/ \E k \in CartIds : FindCart(s, k) \/ MakeCart(s, k)
    \/ FindNoCart(s)
    \/ MakeCartAgain(s)
    \/ FindItemToAdd(s)
    \/ FindItemToUpdate(s)
    \/ \E i \in ItemIds : InsertItem(s, i)
    \/ SaveItem(s)
    \/ DeleteItems(s)
    \/ ReadItems(s)
    \/ \E o \in Orders : CommitCheckout(s, o)
    \/ RefuseCheckout(s)
    \/ Fail(s)

Manage ==
    \E p \in Products :
        \/ \E n \in 0 .. MaxStock : SetStock(p, n)
        \/ \E active \in BOOLEAN : SetActive(p, active)

Next == (\E s \in Sessions : Step(s)) \/ Manage

Spec == Init /\ [][Next]_vars

-----------------------------------------------------------------------------
(***************************************************************************)
(* Properties.                                                             *)
(***************************************************************************)

\* Rows are rows, no stock is negative, a customer has one ACTIVE cart, and
\* a cart that a checkout holds stays ACTIVE and in no other checkout
\* (internal/order/service.go:61, migrations/000003:85).
TypeOK ==
    /\ stock \in [Products -> Nat]
    /\ isActive \in [Products -> BOOLEAN]
    /\ cart \in [CartIds -> CartRow \cup {NoRow}]
    /\ line \in [ItemIds -> LineRow \cup {NoRow}]
    /\ order \in [Orders -> OrderRow \cup {NoRow}]
    /\ pc \in [Sessions -> Statement]
    /\ request \in [Sessions -> Request \cup {NoRow}]
    /\ work \in [Sessions -> Work]
    /\ \A c \in Customers : \A k, l \in ActiveCarts(c) : k = l
    /\ \A s \in Sessions, k \in CartIds :
           HoldsCart(s, k) => k \in ActiveCarts(CustomerOf(s)) /\ CartFree(s, k)

\* A cart becomes one order at most, and is CHECKED_OUT as soon as it is in
\* one, however its checkouts overlap with each other and with other requests.
OneOrderPerCart ==
    \A o \in Orders :
        order[o] # NoRow =>
            /\ cart[order[o].cart].status = "CHECKED_OUT"
            /\ \A q \in Orders \ {o} : order[q] # NoRow => order[q].cart # order[o].cart

\* The lines of the ACTIVE cart of customer c, and what c is about to order.
OpenLines(c) ==
    [i \in ItemIds |-> IF \E k \in ActiveCarts(c) : ItemOfCart(i, k) THEN line[i] ELSE NoRow]
Basket(c) == QuantitiesOf(OpenLines(c))

Ledger == INSTANCE CartLedger
    WITH basket <- [c \in Customers |-> Basket(c)],
         placed <- [o \in Orders |-> IF order[o] = NoRow THEN NoRow ELSE order[o].items]

\* Several lines of the ACTIVE cart of c name one product.
Doubled(c) ==
    \E k \in ActiveCarts(c), p \in Products : \E i, j \in LinesOf(k, p) : i # j

\* What the request of session s promises of the basket.
TakesEffect(s) ==
    LET r == request[s]
        c == r.customer
    IN  \/ r.kind = "add" /\ Ledger!Add(c, r.product, r.quantity)
        \/ r.kind = "update" /\ Ledger!Put(c, line[r.item].product, r.quantity)
        \/ r.kind = "remove" /\ Ledger!Drop(c, line[r.item].product)
        \/ r.kind = "clear" /\ Ledger!Empty(c)
        \/ r.kind = "checkout" /\ \E o \in Orders : Ledger!Order(c, o)

\* A request that is answered with success and that no other request of its
\* customer overtakes has done to the basket what it promises: AddItem adds,
\* UpdateItem replaces, a checkout orders the whole basket.  UpdateItem and
\* RemoveItem name one line and promise it only where the product has no
\* second one.  All other steps change no basket and no order (a refusal, a
\* failure, a cart that is made).
RequestsTakeEffect ==
    [][IF \E s \in Sessions : Running(s) /\ pc'[s] = "done"
       THEN \E s \in Sessions :
                /\ Running(s) /\ pc'[s] = "done"
                /\ \/ work[s].overtaken
                   \/ request[s].kind \in {"update", "remove"} /\ Doubled(CustomerOf(s))
                   \/ TakesEffect(s)
       ELSE UNCHANGED <<[c \in Customers |-> Basket(c)], line, order>>]_vars

\* The second line of a product comes from an AddItem that another request
\* of its customer has overtaken after it found no line (the table has no
\* unique index, internal/cart/service.go:65-78); served one after the other,
\* requests never make one.
DoubledOnlyByOvertaking ==
    [][\A c \in Customers :
          Doubled(c)' /\ ~Doubled(c) =>
              \E s \in Sessions : /\ Running(s) /\ pc'[s] = "done"
                                  /\ CustomerOf(s) = c
                                  /\ request[s].kind \in {"add", "update"}
                                  /\ work[s].overtaken]_vars

\* A line that is written, before and after, is in a cart of the customer of
\* the request that writes it, overtaken or not: the identifier of a line of
\* someone else reaches nothing (internal/cart/service.go:92, :116).
OthersUntouched ==
    [][\A i \in ItemIds :
          line'[i] # line[i] =>
              \E s \in Sessions :
                  /\ Running(s) /\ pc'[s] = "done"
                  /\ \A row \in {line[i], line'[i]} \ {NoRow} :
                        cart[row.cart].customer = CustomerOf(s)]_vars

-----------------------------------------------------------------------------
(***************************************************************************)
(* The inductive invariants that the properties above follow from.         *)
(***************************************************************************)

\* The foreign keys: the cart of a line, and of an order, exists.
CartsExist ==
    /\ \A i \in ItemIds : line[i] # NoRow => cart[line[i].cart] # NoRow
    /\ \A o \in Orders : order[o] # NoRow => cart[order[o].cart] # NoRow

\* What a session has found belongs to the customer it serves.
SessionOK(s) ==
    LET r == request[s]
        w == work[s]
    IN  /\ IF Running(s) THEN r \in Request ELSE w = NoWork
        /\ pc[s] = "product" => IF w.item = NoRow THEN r.kind = "add" ELSE r.kind = "update"
        /\ pc[s] \in {"item", "write", "delete", "items", "commit"} => w.cart # NoRow
        /\ pc[s] \in {"cart", "make", "item"} => w.item = NoRow
        /\ pc[s] = "write" => w.item # NoRow \/ r.kind = "add"
        /\ w.cart # NoRow => cart[w.cart] # NoRow /\ cart[w.cart].customer = r.customer
        /\ w.item # NoRow => /\ w.cart # NoRow
                             /\ w.row \in LineRow
                             /\ w.row.cart = w.cart

\* A line that sessions have found does not move to another cart.
FoundLineStays ==
    \A s \in Sessions : work[s].item # NoRow =>
        /\ line[work[s].item] # NoRow => line[work[s].item].cart = work[s].cart
        /\ \A t \in Sessions : work[t].item = work[s].item => work[t].cart = work[s].cart

IInv ==
    /\ TypeOK
    /\ OneOrderPerCart
    /\ CartsExist
    /\ \A s \in Sessions : SessionOK(s)
    /\ FoundLineStays

\* The invariant that RequestsTakeEffect and DoubledOnlyByOvertaking follow
\* from: what session s has read is what the tables hold, unless another
\* request of its customer has overtaken it.
ReadsHold(s) ==
    LET r == request[s]
        w == work[s]
    IN  /\ w.cart # NoRow => cart[w.cart].status = "ACTIVE"
        /\ pc[s] = "product" /\ w.item # NoRow =>
              w.item = r.item /\ line[w.item] # NoRow /\ w.row = line[w.item]
        /\ pc[s] = "write" /\ w.item = NoRow => LinesOf(w.cart, r.product) = {}
        /\ pc[s] = "write" /\ w.item # NoRow =>
              /\ line[w.item] # NoRow
              /\ \/ /\ r.kind = "add" /\ line[w.item].product = r.product
                    /\ w.row = [line[w.item] EXCEPT !.quantity = @ + r.quantity]
                 \/ /\ r.kind = "update" /\ w.item = r.item
                    /\ w.row = [line[w.item] EXCEPT !.quantity = r.quantity]
        /\ pc[s] = "commit" => w.lines = LinesIn(w.cart)

\* Each statement serves the requests it is of, and a checkout commits lines.
\* Lines are written one at a time, so they ask for finitely many pieces.
EffectInv ==
    /\ \A p \in Products : IsFiniteSet(Pieces(line, p))
    /\ \A s \in Sessions :
          /\ pc[s] \in {"item", "write"} => request[s].kind \in {"add", "update"}
          /\ pc[s] = "make" => request[s].kind \in {"add", "get"}
          /\ pc[s] = "delete" => request[s].kind \in {"remove", "clear"}
          /\ pc[s] \in {"items", "commit"} => request[s].kind = "checkout"
          /\ pc[s] = "commit" => work[s].lines # NoLines
          /\ Running(s) /\ ~work[s].overtaken => ReadsHold(s)
=============================================================================
