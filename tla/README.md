# A verification of go-be-mono-commerce

TLA+ specifications of the commerce back end in `src/`, the TLC
configurations that check them on small instances, and proofs for TLAPS of
what matters most for every instance. The code is the reference: definitions
bear the names of the functions they translate.

## 1. The system

One Go process serves a JSON API (gin) over one PostgreSQL database (gorm).
It keeps no state between requests except its configuration: everything
below is rows, every writing handler is one transaction or a few statements,
and requests of many customers, administrators and payment providers run at
the same time. PostgreSQL runs at its default isolation, READ COMMITTED;
some rows are read with `FOR UPDATE`.

| Component | State | Operations | Hard behaviour | What makes it correct |
|---|---|---|---|---|
| Product catalogue (`internal/product`) | `products`, `product_images` | Create, Update, Delete (soft), SetActive, SetStock, ListPublic, DetailBySlug | Update saves a row read outside its transaction; a page is read in two statements, and the failure of the second is ignored | stock changes only with orders and counts; deleted and hidden products are not sold and stay so; a row and its images belong together |
| Categories (`internal/category`) | `categories` | Create, Update, Delete, ListActive | slugs of deleted rows stay taken; Update saves a row read before; products look a category up before they use it | a slug names one category; a deleted one stays deleted and gets no products |
| Cart (`internal/cart`) | `carts`, `cart_items` | AddItem, UpdateItem, RemoveItem, Clear, Get | lines are read and written back without locks; the cart is made outside the transaction; no unique line per product | one ACTIVE cart, one line per product, no lost line |
| Orders (`internal/order`) | `orders`, `order_items` | Checkout, UpdateOrderStatus, lists | stock read and taken in two statements; several product rows locked in any order; returning stock once | no oversale, all items or none, transitions of the table only, stock returned exactly once |
| Payments (`internal/payment/service.go`) | `payments`, `payment_webhook_events`, `audit_logs` | CreatePaymentForOrder, GetPaymentStatus, HandleWebhook | notifications are repeated, late and out of order, for several payments of an order, and race administrators | money notified is not lost or undone and agrees with the order; a reference is paid once (it is not, section 5) |
| Providers (`internal/payment/providers.go`) | none | CreatePayment, ValidateWebhook, ParseWebhook | identifiers, references and words are taken from the payload | paid means that money was taken; a new report is not taken for a repeated one |
| Customers, addresses (`internal/customer`) | `customers`, `customer_addresses` | profile, address CRUD, default address | the default is unset and set by separate statements | at most one default address |
| Authentication (`internal/auth`, `internal/middleware`) | `customers`, `admin_users` | register, login, token and role checks | accounts locked while they log in or hold tokens; spellings of an address | a role reaches only its routes; a locked account is out within the life of a token; an address is one account |
| Reports, audit list (`internal/report`, `internal/audit`) | none | read-only aggregates | counts and groups over a changing table | totals agree with the tables |
| Routing, configuration (`internal/server`, `internal/config`, `cmd/api`) | provider chosen at the start | route table | a restart may choose another provider | both providers stay reachable |
| Answers, pagination (`pkg/*`) | none | formats | limits of pages | - |
| `internal/notification`, `internal/upload` | none | empty packages | - | - |

Interactions: carts read products; checkout reads the cart, takes stock and
makes the order; a payment reads the order; a notification writes the
payment, the order, the stock and the audit log; an administrator's change of
an order's status writes the order and the stock but not the payment.

## 2. The modules

| Module | Models | Grain |
|---|---|---|
| `OrderLifecycle` | the statuses, `allowedTransitions`, `applyWebhookStatus`, `applyOrderTransition`, `isPaidOrBeyond`, the rule for returning stock | operators |
| `StockLedger`, `CartLedger` | what the store promises about stock, and about baskets and orders, abstractly | specifications |
| `Commerce` | products, carts, orders, payments, notifications, restart | one action per committed request |
| `CommerceHistory` | `Commerce` with an observer of every order's past statuses | as `Commerce` |
| `Providers` | `ParseWebhook` of both providers, `mapStatus` | operators |
| `Delivery` | `CommerceHistory` with the providers' transactions and the way of their reports | one action per request |
| `StockTx` | `Checkout` and `UpdateOrderStatus` with row locks, rollback, crash, deadlock detection | one action per statement |
| `WebhookTx` | `HandleWebhook`, `CreatePaymentForOrder` and `UpdateOrderStatus` with row locks, the unique index of notifications, repetition, rollback, crash | one action per statement |
| `CartTx` | all requests about carts, with lines as rows, and the checkout's part of it | one action per statement |
| `Catalogue` | products with images, categories, the product page | one action per statement |
| `Access` | registration, logins, tokens, role checks, the profile | one action per statement |
| `Addresses` | `CreateAddress`, `UpdateAddress`, `DeleteAddress` | one action per statement |
| `CommerceProofs`, `DeliveryProofs`, `StockProofs`, `WebhookProofs` | theorems about `Commerce`, `CommerceHistory` and `Delivery`, `StockTx`, `WebhookTx` | proofs |
| `CartProofs`, `CatalogueProofs`, `AccessProofs`, `AddressProofs` | theorems about `CartTx`, `Catalogue`, `Access`, `Addresses` | proofs |
| `MC...` | instances for TLC of the module named | symmetry and bounds |

`StockTx` implements `Commerce` (property `ImplementsStore`), which
implements `StockLedger` (`ImplementsLedger`) and `CartLedger`
(`ImplementsCarts`). `WebhookTx` extends `Commerce`
and implements it (its own `ImplementsStore`).
`CartTx` does not implement `CartLedger` when requests of one customer overlap;
`RequestsTakeEffect` says when it does. `Catalogue`, `Access` and `Addresses`
share no state with the others: ordering looks at three columns of a product,
which `Commerce` has, and an order keeps no address.

**State.** `stock`, `isActive` and `deleted` are the three columns of
`products` that ordering looks at. `cart[c]` holds the quantities of the
customer's ACTIVE cart; no ACTIVE cart and an empty one are the same, because
every handler treats them alike or makes the missing cart. `order[o]` is a
row of `orders` with its lines, `payment[i]` a row of `payments`, `event` the
table of notifications with the action of the audit row each one writes, and
`selected` the provider of `PAYMENT_PROVIDER`. An identifier without a row
has `NoRow`. A provider reference is the provider's prefix and the order's
number, so two payments of one order at one provider share it;
`First(&pay, "provider = ? AND provider_reference = ?")` orders by primary
key, a random UUID, which is why payment identifiers are numbers, compared,
and taken in any order.

**Actions.** Each operation of the table above that writes and that
concerns stock, orders or payments is an action with the handler's name. A
request that is refused, or that finds nothing to do, changes nothing and is
a stuttering step. `UpdateProduct` writes the row read before its transaction:
`wasActive` may be stale, and the row of a product deleted meanwhile is
inserted again by `Save`. `HandleWebhook` with a recorded identifier is rolled
back: after the unique violation PostgreSQL accepts no further statement of
that transaction.

Two requests read something long before they commit, and so have outcomes that
no request in a single step has. A notification chooses the payment of its
reference before it waits for the order, and a payment with a smaller key may be
inserted meanwhile; `HandleWebhook` is therefore applied to any payment that
has been the first of its reference since the server was started (`led`). A
request that returns the items of an order updates the products one after the
other; one that is deleted gets nothing, and an `Update` may bring it back before
the commit, so `MoveOrder` may miss the products that were brought back since a
request about the order last committed (`revived`). Both variables only observe.

**StockTx.** A session is a request with its transaction. `Begin` starts it;
`LockCart`, `ReadProduct`, `TakeStock` and `CommitCheckout` are the statements
of a checkout; `LockOrder`, `NextItem`, `GiveStock` and `CommitUpdate` those of
a change of status. The writes of a transaction stay in `work` until its
commit; the rows it has updated or read `FOR UPDATE` are locked until its end.
`Fail`, `Crash` and `AbortVictim` end it without a trace. Items are visited in
any order, as the query without ORDER BY may return them. Counting, hiding and
deleting a product, the Save of its Update, with what it read before, and adding
to a cart are single statements there.
Restriction: the cart of a customer does not change while a checkout of that
customer runs; `CartTx` is about that.

**WebhookTx.** A session serves one request after another. A notification
executes `RecordEvent`, `FindPayment`, `LockPayment`, `LockOrderOfPayment` and
`CommitWebhook`; a request for payment `LockOrderToPay`, `FindPending` and
`CommitPayment`; a change of status `LockOrderToUpdate` and `CommitUpdate`.
Looking up a payment and locking it are two steps, because the query chooses a
row among those committed when it starts and waits for it afterwards; the order
is locked in a third. What a
transaction writes appears with its commit, decided by the rows it has read
before, not by those there are then. A second notification with an identifier
that another transaction has inserted waits for the end of that one. Returning
the items of an order is part of the commit there; `StockTx` has its
statements. `Fail` and `Crash` roll back, and a provider may repeat any
notification at any time.

**Addresses.** The handlers use no transaction, so each statement is a step of
its own that commits, and `Fail` keeps what was written. `Save` inserts the row
again if it was deleted since it was read. Identifiers are random: a new row
gets one that no running request names. `outdated` and `doubled` only observe.

**CartTx.** Lines are rows, read without locks and written back whole, and one
product may have several. `FindCart`, `MakeCart`, `ReadProduct`,
`FindItemToAdd`, `InsertItem`, `SaveItem`, `DeleteItems`, `ReadItems` and
`CommitCheckout` are the statements. A checkout holds its cart `FOR UPDATE`; an
insertion into `cart_items` waits for it, because PostgreSQL locks the parent
of a foreign key, an UPDATE or DELETE of a line does not. `overtaken` observes
that a request committed after another of the same customer changed what it had
read. What a checkout does to stock is in its last step here; `StockTx` has the
statements.

**Catalogue.** `Create` looks at the category before its transaction; `Update` of
either table reads a row and saves all of it later, which also brings a deleted
row back. An `Update` of a product that has saved and not yet committed holds
the row and both slugs. `overtaken` observes that what was read has changed.
A page of the shop is shown without images when the query for them fails, since
`DetailBySlug` does not look at its error; a failing statement of any other request
ends it (`Fail`), and `Crash` ends all of them.

**Access.** `FindAccount` and `SignWithTTL` are the two ends of a login, `Admit` the
check of a request, `GetCustomerByID` and `UpdateCustomer` the profile. A spelling
of an address is a model value with a normal form (ToLower, TrimSpace). No
request sets `is_active` of an account, so `Lock` stands for the operator of the
database. `late` and `lastActive` only observe.

**Providers, Delivery.** The payload of a notification has the fields
`ParseWebhook` reads. `OpenTransaction`, `MoveTransaction` and `SendReport` are
the providers, which are not in `src/`: a transaction is opened for a pending
payment, may be challenged (Midtrans), and ends with the money taken or not;
Midtrans names the transaction in its reports, or leaves the name out, and
Xendit gives each report an identifier. Reports stay on the way and may arrive
in any order and again. `Accept` is a handled notification whose answer may be
lost; `RefuseRepetition` is a recorded identifier, which changes nothing.

## 3. The runs

All bounds are in the `.cfg` files. `MaxQty` and `MaxStock` bound the
quantities that requests ask for and administrators write; stock itself may
grow beyond `MaxStock` by returned items. `Managed` names the products that
administrators change while requests run and `Statuses` the statuses they ask
for (StockTx). The constraints `QuietCatalogue`, `QuietShop` (MCCommerceHistory)
and `Bounded` (MCDelivery) keep administrators from the catalogue in the runs
about payments, whose properties do not mention it, and the carts empty when no
order can follow; `MaxEvents`, `MaxSent` and `Asked` bound the notifications
recorded, the reports sent and the statuses orders have. `Bounded` of MCCartTx
keeps the products active and ends with the last order; `MaxClock` and `MaxTokens` bound MCAccess.
Identifiers that the code does not compare are symmetric.

| Run | Instance | Shows |
|---|---|---|
| `stock` | 1 customer, 1 product, 2 orders, 1 payment, 2 notifications, all catalogue actions | `TypeOK`, `StockConservation`, `ImplementsLedger`, `ImplementsCarts` |
| `payments` | 1 order, 2 payments, 2 providers, 3 notifications | `SettledPaymentClosesOrder`, `ReopenedOrderIsPaid`, `AcceptedMoneyMarksOrderPaid`, `LateFailureNeverUndoesPaid`, `PaidNotificationApplied`, `PaidPaymentFinal`, `UnsoldOrderReturnsStock` |
| `deliveries` | 1 order, 1 payment, 2 providers, 2 transactions, 2 reports sent any number of times, fair | `PaidOnlyIfMoneyTaken`, `AnsweredReportIsApplied`, `ReportedMoneyArrives` |
| `baskets` | 2 customers, 2 products, one of them managed, 2 orders, 2 sessions, all interruptions, fair | `TxTypeOK`, `StandstillIsCircle`, `ImplementsStore`, `EveryRequestAnswered` |
| `races` | 1 order, 2 payments of one provider, 2 notifications, 3 sessions, all interruptions | `SessionsOK`, `NoStandstill`, `ImplementsStore` |
| `carts` | 2 customers, 1 product, 2 carts, 2 lines, 2 orders, 2 sessions | `TypeOK`, `OneOrderPerCart`, `RequestsTakeEffect`, `DoubledOnlyByOvertaking`, `OthersUntouched` |
| `catalogue` | 2 products, 1 category, 3 slugs, 2 offers, 2 sessions, all interruptions | `TypeOK`, `RowAndImagesAgree`, `PublicAgainOnlyIfOvertaken`, `DeletedCategoryOnlyUsedIfOvertaken` |
| `access` | 2 customers, 1 administrator, 2 spellings of one address, 2 sessions, 2 tokens, 3 moments | `TypeOK`, `OneAccountPerAddress`, `RolesKeptApart`, `LockedOutWithinTTL`, `LockStays` |
| `addresses` | 2 customers, 2 addresses, 3 sessions | `TypeOK`, `OneDefaultUnlessOverlapped`, `OwnAddressesOnly` |
| `pending`, `cancelled` | 1 order, 2 payments, 3 notifications | violated, see section 5 |
| `twice` | 1 order, 2 payments of one provider, 3 notifications, 2 sessions | violated, see section 5 |

Why these bounds are enough to meet the interesting cases: two orders and
one product compete for the last piece; two payments are the least with which
a replaced payment, or payments at both providers, exist; three notifications
make every order of success, failure and repetition of one reference, and
each is recorded with any of the six statuses; two sessions with two products
make a circle of waiting, and three sessions a request that arrives while two
others wait. The order in the payment runs meets every status an
administrator can give it. In `races` `Reported` and `Asked` bound the statuses
that notifications and administrators name to those that pay, close, expire or
reset; the products can be ordered (`Orderables`). Two notifications are the
least that overlap or repeat one another; two rows of one reference are paid by
three, one of which cancels the first (`twice`). In `baskets` the administrators
ask for PAID and CANCELLED, which keep and return the items, and manage one
product, of which deletions and Updates overlap everything else. Two
addresses are the least with two defaults, and the third session changes an
address while two others set the default. Two lines of one product are a
doubled line, two carts an ordered and an ACTIVE one or those of two customers.
Two sessions overtake each other, and a third slug is free while two products
exist. With a TTL of one,
two moments pass from a lock to the end of the last token. Two transactions of
one order are a lost attempt and a successful one; two reports are the least
that are reordered or share an identifier.

**Fairness.** Two runs assume any. `baskets`: each session's next statement is
executed if it can be (the server goes on with a request, the database serves
a statement whose row is free), and the database aborts a session of a
circle (PostgreSQL's `deadlock_timeout`). `deliveries`: a report of payment
arrives in the end, because the providers repeat a report until it is answered
with success, and the server answers an error with a status they repeat for.
Nothing is assumed of customers, administrators or failures, and nothing of
reports of other statuses. `baskets` has an order identifier for every session,
since the code never runs out of them. The runs of `StockTx`, `CartTx`,
`Catalogue` and `Delivery` do not check for deadlock: when identifiers, bounds
and money are used up the model may stop.

## 4. The proofs

`CommerceProofs` proves, for any sets of customers, products, orders, payment
identifiers, providers and notifications and any bounds:

| Theorem | Property |
|---|---|
| `TypeCorrect` | `TypeOK`; in particular stock is never negative |
| `StockConserved` | `StockConservation` |
| `StoreImplementsLedger` | `ImplementsLedger` |
| `SettledPaymentsCloseOrders` | `SettledPaymentClosesOrder` |
| `ReopenedOrdersArePaid` | `ReopenedOrderIsPaid` |
| `PaidPaymentsFinal` | `PaidPaymentFinal` |
| `AcceptedMoneyMarksOrdersPaid` | `AcceptedMoneyMarksOrderPaid` |
| `LateFailuresNeverUndoPaid` | `LateFailureNeverUndoesPaid` |
| `StoreImplementsCarts` | `ImplementsCarts` |

Assumptions: payment identifiers are natural numbers (they are compared), the
bounds are natural numbers, and `NoRow` is no row.

The argument is the invariant `IInv` (`Invariance`). None of the safety properties
is inductive alone. `SettledPaymentClosesOrder` rests on every status a
notification or an administrator gives an order being another than
PENDING_PAYMENT, on a payment row being made only while its order waits for
payment, and on a payment's order existing (`PaymentHasOrder`).
`PendingHoldsStock` connects the flag `stock_restored` with the status, and
`ReopenedOrderIsPaid` says which orders may be sold after it was set.
`PaidIsDated` is what `PaidPaymentFinal` needs of a payment that is paid, and
`FirstHasLed` what the statements of `WebhookTx` need of the observer. The lemmas
`PaymentsAdvance` and `OrdersAdvance` say once what any request can do to a
payment and to an order, and the action properties follow from them and the
invariant. No theorem needs that a notification finds the first row of its
reference, and none says that a reference is paid once, which is not so
(section 5).

The refinement proof maps what an order holds to its items until
`stock_restored` is set, then to nothing: checkout is `Take`, a move that
returns stock `GiveBack`, SetStock and Update `Count`, Delete `Withdraw`, any
other request about an order `Keep`, and what remains a stuttering step. What is
given back reaches every product that is live, except that one which was
withdrawn and brought back while a request may have been at it gets all of its
items or none; `Count` allows any stock.

`DeliveryProofs` proves of `CommerceHistory`, with the same assumptions:
`PaidNotificationsApplied` (`PaidNotificationApplied`) and
`UnsoldOrdersReturnStock` (`UnsoldOrderReturnsStock`). Every step is one of
`Commerce`, so `IInv` is inherited. `HInv` adds that the observer has seen the
current status of every order (`PastSeen`), and that a paid payment sells its
order unless that has been cancelled (`PaidPaymentSells`). A notification of
payment is without effect only if its payment is paid, which that conjunct
covers, or its order is cancelled, which the observer has seen. An order leaves
PENDING_PAYMENT with its items unreturned only to be sold.

Of `Delivery` it proves, for any transactions, any words the providers use and
any number of reports sent, lost, reordered and repeated:

| Theorem | States |
|---|---|
| `DeliveryImplementsHistory` | `DSpec => HSpec`: an accepted report is one HandleWebhook, everything else at the providers a stuttering step |
| `MoneyTakenBeforePaid` | `PaidOnlyIfMoneyTaken` |
| `AnsweredReportsApplied` | `AnsweredReportIsApplied` |
| `WaitingReportsApply` | a report of payment that has been sent has arrived, or is `Applicable` |
| `AppliedReportsArriveAndStay` | accepting a report of payment makes it arrive; a report that has arrived stays so |

With the first one the invariants and theorems of `CommerceHistory` hold of
`Delivery`. Its own invariant `DInv` follows the money: a report is true of its
transaction (`ReportsAreTrue`), the reference of a transaction is that of a
payment (`TransactionsHavePayments`), what the store has recorded was reported
(`EventsWereReported`), and what was answered with success is recorded
(`AnswersAreRecorded`). A payment becomes PAID by a notification only, so by a
true report, of a transaction whose money was taken; and a transaction leaves
`taken` for nothing. The last two theorems are what `ReportedMoneyArrives` says
without fairness: nothing refuses a report of payment before it has arrived,
though the identifiers of reports are shared, and one delivery is enough.
That it is delivered is the fairness, and stays with TLC. Assumed in addition:
the words are ones the parser knows, the identifiers it makes are recorded as
they are, no transaction is `NoRow`, and the digest of a payload is the name of
no transaction (`DigestsAssumption`; a shortened SHA-1 in the code).

The theorems of `CommerceProofs` are about requests that take effect as a whole;
`StockProofs` and `WebhookProofs` are about overlapping transactions.

`StockProofs` proves of `StockTx`, for any number of sessions and any managed
products, with Updates that bring products back: `StockInvariance`,
`TransactionsTyped` (`TxTypeOK`) and `CheckoutsImplementStore`
(`ImplementsStore`). The invariant `IInv` of `StockTx` says what a lock is for. Two
sessions never hold one cart, one order or one product row (`LocksApart`); the
lines a checkout has read are still those of its cart, each is still to be
visited or its product is held and serves it (`CheckoutReadsHold`); the order a
change of status has read still allows it, and each of its items is to be
visited, held or of a product that is deleted or was brought back since
(`UpdateReadsHold`). A commit therefore
writes what the whole request would write to the rows as they are at that
moment, and every other step of a session changes no committed row. Assumed
besides the bounds: `NoRow` is neither a row nor a request.

Two more theorems are the safety half of `EveryRequestAnswered`.
`StandstillsAreCircles` (`StandstillIsCircle`): of finitely many running requests one can go on
(`CanProceed` spells out the guards of `Proceed`, and asks for an unused order
identifier) or is in a circle, which the database breaks. A session that cannot
go on waits for another one that runs (`WaitsForRunning`; that it does not wait
for itself is `VisitedOnce`, that nobody waits for a session that has ended is
`SessionStarted`), and following the one each waits for leads into a circle,
because the smallest set closed under that is its own image (`FunctionCircle`).
`RunningRequestsAdvance`: `StatementsLeft` of a running request never grows and
each of its own steps makes it smaller. What remains to liveness is that the
scheduler takes the steps there are.

`WebhookProofs` proves of `WebhookTx`: `LocksExclude` (`SessionsOK`) and
`TransactionsImplementStore` (`ImplementsStore`, which is `Spec` of `Commerce`). In
its invariant `TxIInv`, `ReadsHold` says that the payment and the order a
transaction has read under their locks are as it has read them, that the payment
was the first of its reference when it was found, that the identifier it has
inserted is not recorded, and that an order found without a pending payment
stays so while it is held. So each commit is a step `HandleWebhook`,
`CreatePaymentForOrder` or `UpdateOrderStatus` of `Commerce`, and everything that is
proved of `Commerce` holds of transactions that overlap as well:
`TxStoreInvariance` (all of `IInv`), `TxSettledPaymentsCloseOrders`,
`TxReopenedOrdersArePaid`, `TxStockConserved`, `TxPaidPaymentsFinal`,
`TxAcceptedMoneyMarksOrdersPaid`, `TxLateFailuresNeverUndoPaid`, `TxImplementsLedger`
and `TxImplementsCarts`.
`TransactionsNeverStandStill` (`NoStandstill`) says that of these transactions one can always go
on (while there is an unused payment identifier): they take an identifier, its
payment and its order in this sequence, so who waits for one of them waits for a
session that needs only later ones. The product rows that returned items
write are in the commit here; circles over those are what `StockTx` is about.

`AddressProofs` proves of `Addresses`, for any customers, addresses and
sessions: `TypeCorrect` (`TypeOK`), `AddressesStayOwn` (`OwnAddressesOnly`) and
`DefaultIsUnique` (`OneDefaultUnlessOverlapped`). That a session writes only
what its customer owns needs the last conjunct of `TypeOK`: what a session has
found stays the customer's or is deleted, and sessions that found one row serve
one customer. `UnsetBeforeWrite` carries uniqueness over the gap between the
two statements: a session that nobody overtook finds its customer without a
default when it writes.

`CartProofs` proves of `CartTx`: `CartTypeCorrect` (`TypeOK`), `CartOrderedOnce`
(`OneOrderPerCart`), `CartOthersUntouched` (`OthersUntouched`),
`CartRequestsTakeEffect` (`RequestsTakeEffect`) and `CartDoubledByOvertaking`
(`DoubledOnlyByOvertaking`). The lock of the
cart is what the argument turns on: a cart that a checkout holds is ACTIVE and
in no other checkout (the last conjunct of `TypeOK`), so the order it commits is
the cart's first. That foreign lines are out of reach although `Save` writes
whatever row was read needs `SessionOK` and `FoundLineStays`: a line that a
session found stays in its cart or is deleted, and its identifier goes to no
other cart while a session remembers it.

The last two theorems rest on a second invariant, `EffectInv`
(`CartEffectInvariance`): what a request has read is what the tables hold, unless
another request of its customer has overtaken it (`ReadsHold`). It is preserved
because whatever one customer's commit changes that another of his requests has
read marks that one `overtaken`, and because a commit touches nothing another
customer's session reads. A basket counts pieces of lines
(`Pieces`, `QuantitiesOf`), so that what one written line changes can be said in
lemmas about cardinalities (`PieceOfLine`, `OneLineChanges`, `NoPieces`): the
effects of an insertion, a rewritten line, removal, clearing and checkout
(`InsertEffect` to `CheckoutEffect`) are then those of `CartLedger`, also when
the basket has a doubled line. That baskets are finite is part of the invariant.

`CatalogueProofs` proves of `Catalogue`, for any rows, slugs and sessions:
`CatalogueTypeCorrect` (`TypeOK`, the unique slugs included), `RowsAndImagesAgree`
(`RowAndImagesAgree`), `PublicOnlyIfOvertaken` (`PublicAgainOnlyIfOvertaken`) and
`DeletedCategoriesStay` (`DeletedCategoryOnlyUsedIfOvertaken`). `ReadsHold` says of
each statement a request has come to what its earlier ones have read, and that
it still holds unless the request was overtaken. That a slug stays unique when an
`Update` commits what it checked earlier needs `SavedApart`: of the requests
between Save and commit, no two hold one row or take one slug. Every write of a
row is one case of `ProductRowStep` or `CategoryRowStep`.

`AccessProofs` proves of `Access`, for every TTL: `AccessTypeCorrect` (`TypeOK`),
`RolesAreKeptApart` (`RolesKeptApart`), `LockTakesEffectWithinTTL`
(`LockedOutWithinTTL`), `LocksStay` (`LockStays`) and `AddressesBelongToOne`
(`OneAccountPerAddress`). `TokensOK` bounds the life of a token by the last moment
its account was active, and `SessionsOK` carries that over the gap between a
login's look at the account and its signature. Assumed: normalising an address
twice is normalising it once, and no identifier is both a customer's and an
administrator's (both are random UUIDs).

Every invariant and every action or step property that a passing run checks is
proved. Only model-checked are `EveryRequestAnswered` and `ReportedMoneyArrives`:
they are liveness under fairness, for which the prover has no ENABLED.
`StandstillsAreCircles` and `RunningRequestsAdvance` are the safety half of the
first, `WaitingReportsApply` and `AppliedReportsArriveAndStay` that of the second.
`RequestsAdvance`, which the second theorem states, belongs to no run. Not a theorem either is that the assumptions about constants
have instances: TLC evaluates them in every run.

## 5. What the code does not keep

Three expectations of the repository's tests and documentation do not hold; each
run gives a shortest sequence of requests that breaks one.

- `OnceCancelledNeverPaid` (`cancelled`): an administrator cancels an order,
  its expiry is notified and overwrites CANCELLED with EXPIRED, and then its
  payment is notified and sells it, with its stock already returned.
- `AtMostOnePendingPayment` (`pending`): a payment cancelled at the provider is
  replaced; a PENDING notification of the first makes both pending.
- `OnePaidPaymentPerReference` (`twice`): a notification looks its payment up
  before it waits for the order. If that payment was cancelled and a replacement
  with a smaller key is made meanwhile, the old row is paid; the same payment
  notified under another identifier pays the replacement. `README.md:334` of the
  repository says that duplicates do not apply a status twice. When every request
  runs alone, the second notification finds the row that is paid.

For the same reasons an order marked paid by hand and completed is taken back to
PAID by its late notification, and an order that was paid and then cancelled
becomes EXPIRED by a late expiry, with its stock not returned:
`UnsoldOrderReturnsStock` is stated of orders that were never sold.

What else the models show the code to do, of which the repository says nothing:

- `ListPublic` never yields a page: `Preload("")`
  (`internal/product/service.go:219`) makes gorm refuse the query with its
  unsupported-relation error. `DetailBySlug` ignores the error of its image query
  (`:251`) and shows the product without images.
- Update of a product writes the stock it is given (`:115-128`), whatever was sold
  since the administrator counted. No property refuses that: for `ImplementsLedger`
  it is a `Count`, which may write any stock.
- A product that is deleted when the stock of an order is returned to it, and that
  an Update brings back before the commit, has lost those items although it is
  live when they are returned: `missed` in `MoveOrder`, `lost` in `StockLedger`.
- Overlapping requests may leave a customer two default addresses
  (`doubled`), and a failure between the two statements none; an address
  deleted while it is being updated comes back.
- Midtrans' reports of one transaction share an identifier, so the settlement of
  a transaction that was reported as pending or challenged before is refused as
  a repetition whenever it comes. That money is never booked; it is exactly the
  exception that `ReportedMoneyArrives` makes, so no property covers this case. It is
  answered with an error, and so is a true repetition, because PostgreSQL
  refuses the audit row after the unique violation; `README.md:334` of the
  repository has duplicates recorded.
- Requests of one customer that overlap lose increments, double a line, or put
  an item into a cart that a checkout has read and that is in no order: the
  exceptions in `RequestsTakeEffect`. UpdateItem and RemoveItem then change one of
  the two lines.
- An Update that was overtaken publishes a hidden product again, or brings a
  deleted product or category back; a product may be created in a category
  deleted meanwhile.
- A login that runs while its account is locked still gets a token, and tokens
  of a locked account are good until they expire.

## 6. Not modelled

- Prices, totals, discounts, names and the price snapshot of a cart line: they
  are copied and decide nothing above. Order numbers are taken to be unused;
  the unique index refuses others. A checkout for an address that is not the
  customer's is refused (`internal/order/service.go:56-59`) like one of an empty
  cart: it changes nothing.
- `ListPublic`, with its filters, its orders by name, price or creation in either
  direction (`internal/product/service.go:206-213`) and its total: it changes
  nothing and never yields a page (section 5).
- The category a page of the shop shows (`:248-249`): a third read, whose failure is
  ignored like that of the images.
- `internal/report` and the list of `internal/audit`: aggregates of tables that the
  other modules write; they keep no state and no other part reads them.
- `ValidateWebhook`, password hashing, signatures and the rotation of secrets: a
  comparison of one header, and library code.
- CreatePayment, GetPaymentStatus and CancelPayment of the providers: stubs.
- Formats of answers and errors, parsing of pages, request logging, CORS; the
  empty packages `internal/notification` and `internal/upload`.

What would come next: the reports as operators over the tables.
