----------------------------- MODULE DeliveryProofs -----------------------------
(***************************************************************************)
(* Proofs about CommerceHistory and Delivery: what becomes of an order and *)
(* of the money notified for it, whatever has happened to the order        *)
(* before, and what becomes of the reports of the providers on their way.  *)
(***************************************************************************)
EXTENDS Delivery, CommerceProofs, WellFoundedInduction

Closed == {"CANCELLED", "EXPIRED", "FAILED"}

\* The observer changes nothing of the store.
LEMMA StoreStep == [HNext]_hvars => [Next]_vars
BY DEF HNext, hvars

LEMMA HistoryImplementsStore == HSpec => Spec
<1>1. HInit => Init
  BY DEF HInit
<1>2. QED
  BY <1>1, StoreStep, PTL DEF HSpec, Spec

\* What the observer has seen of an order it goes on to know.
LEMMA PastGrows ==
    ASSUME IInv, PastSeen, [HNext]_hvars, NEW o \in Orders, order[o] # NoRow
    PROVE  /\ order'[o] # NoRow
           /\ order[o].status \in past[o]
           /\ past[o] \subseteq past'[o]
           /\ order'[o].status \in past'[o]
<1>1. order'[o] # NoRow
  BY OrdersAdvance, StoreStep
<1>2. CASE HNext
  BY <1>1, <1>2 DEF HNext, Observe, PastSeen
<1>3. CASE UNCHANGED hvars
  BY <1>1, <1>3 DEF hvars, vars, PastSeen
<1>4. QED
  BY <1>1, <1>2, <1>3

LEMMA PastSeenStep ==
    ASSUME IInv, PastSeen, [HNext]_hvars
    PROVE  PastSeen'
<1>1. SUFFICES ASSUME NEW o \in Orders
               PROVE  IF order'[o] = NoRow THEN past'[o] = {} ELSE order'[o].status \in past'[o]
  BY DEF PastSeen
<1>2. CASE HNext
  BY <1>1, <1>2 DEF HNext, Observe
<1>3. CASE UNCHANGED hvars
  BY <1>1, <1>3 DEF hvars, vars, PastSeen
<1>4. QED
  BY <1>2, <1>3

\* A sold order that no administrator has cancelled stays sold.
LEMMA SoldStays ==
    ASSUME IInv, PastSeen, [HNext]_hvars, NEW o \in Orders, order[o] # NoRow,
           order[o].status \in Sold, "CANCELLED" \notin past'[o]
    PROVE  order'[o].status \in Sold
<1>1. order'[o].status \in Sold \cup {"CANCELLED"}
  BY OrdersAdvance, StoreStep
<1>2. order'[o].status # "CANCELLED"
  BY PastGrows
<1>3. QED
  BY <1>1, <1>2

LEMMA PaidPaymentSellsStep ==
    ASSUME IInv, PastSeen, PaidPaymentSells, [HNext]_hvars
    PROVE  PaidPaymentSells'
<1> SUFFICES ASSUME NEW i \in PaymentIds, payment'[i] # NoRow, payment'[i].status = "PAID",
                    "CANCELLED" \notin past'[payment'[i].order]
             PROVE  order'[payment'[i].order].status \in Sold
  BY DEF PaidPaymentSells
<1>1. [Next]_vars
  BY StoreStep
<1>2. CASE payment[i] # NoRow /\ payment'[i] = payment[i]
  <2> DEFINE o == payment[i].order
  <2>1. o \in Orders /\ order[o] # NoRow
    BY <1>2, WebhookOrder DEF IInv
  <2>2. "CANCELLED" \notin past[o]
    BY <1>2, <2>1, PastGrows
  <2>3. order[o].status \in Sold
    BY <1>2, <2>2 DEF PaidPaymentSells
  <2>4. order'[o].status \in Sold
    BY <1>2, <2>1, <2>3, SoldStays
  <2>5. QED
    BY <1>2, <2>4
<1>3. CASE /\ payment'[i].order = payment[i].order
           /\ order'[payment[i].order].status = "PAID"
  BY <1>3 DEF Sold, OrderStatus
<1>4. QED
  BY <1>1, <1>2, <1>3, PaymentsAdvance, StoreStep

\* A row of the table of notifications is written by HandleWebhook.
LEMMA NewEvent ==
    ASSUME [Next]_vars, NEW e \in event', e \notin event
    PROVE  \E i \in PaymentIds, id \in EventIds :
               /\ HandleWebhook(i, id, e.status)
               /\ e.status \in PaymentStatus
               /\ e.order = payment[i].order
               /\ e.provider = payment[i].provider
<1>1. PICK i \in PaymentIds, id \in EventIds, s \in PaymentStatus : HandleWebhook(i, id, s)
  BY DEF Next, AdminStep, CustomerStep, ProviderStep, vars, SetStock, SetActive,
         DeleteProduct, UpdateProduct, AddItem, UpdateItem, RemoveItem, Clear, Restart,
         Checkout, UpdateOrderStatus, CreatePaymentForOrder
<1>2. e.status = s /\ e.order = payment[i].order /\ e.provider = payment[i].provider
  BY <1>1 DEF HandleWebhook
<1>3. QED
  BY <1>1, <1>2

LEMMA PaidNotificationAppliedStep ==
    ASSUME IInv, PastSeen, PaidPaymentSells, PaidNotificationApplied, [HNext]_hvars
    PROVE  PaidNotificationApplied'
<1> SUFFICES ASSUME NEW e \in event', e.status = "PAID", "CANCELLED" \notin past'[e.order]
             PROVE  /\ order'[e.order].status \in Sold
                    /\ \E i \in PaymentIds : /\ payment'[i] # NoRow
                                             /\ payment'[i].order = e.order
                                             /\ payment'[i].provider = e.provider
                                             /\ payment'[i].status = "PAID"
  BY DEF PaidNotificationApplied
<1>1. [Next]_vars
  BY StoreStep
<1>2. ASSUME NEW i \in PaymentIds, payment[i] # NoRow, payment[i].order = e.order,
             payment[i].provider = e.provider, payment[i].status = "PAID"
      PROVE  /\ order'[e.order].status \in Sold
             /\ payment'[i] = payment[i]
  <2>1. payment'[i] # NoRow
    BY <1>1, <1>2, PaymentStays, StoreStep
  <2>2. payment'[i] = payment[i]
    BY <1>1, <1>2, <2>1, PaymentsAdvance, StoreStep
  <2>3. PaidPaymentSells'
    BY PaidPaymentSellsStep
  <2>4. QED
    BY <1>2, <2>2, <2>3 DEF PaidPaymentSells
<1>3. CASE e \in event
  <2>1. e.order \in Orders
    BY <1>3 DEF IInv, TypeOK, EventRow
  <2>2. "CANCELLED" \notin past[e.order]
    BY <2>1, PastGrows DEF PastSeen
  <2>3. PICK i \in PaymentIds : /\ payment[i] # NoRow
                                /\ payment[i].order = e.order
                                /\ payment[i].provider = e.provider
                                /\ payment[i].status = "PAID"
    BY <1>3, <2>2 DEF PaidNotificationApplied
  <2>4. QED
    BY <1>2, <2>3
<1>4. CASE e \notin event
  <2>1. PICK i \in PaymentIds, id \in EventIds :
            /\ HandleWebhook(i, id, "PAID")
            /\ e.order = payment[i].order /\ e.provider = payment[i].provider
    BY <1>1, <1>4, NewEvent
  <2>2. payment[i] # NoRow /\ "PAID" \in PaymentStatus
    BY <2>1 DEF HandleWebhook, FirstByReference, PaymentStatus
  <2>3. e.order \in Orders /\ order[e.order] # NoRow
    BY <2>1, <2>2, WebhookOrder DEF IInv
  <2>4. order[e.order].status # "CANCELLED"
    BY <2>3, PastGrows
  <2>5. CASE payment[i].status = "PAID"
    BY <1>2, <2>1, <2>2, <2>5
  <2>6. CASE payment[i].status # "PAID"
    <3>1. PaymentGets(i, "PAID")
      BY <2>1, <2>4, <2>6 DEF HandleWebhook, applyWebhookStatus, PaymentGets
    <3>2. /\ payment'[i] # NoRow /\ payment'[i].status = "PAID"
          /\ payment'[i].order = e.order /\ payment'[i].provider = e.provider
      BY <2>1, <2>2, <3>1, PaymentGetsEffect DEF IInv
    <3>3. order'[e.order].status = "PAID"
      BY <1>1, <2>1, <2>2, <2>6, <3>2, PaymentsAdvance, StoreStep
    <3>4. QED
      BY <3>2, <3>3 DEF Sold, OrderStatus
  <2>7. QED
    BY <2>5, <2>6
<1>5. QED
  BY <1>3, <1>4

-----------------------------------------------------------------------------
(***************************************************************************)
(* Orders that were never sold.                                            *)
(***************************************************************************)

\* What was given back stays so, and the move that closes an order that
\* waits for payment gives its items back.
LEMMA ClosingReturns ==
    ASSUME IInv, [Next]_vars, NEW o \in Orders, order[o] # NoRow
    PROVE  /\ order[o].restored => order'[o].restored
           /\ order[o].status = "PENDING_PAYMENT" /\ order'[o].status \in Closed =>
                  order'[o].restored
<1> USE DEF IInv
<1>1. CASE order'[o] = order[o]
  BY <1>1 DEF Closed
<1>2. ASSUME NEW c \in Customers, NEW n \in Orders, Checkout(c, n)
      PROVE  order'[o] = order[o]
  BY <1>2 DEF Checkout, TypeOK
<1>3. ASSUME NEW n \in Orders, NEW next \in OrderStatus, UpdateOrderStatus(n, next), n # o
      PROVE  order'[o] = order[o]
  BY <1>3, MoveOrderEffect DEF UpdateOrderStatus
<1>4. order[o].status = "PENDING_PAYMENT" => ~order[o].restored
  BY DEF PendingHoldsStock
<1>5. ASSUME NEW next \in OrderStatus, UpdateOrderStatus(o, next)
      PROVE  /\ order[o].restored => order'[o].restored
             /\ order[o].status = "PENDING_PAYMENT" /\ order'[o].status \in Closed =>
                    order'[o].restored
  <2>1. /\ order'[o].status = next
        /\ order'[o].restored =
              (order[o].restored \/ ReturnsStock(order[o].status, next, order[o].restored))
    BY <1>5, MoveOrderEffect DEF UpdateOrderStatus
  <2>2. QED
    BY <1>4, <2>1 DEF ReturnsStock, Closed
<1>6. ASSUME NEW i \in PaymentIds, NEW id \in EventIds, NEW s \in PaymentStatus,
             HandleWebhook(i, id, s), order'[o] # order[o]
      PROVE  /\ order[o].restored => order'[o].restored
             /\ order[o].status = "PENDING_PAYMENT" /\ order'[o].status \in Closed =>
                    order'[o].restored
  <2> DEFINE n == payment[i].order
             next == applyOrderTransition(order[n].status, s)
  <2>1. payment[i] # NoRow
    BY <1>6 DEF HandleWebhook
  <2>2. n \in Orders /\ order[n] # NoRow /\ order[n].status \in OrderStatus
    BY <2>1, WebhookOrder
  <2>3. s \in SettlingStatus /\ MoveOrder(n, s, next)
    BY <1>6, WebhookCases
  <2>4. next \in OrderStatus
    BY <2>2, <2>3, TransitionTyped
  <2>5. order[n].status = "PENDING_PAYMENT" => next = s
    BY <2>3 DEF applyOrderTransition, SettlingStatus, PaidOrBeyond
  <2>6. /\ o = n
        /\ order'[n].status = next
        /\ order'[n].restored =
              (order[n].restored \/ ReturnsStock(order[n].status, s, order[n].restored))
    <3> HIDE DEF next, n
    <3>1. QED
      BY <1>6, <2>2, <2>3, <2>4, MoveOrderEffect
  <2> HIDE DEF next, n
  <2>7. QED
    BY <1>4, <2>3, <2>5, <2>6 DEF ReturnsStock, Closed, SettlingStatus
<1>7. QED
  BY <1>1, <1>2, <1>3, <1>5, <1>6, StepCases DEF CreatePaymentForOrder

LEMMA UnsoldOrderReturnsStockStep ==
    ASSUME IInv, PastSeen, UnsoldOrderReturnsStock, [HNext]_hvars
    PROVE  UnsoldOrderReturnsStock'
<1> SUFFICES ASSUME NEW o \in Orders, order'[o] # NoRow, order'[o].status \in Closed,
                    past'[o] \cap Sold = {}
             PROVE  order'[o].restored
  BY DEF UnsoldOrderReturnsStock, Closed
<1>1. [Next]_vars
  BY StoreStep
<1>2. order[o] # NoRow
  BY <1>1, NewOrder, StoreStep DEF Closed
<1>3. order[o].status \in OrderStatus \ Sold /\ past[o] \cap Sold = {}
  <2>1. order[o].status \in OrderStatus
    BY <1>2 DEF IInv, TypeOK, OrderRow
  <2>2. QED
    BY <1>2, <2>1, PastGrows
<1>4. CASE order[o].status = "PENDING_PAYMENT"
  BY <1>1, <1>2, <1>4, ClosingReturns, StoreStep
<1>5. CASE order[o].status \in Closed
  <2>1. order[o].restored
    BY <1>2, <1>3, <1>5 DEF UnsoldOrderReturnsStock, Closed
  <2>2. QED
    BY <1>1, <1>2, <2>1, ClosingReturns, StoreStep
<1>6. QED
  BY <1>3, <1>4, <1>5 DEF Sold, Closed, OrderStatus

-----------------------------------------------------------------------------
(***************************************************************************)
(* Theorems.                                                               *)
(***************************************************************************)

\* Besides the invariant of the store, its observer knows the statuses of
\* every order, and money taken and money notified sell it
\* (internal/payment/service.go:104-174).
THEOREM HistoryInvariance == HSpec => [](IInv /\ HInv)
<1>1. HInit => HInv
  BY DEF HInit, Init, HInv, PastSeen, PaidPaymentSells, PaidNotificationApplied,
         UnsoldOrderReturnsStock
<1>2. IInv /\ HInv /\ [HNext]_hvars => HInv'
  BY PastSeenStep, PaidPaymentSellsStep, PaidNotificationAppliedStep,
     UnsoldOrderReturnsStockStep DEF HInv
<1>3. HSpec => []IInv
  BY HistoryImplementsStore, Invariance, PTL
<1>4. QED
  BY <1>1, <1>2, <1>3, PTL DEF HSpec

\* No recorded notification of payment is lost, however it is mixed with
\* other notifications and second payments, unless an administrator cancelled
\* the order.
THEOREM PaidNotificationsApplied == HSpec => []PaidNotificationApplied
<1>1. HInv => PaidNotificationApplied
  BY DEF HInv
<1>2. QED
  BY <1>1, HistoryInvariance, PTL

\* An order closed without ever having been sold has given its items back.
THEOREM UnsoldOrdersReturnStock == HSpec => []UnsoldOrderReturnsStock
<1>1. HInv => UnsoldOrderReturnsStock
  BY DEF HInv
<1>2. QED
  BY <1>1, HistoryInvariance, PTL

-----------------------------------------------------------------------------
(***************************************************************************)
(* What reports say.                                                       *)
(***************************************************************************)

\* Every word is mapped to a status of this store, three of them to PAID.
LEMMA MappedStatus ==
    ASSUME NEW word
    PROVE  /\ Parsing!mapStatus(word) \in PaymentStatus
           /\ Parsing!mapStatus(word) = "PAID" <=> word \in {"settlement", "capture", "paid"}
BY DEF Parsing!mapStatus, PaymentStatus

\* The code takes a report of a challenged capture for pending, so a report
\* counts as payment only if the provider has taken the money
\* (internal/payment/providers.go:53-56).
LEMMA WordsOfPayment ==
    ASSUME NEW r, r.provider \in Providers, NEW phase \in Phase,
           r.status \in Wording[r.provider][phase],
           r.challenge <=> phase = "challenged",
           Pays(r)
    PROVE  phase = "taken"
<1>1. Parsing!WordOf(r) \in {"settlement", "capture", "paid"}
  <2>1. Parsing!mapStatus(Parsing!WordOf(r)) = "PAID"
    BY DEF Pays, ParseWebhook, Parsing!ParseWebhook
  <2>2. QED
    BY <2>1, MappedStatus
<1>2. CASE r.provider = "midtrans"
  BY <1>1, <1>2 DEF Parsing!WordOf, Wording, Phase
<1>3. CASE r.provider = "xendit"
  BY <1>1, <1>3 DEF Parsing!WordOf, Wording, Phase
<1>4. QED
  BY <1>2, <1>3, ProvidersAssumption

\* A report is parsed to a reference, a status and an identifier the store knows.
LEMMA ParsedReport ==
    ASSUME NEW r \in Payload
    PROVE  /\ ParseWebhook(r).order = r.order
           /\ r.order \in Orders
           /\ ParseWebhook(r).status \in PaymentStatus
           /\ ParseWebhook(r).id \in EventIds
<1>1. r \in Parsing!Payload
  BY DEF Payload
<1>2. r.order \in Orders
  BY <1>1 DEF Parsing!Payload
<1>3. ParseWebhook(r).order = r.order /\ ParseWebhook(r).status \in PaymentStatus
  BY MappedStatus DEF ParseWebhook, Parsing!ParseWebhook
<1>4. QED
  BY <1>2, <1>3, EventIdsAssumption

\* The report a provider sends of a transaction is one there is.
LEMMA SentReport ==
    ASSUME NEW x \in Transaction, NEW t \in Transactions, transaction[t] = x,
           NEW word \in Vocabulary, word \in Wording[x.provider][x.phase],
           NEW id, id \in IdsFor(t, word)
    PROVE  [provider |-> x.provider, order |-> x.order, status |-> word,
            challenge |-> x.phase = "challenged", id |-> id] \in Payload
<1> DEFINE r == [provider |-> x.provider, order |-> x.order, status |-> word,
                 challenge |-> x.phase = "challenged", id |-> id]
<1>1. x.provider \in Providers /\ x.order \in Orders /\ x.phase \in Phase
  BY DEF Transaction
<1>2. x.provider \in {"midtrans", "xendit"} /\ word \in Parsing!Words
  BY <1>1, ProvidersAssumption, VocabularyAssumption
<1>3. IF x.provider = "midtrans" THEN id \in Transactions \cup {NoId}
                                ELSE id \in Transactions \X {word}
  BY DEF IdsFor
<1>4. id \in ReportIds \cup {NoId}
  BY <1>3 DEF ReportIds
<1>5. r \in Parsing!Payload
  BY <1>1, <1>2, <1>4 DEF Parsing!Payload
<1>6. word \in WordsOf(x.provider)
  BY <1>1 DEF WordsOf
<1>7. x.phase = "challenged" => x.provider = "midtrans" /\ word = "capture"
  BY <1>2 DEF Wording
<1>8. QED
  BY <1>1, <1>3, <1>5, <1>6, <1>7 DEF Payload

-----------------------------------------------------------------------------
(***************************************************************************)
(* The steps of Delivery.                                                  *)
(***************************************************************************)

\* A report that is accepted is one notification of the store.
LEMMA AcceptNotifies ==
    ASSUME NEW r \in Payload, Accept(r)
    PROVE  \E i \in PaymentIds :
               /\ payment[i] # NoRow
               /\ payment[i].provider = r.provider
               /\ payment[i].order = r.order
               /\ HandleWebhook(i, ParseWebhook(r).id, ParseWebhook(r).status)
               /\ HNext
<1>1. ParseWebhook(r).order = r.order
  BY ParsedReport
<1>2. PICK i \in PaymentIds :
          /\ payment[i] # NoRow
          /\ payment[i].provider = r.provider
          /\ payment[i].order = r.order
          /\ HandleWebhook(i, ParseWebhook(r).id, ParseWebhook(r).status)
  BY <1>1 DEF Accept, Apply
<1>3. ParseWebhook(r).id \in EventIds /\ ParseWebhook(r).status \in PaymentStatus
  BY ParsedReport
<1>4. HNext
  BY <1>2, <1>3 DEF Accept, HNext, Next, ProviderStep
<1>5. QED
  BY <1>2, <1>4

\* Only a report that is accepted and the requests of administrators and
\* customers touch the store; a provider touches its books or sends.
LEMMA DeliverySteps ==
    ASSUME [DNext]_dvars
    PROVE  \/ UNCHANGED dvars
           \/ ShopStep
           \/ \E t \in Transactions, i \in PaymentIds : OpenTransaction(t, i)
           \/ \E t \in Transactions, phase \in Phase : MoveTransaction(t, phase)
           \/ \E t \in Transactions, word \in Vocabulary, id \in ReportIds \cup {NoId} :
                  SendReport(t, word, id)
           \/ \E r \in sent : Accept(r)
BY DEF DNext, Deliver, RefuseRepetition

LEMMA ShopStepIsStoreStep ==
    ASSUME ShopStep
    PROVE  HNext /\ UNCHANGED <<event, transaction, sent, answered>>
BY DEF ShopStep, HNext, Next, AdminStep, CustomerStep, SetStock, SetActive, DeleteProduct,
       UpdateProduct, UpdateOrderStatus, MoveOrder, AddItem, UpdateItem, RemoveItem, Clear,
       Checkout, CreatePaymentForOrder, Restart, world

LEMMA DeliveryStepsStore ==
    ASSUME WorldOK, [DNext]_dvars
    PROVE  [HNext]_hvars
<1>1. ASSUME NEW r \in sent, Accept(r) PROVE HNext
  BY <1>1, AcceptNotifies DEF WorldOK
<1>2. QED
  BY <1>1, DeliverySteps, ShopStepIsStoreStep
     DEF dvars, OpenTransaction, MoveTransaction, SendReport

LEMMA WorldOKStep ==
    ASSUME IInv, WorldOK, [DNext]_dvars
    PROVE  WorldOK'
<1>1. CASE UNCHANGED dvars
  BY <1>1 DEF dvars, world, WorldOK, PaymentReports, Pays
<1>2. CASE ShopStep
  BY <1>2, ShopStepIsStoreStep DEF WorldOK
<1>3. ASSUME NEW t \in Transactions, NEW i \in PaymentIds, OpenTransaction(t, i)
      PROVE  WorldOK'
  <2>1. payment[i] \in PaymentRow
    BY <1>3 DEF OpenTransaction, IInv, TypeOK
  <2>2. [provider |-> payment[i].provider, order |-> payment[i].order, phase |-> "open"]
            \in Transaction
    BY <2>1 DEF PaymentRow, Transaction, Phase
  <2>3. QED
    BY <1>3, <2>2 DEF OpenTransaction, WorldOK
<1>4. ASSUME NEW t \in Transactions, NEW phase \in Phase, MoveTransaction(t, phase)
      PROVE  WorldOK'
  <2>1. transaction[t] \in Transaction
    BY <1>4 DEF MoveTransaction, WorldOK
  <2>2. [transaction[t] EXCEPT !.phase = phase] \in Transaction
    BY <2>1 DEF Transaction
  <2>3. transaction' = [transaction EXCEPT ![t] = [transaction[t] EXCEPT !.phase = phase]]
    BY <1>4, <2>1 DEF MoveTransaction, WorldOK
  <2>4. QED
    BY <1>4, <2>2, <2>3 DEF MoveTransaction, WorldOK
<1>5. ASSUME NEW t \in Transactions, NEW word \in Vocabulary, NEW id \in ReportIds \cup {NoId},
             SendReport(t, word, id)
      PROVE  WorldOK'
  <2>1. transaction[t] \in Transaction
    BY <1>5 DEF SendReport, WorldOK
  <2>2. sent' \subseteq Payload
    BY <1>5, <2>1, SentReport DEF SendReport, WorldOK
  <2>3. QED
    BY <1>5, <2>2 DEF SendReport, WorldOK
<1>6. ASSUME NEW r \in sent, Accept(r) PROVE WorldOK'
  BY <1>6 DEF Accept, WorldOK
<1>7. QED
  BY <1>1, <1>2, <1>3, <1>4, <1>5, <1>6, DeliverySteps

\* The provider of a transaction and its order stay, and money once taken
\* stays taken.
LEMMA TransactionsAdvance ==
    ASSUME WorldOK, [DNext]_dvars, NEW t \in Transactions, transaction[t] # NoRow
    PROVE  /\ transaction'[t] # NoRow
           /\ transaction'[t].provider = transaction[t].provider
           /\ transaction'[t].order = transaction[t].order
           /\ transaction[t].phase = "taken" => transaction'[t].phase = "taken"
<1>1. ASSUME NEW x \in Transactions, NEW i \in PaymentIds, OpenTransaction(x, i)
      PROVE  transaction'[t] = transaction[t]
  BY <1>1 DEF OpenTransaction, WorldOK
<1>2. ASSUME NEW x \in Transactions, NEW phase \in Phase, MoveTransaction(x, phase), x # t
      PROVE  transaction'[t] = transaction[t]
  BY <1>2 DEF MoveTransaction, WorldOK
<1>3. ASSUME NEW phase \in Phase, MoveTransaction(t, phase)
      PROVE  /\ transaction'[t] # NoRow
             /\ transaction'[t].provider = transaction[t].provider
             /\ transaction'[t].order = transaction[t].order
             /\ transaction[t].phase # "taken"
  <2>1. transaction[t] \in Transaction
    BY DEF WorldOK
  <2>2. transaction'[t] = [transaction[t] EXCEPT !.phase = phase]
    BY <1>3, <2>1 DEF MoveTransaction, WorldOK
  <2>3. transaction'[t] \in Transaction
    BY <2>1, <2>2 DEF Transaction
  <2>4. QED
    BY <1>3, <2>1, <2>2, <2>3, NoTransactionAssumption DEF MoveTransaction, Transaction
<1>4. QED
  BY <1>1, <1>2, <1>3, DeliverySteps, ShopStepIsStoreStep DEF dvars, world, SendReport, Accept

LEMMA ReportsAreTrueStep ==
    ASSUME WorldOK, ReportsAreTrue, [DNext]_dvars
    PROVE  ReportsAreTrue'
<1> SUFFICES ASSUME NEW r \in sent'
             PROVE  \E t \in Transactions :
                        /\ transaction'[t] # NoRow
                        /\ transaction'[t].provider = r.provider
                        /\ transaction'[t].order = r.order
                        /\ r.id \in IdsFor(t, r.status)'
                        /\ Pays(r) => transaction'[t].phase = "taken"
  BY DEF ReportsAreTrue, Pays, ParseWebhook
<1>1. CASE r \in sent
  <2>1. PICK t \in Transactions :
            /\ transaction[t] # NoRow
            /\ transaction[t].provider = r.provider
            /\ transaction[t].order = r.order
            /\ r.id \in IdsFor(t, r.status)
            /\ Pays(r) => transaction[t].phase = "taken"
    BY <1>1 DEF ReportsAreTrue
  <2>2. /\ transaction'[t] # NoRow
        /\ transaction'[t].provider = transaction[t].provider
        /\ transaction'[t].order = transaction[t].order
        /\ transaction[t].phase = "taken" => transaction'[t].phase = "taken"
    BY <2>1, TransactionsAdvance
  <2>3. QED
    BY <2>1, <2>2 DEF IdsFor
<1>2. CASE r \notin sent
  <2>1. PICK t \in Transactions, word \in Vocabulary, id \in ReportIds \cup {NoId} :
            SendReport(t, word, id)
    BY <1>2, DeliverySteps, ShopStepIsStoreStep
       DEF dvars, world, OpenTransaction, MoveTransaction, Accept
  <2>2. /\ transaction[t] # NoRow /\ UNCHANGED transaction
        /\ word \in Wording[transaction[t].provider][transaction[t].phase]
        /\ id \in IdsFor(t, word)
        /\ r = [provider |-> transaction[t].provider, order |-> transaction[t].order,
                status |-> word, challenge |-> transaction[t].phase = "challenged", id |-> id]
    BY <1>2, <2>1 DEF SendReport
  <2>3. transaction[t].provider \in Providers /\ transaction[t].phase \in Phase
    BY <2>2 DEF WorldOK, Transaction
  <2>4. Pays(r) => transaction[t].phase = "taken"
    BY <2>2, <2>3, WordsOfPayment
  <2>5. QED
    BY <2>2, <2>4 DEF IdsFor
<1>3. QED
  BY <1>1, <1>2

\* A payment that exists keeps the reference it has.
LEMMA ReferenceStays ==
    ASSUME IInv, [HNext]_hvars, NEW i \in PaymentIds, payment[i] # NoRow
    PROVE  /\ payment'[i] # NoRow
           /\ payment'[i].provider = payment[i].provider
           /\ payment'[i].order = payment[i].order
BY StoreStep, PaymentStays, PaymentsAdvance

LEMMA TransactionsHavePaymentsStep ==
    ASSUME IInv, WorldOK, TransactionsHavePayments, [DNext]_dvars
    PROVE  TransactionsHavePayments'
<1> SUFFICES ASSUME NEW t \in Transactions, transaction'[t] # NoRow
             PROVE  \E i \in PaymentIds :
                        /\ payment'[i] # NoRow
                        /\ payment'[i].provider = transaction'[t].provider
                        /\ payment'[i].order = transaction'[t].order
  BY DEF TransactionsHavePayments
<1>1. [HNext]_hvars
  BY DeliveryStepsStore
<1>2. CASE transaction[t] # NoRow
  BY <1>1, <1>2, ReferenceStays, TransactionsAdvance DEF TransactionsHavePayments
<1>3. CASE transaction[t] = NoRow
  <2>1. PICK i \in PaymentIds : OpenTransaction(t, i)
    BY <1>3, DeliverySteps, ShopStepIsStoreStep
       DEF dvars, world, OpenTransaction, MoveTransaction, SendReport, Accept, WorldOK
  <2>2. /\ payment[i] # NoRow
        /\ transaction'[t].provider = payment[i].provider
        /\ transaction'[t].order = payment[i].order
    BY <2>1 DEF OpenTransaction, WorldOK
  <2>3. QED
    BY <1>1, <2>2, ReferenceStays
<1>4. QED
  BY <1>2, <1>3

\* A notification that is applied leaves one row in its table.
LEMMA WebhookRecords ==
    ASSUME NEW i, NEW id, NEW s, HandleWebhook(i, id, s)
    PROVE  \E e : /\ event' = event \cup {e}
                 /\ e.provider = payment[i].provider
                 /\ e.order = payment[i].order
                 /\ e.id = id
                 /\ e.status = s
<1> DEFINE changed == applyWebhookStatus(payment[i].status, s, order[payment[i].order].status)
           row == [provider |-> payment[i].provider, id |-> id, order |-> payment[i].order,
                   status |-> s, audit |-> IF changed THEN "PAYMENT_WEBHOOK"
                                                     ELSE "PAYMENT_WEBHOOK_DUPLICATE"]
<1>1. event' = event \cup {row}
  BY DEF HandleWebhook
<1>2. /\ row.provider = payment[i].provider /\ row.order = payment[i].order
      /\ row.id = id /\ row.status = s
  OBVIOUS
<1> HIDE DEF row
<1>3. QED
  BY <1>1, <1>2

\* What an accepted report leaves in the table of notifications.
LEMMA AcceptRecords ==
    ASSUME NEW r \in Payload, Accept(r)
    PROVE  /\ \E e \in event' : /\ e.provider = r.provider
                              /\ e.order = r.order
                              /\ e.status = ParseWebhook(r).status
           /\ \A e \in event' \ event : /\ e.provider = r.provider
                                       /\ e.order = r.order
                                       /\ e.id = ParseWebhook(r).id
                                       /\ e.status = ParseWebhook(r).status
           /\ event \subseteq event'
<1>1. PICK i \in PaymentIds :
          /\ payment[i].provider = r.provider
          /\ payment[i].order = r.order
          /\ HandleWebhook(i, ParseWebhook(r).id, ParseWebhook(r).status)
  BY AcceptNotifies
<1>2. PICK e : /\ event' = event \cup {e}
             /\ e.provider = r.provider
             /\ e.order = r.order
             /\ e.id = ParseWebhook(r).id
             /\ e.status = ParseWebhook(r).status
  BY <1>1, WebhookRecords
<1>3. QED
  BY <1>2

LEMMA EventsWereReportedStep ==
    ASSUME WorldOK, EventsWereReported, [DNext]_dvars
    PROVE  EventsWereReported' /\ event \subseteq event'
<1>1. sent \subseteq sent'
  BY DeliverySteps, ShopStepIsStoreStep
     DEF dvars, world, OpenTransaction, MoveTransaction, SendReport, Accept
<1>2. CASE UNCHANGED event
  BY <1>1, <1>2 DEF EventsWereReported, ParseWebhook
<1>3. ASSUME NEW r \in sent, Accept(r)
      PROVE  EventsWereReported' /\ event \subseteq event'
  <2>1. r \in Payload
    BY DEF WorldOK
  <2>2. QED
    BY <1>1, <1>3, <2>1, AcceptRecords DEF EventsWereReported, ParseWebhook
<1>4. QED
  BY <1>2, <1>3, DeliverySteps, ShopStepIsStoreStep
     DEF dvars, hvars, vars, OpenTransaction, MoveTransaction, SendReport

LEMMA AnswersAreRecordedStep ==
    ASSUME WorldOK, EventsWereReported, AnswersAreRecorded, [DNext]_dvars
    PROVE  AnswersAreRecorded'
<1>1. event \subseteq event'
  BY EventsWereReportedStep
<1>2. CASE UNCHANGED answered
  BY <1>1, <1>2 DEF AnswersAreRecorded
<1>3. ASSUME NEW r \in sent, Accept(r)
      PROVE  AnswersAreRecorded'
  <2>1. r \in Payload
    BY DEF WorldOK
  <2>2. r \in PaymentReports => ParseWebhook(r).status = "PAID"
    BY DEF PaymentReports, Pays
  <2>3. answered' \subseteq answered \cup ({r} \cap PaymentReports)
    BY <1>3 DEF Accept
  <2>4. QED
    BY <1>1, <1>3, <2>1, <2>2, <2>3, AcceptRecords DEF AnswersAreRecorded
<1>4. QED
  BY <1>2, <1>3, DeliverySteps, ShopStepIsStoreStep
     DEF dvars, world, OpenTransaction, MoveTransaction, SendReport

\* A payment that becomes paid does so by a report of payment.
LEMMA PaidByReport ==
    ASSUME IInv, WorldOK, [DNext]_dvars, NEW i \in PaymentIds,
           payment'[i] # NoRow, payment'[i].status = "PAID"
    PROVE  \/ payment[i] # NoRow /\ payment'[i] = payment[i]
           \/ \E r \in sent : /\ Pays(r)
                             /\ payment'[i].provider = r.provider
                             /\ payment'[i].order = r.order
<1>1. CASE UNCHANGED payment
  BY <1>1
<1>2. CASE ShopStep
  <2>1. ASSUME NEW o \in Orders, NEW j \in PaymentIds, CreatePaymentForOrder(o, j)
        PROVE  payment[i] # NoRow /\ payment'[i] = payment[i]
    <3>1. i # j
      BY <2>1 DEF CreatePaymentForOrder, IInv, TypeOK
    <3>2. QED
      BY <2>1, <3>1 DEF CreatePaymentForOrder, IInv, TypeOK
  <2>2. UNCHANGED payment \/ \E o \in Orders, j \in PaymentIds : CreatePaymentForOrder(o, j)
    BY <1>2 DEF ShopStep, AdminStep, CustomerStep, SetStock, SetActive, DeleteProduct,
         UpdateProduct, UpdateOrderStatus, AddItem, UpdateItem, RemoveItem, Clear,
         Checkout, Restart
  <2>3. QED
    BY <2>1, <2>2
<1>3. ASSUME NEW r \in sent, Accept(r)
      PROVE  \/ payment[i] # NoRow /\ payment'[i] = payment[i]
             \/ /\ Pays(r)
                /\ payment'[i].provider = r.provider
                /\ payment'[i].order = r.order
  <2>1. r \in Payload
    BY DEF WorldOK
  <2>2. PICK j \in PaymentIds :
            /\ payment[j] # NoRow
            /\ payment[j].provider = r.provider
            /\ payment[j].order = r.order
            /\ HandleWebhook(j, ParseWebhook(r).id, ParseWebhook(r).status)
    BY <1>3, <2>1, AcceptNotifies
  <2> DEFINE s == ParseWebhook(r).status
  <2>3. s \in PaymentStatus /\ ParseWebhook(r).id \in EventIds
    BY <2>1, ParsedReport
  <2>4. CASE UNCHANGED payment
    BY <2>4
  <2>5. CASE PaymentGets(j, s)
    <3>1. /\ \A k \in PaymentIds \ {j} : payment'[k] = payment[k]
          /\ payment'[j].status = s
          /\ payment'[j].order = payment[j].order
          /\ payment'[j].provider = payment[j].provider
      BY <2>2, <2>3, <2>5, PaymentGetsEffect DEF IInv
    <3>2. QED
      BY <2>2, <3>1 DEF Pays
  <2>6. QED
    BY <2>2, <2>3, <2>4, <2>5, WebhookCases DEF HandleWebhook
<1>4. QED
  BY <1>1, <1>2, <1>3, DeliverySteps
     DEF dvars, hvars, vars, OpenTransaction, MoveTransaction, SendReport

LEMMA PaidOnlyIfMoneyTakenStep ==
    ASSUME IInv, WorldOK, ReportsAreTrue, PaidOnlyIfMoneyTaken, [DNext]_dvars
    PROVE  PaidOnlyIfMoneyTaken'
<1> SUFFICES ASSUME NEW i \in PaymentIds, payment'[i] # NoRow, payment'[i].status = "PAID"
             PROVE  \E t \in Transactions :
                        /\ transaction'[t] # NoRow
                        /\ transaction'[t].provider = payment'[i].provider
                        /\ transaction'[t].order = payment'[i].order
                        /\ transaction'[t].phase = "taken"
  BY DEF PaidOnlyIfMoneyTaken
<1>1. \E t \in Transactions : /\ transaction[t] # NoRow
                             /\ transaction[t].provider = payment'[i].provider
                             /\ transaction[t].order = payment'[i].order
                             /\ transaction[t].phase = "taken"
  BY PaidByReport DEF PaidOnlyIfMoneyTaken, ReportsAreTrue
<1>2. QED
  BY <1>1, TransactionsAdvance

-----------------------------------------------------------------------------
(***************************************************************************)
(* Theorems about Delivery.                                                *)
(***************************************************************************)

LEMMA WorldInvariance == DSpec => [](IInv /\ WorldOK)
<1>1. DInit => IInv /\ WorldOK
  BY InvInit DEF DInit, HInit, WorldOK
<1>2. IInv /\ WorldOK /\ [DNext]_dvars => (IInv /\ WorldOK)'
  BY DeliveryStepsStore, StoreStep, InvStep, WorldOKStep
<1>3. QED
  BY <1>1, <1>2, PTL DEF DSpec

\* However notifications are delayed, repeated, reordered and answered, to the
\* store they are a sequence of its own requests: what is proved of
\* CommerceHistory and of Commerce holds while they are on their way.
THEOREM DeliveryImplementsHistory == DSpec => HSpec
<1>1. DInit => HInit
  BY DEF DInit
<1>2. WorldOK /\ [DNext]_dvars => [HNext]_hvars
  BY DeliveryStepsStore
<1>3. QED
  BY <1>1, <1>2, WorldInvariance, PTL DEF DSpec, HSpec

\* Reports are about transactions that exist, transactions about payments,
\* and what the store has recorded or answered was reported to it.
THEOREM DeliveryInvariance == DSpec => []DInv
<1>1. DInit => DInv
  BY DEF DInit, HInit, Init, DInv, WorldOK, ReportsAreTrue, TransactionsHavePayments,
         EventsWereReported, AnswersAreRecorded, PaidOnlyIfMoneyTaken
<1>2. IInv /\ DInv /\ [DNext]_dvars => DInv'
  BY WorldOKStep, ReportsAreTrueStep, TransactionsHavePaymentsStep, EventsWereReportedStep,
     AnswersAreRecordedStep, PaidOnlyIfMoneyTakenStep DEF DInv
<1>3. QED
  BY <1>1, <1>2, WorldInvariance, PTL DEF DSpec

\* A payment is paid only if its provider has taken the customer's money.
THEOREM MoneyTakenBeforePaid == DSpec => []PaidOnlyIfMoneyTaken
<1>1. DInv => PaidOnlyIfMoneyTaken
  BY DEF DInv
<1>2. QED
  BY <1>1, DeliveryInvariance, PTL

\* A provider that is told its report of payment was taken need not send it
\* again: the payment is paid, unless the order was cancelled.
THEOREM AnsweredReportsApplied == DSpec => []AnsweredReportIsApplied
<1>1. PaidNotificationApplied /\ AnswersAreRecorded => AnsweredReportIsApplied
  BY DEF PaidNotificationApplied, AnswersAreRecorded, AnsweredReportIsApplied, PaidAt
<1>2. DInv => AnswersAreRecorded
  BY DEF DInv
<1>3. QED
  BY <1>1, <1>2, DeliveryInvariance, DeliveryImplementsHistory, PaidNotificationsApplied, PTL

-----------------------------------------------------------------------------
(***************************************************************************)
(* The steps of ReportedMoneyArrives: a report of payment that waits is    *)
(* refused by nothing, arrives when it is applied, and stays so.           *)
(***************************************************************************)

LEMMA LeastNumber ==
    ASSUME NEW S \in SUBSET Nat, S # {}
    PROVE  \E x \in S : \A y \in S : x <= y
<1>1. PICK x \in S : \A y \in S : ~ (<<y, x>> \in OpToRel(<, Nat))
  BY WFMin, NatLessThanWellFounded, Zenon
<1>2. QED
  <2>1. \A y \in S : ~ (y < x)
    BY <1>1, Zenon DEF OpToRel
  <2>2. QED
    BY <2>1

\* Of the rows with the reference of a payment, one is the first.
LEMMA FirstExists ==
    ASSUME NEW i \in PaymentIds, payment[i] # NoRow
    PROVE  \E j \in PaymentIds : /\ FirstByReference(j)
                               /\ payment[j].provider = payment[i].provider
                               /\ payment[j].order = payment[i].order
<1> DEFINE Rows == {j \in PaymentIds : SameReference(i, j)}
<1>1. Rows # {} /\ Rows \in SUBSET Nat
  BY PaymentIdsAssumption DEF SameReference
<1> HIDE DEF Rows
<1>2. PICK j \in Rows : \A k \in Rows : j <= k
  BY <1>1, LeastNumber
<1>3. QED
  BY <1>2 DEF Rows, FirstByReference, SameReference

\* A repetition repeats the report of this payment, or at Midtrans another one
\* of the transaction.
LEMMA RepetitionArrived ==
    ASSUME DInv, PaidNotificationApplied, NEW r \in sent, Pays(r), Recorded(r)
    PROVE  Arrived(r)
<1>1. PICK e \in event : e.provider = r.provider /\ e.id = ParseWebhook(r).id
  BY DEF Recorded
<1>2. CASE e.status = "PAID" /\ e.order = r.order
  BY <1>2, <1>1 DEF PaidNotificationApplied, Arrived, PaidAt
<1>3. PICK q \in sent : /\ e.provider = q.provider
                       /\ e.order = q.order
                       /\ e.id = ParseWebhook(q).id
                       /\ e.status = ParseWebhook(q).status
  BY DEF DInv, EventsWereReported
<1>4. /\ r \in Payload /\ r \in Parsing!Payload /\ r.provider \in Providers
      /\ q \in Payload /\ q \in Parsing!Payload /\ q.provider \in Providers
  BY DEF DInv, WorldOK, Payload
<1>5. PICK t \in Transactions : /\ transaction[t].provider = r.provider
                               /\ transaction[t].order = r.order
                               /\ r.id \in IdsFor(t, r.status)
  BY DEF DInv, ReportsAreTrue
<1>6. PICK u \in Transactions : /\ transaction[u].provider = q.provider
                               /\ transaction[u].order = q.order
                               /\ q.id \in IdsFor(u, q.status)
  BY DEF DInv, ReportsAreTrue
<1>7. ParseWebhook(r).status = "PAID"
  BY DEF Pays
<1>8. CASE r.provider = "xendit"
  <2>1. r.id = <<t, r.status>> /\ q.id = <<u, q.status>>
    BY <1>1, <1>3, <1>5, <1>6, <1>8 DEF IdsFor
  <2>2. r.id = q.id
    BY <1>1, <1>3, <1>8 DEF ParseWebhook, Parsing!ParseWebhook, Parsing!EventID
  <2>3. t = u /\ q.status = r.status
    BY <2>1, <2>2
  <2>4. ParseWebhook(q).status = ParseWebhook(r).status
    BY <1>1, <1>3, <1>8, <2>3 DEF ParseWebhook, Parsing!ParseWebhook, Parsing!WordOf
  <2>5. QED
    BY <1>2, <1>3, <1>5, <1>6, <1>7, <2>3, <2>4
<1>9. CASE r.provider = "midtrans" /\ r.id # NoId
  <2>1. ParseWebhook(r).id = r.id
    BY <1>9 DEF ParseWebhook, Parsing!ParseWebhook, Parsing!EventID
  <2>2. CASE e.status # "PAID"
    BY <1>1, <1>9, <2>1, <2>2 DEF Arrived
  <2>3. CASE e.status = "PAID"
    <3>1. r.id = t /\ t \in ReportIds
      BY <1>5, <1>9 DEF IdsFor, ReportIds
    <3>2. q.id # NoId
      BY <1>1, <1>3, <1>4, <1>9, <2>1, <3>1, DigestsAssumption
         DEF ParseWebhook, Parsing!ParseWebhook, Parsing!EventID
    <3>3. q.id = u /\ q.id = r.id
      BY <1>1, <1>3, <1>6, <1>9, <2>1, <3>2
         DEF IdsFor, ParseWebhook, Parsing!ParseWebhook, Parsing!EventID
    <3>4. QED
      BY <1>2, <1>3, <1>5, <1>6, <2>3, <3>1, <3>3
  <2>4. QED
    BY <2>2, <2>3
<1>10. CASE r.provider = "midtrans" /\ r.id = NoId
  <2>1. e.id = Parsing!Digest(r) /\ e.id \notin ReportIds
    BY <1>1, <1>4, <1>10, DigestsAssumption
       DEF ParseWebhook, Parsing!ParseWebhook, Parsing!EventID
  <2>2. q.id \in ReportIds \cup {NoId}
    BY <1>4 DEF Parsing!Payload
  <2>3. e.id = Parsing!Digest(q)
    BY <1>1, <1>3, <1>10, <2>1, <2>2 DEF ParseWebhook, Parsing!ParseWebhook, Parsing!EventID
  <2>4. q.order = r.order /\ q.status = r.status /\ q.challenge = r.challenge
    BY <2>1, <2>3 DEF Parsing!Digest
  <2>5. ParseWebhook(q).status = ParseWebhook(r).status
    BY <1>1, <1>3, <2>4 DEF ParseWebhook, Parsing!ParseWebhook, Parsing!WordOf
  <2>6. QED
    BY <1>2, <1>3, <1>7, <2>4, <2>5
<1>11. QED
  BY <1>4, <1>8, <1>9, <1>10, ProvidersAssumption

\* As long as a report of payment has not arrived, nothing refuses it: a
\* payment has its reference, and its identifier is new.
THEOREM WaitingReportsApply ==
    DSpec => [](\A r \in sent : Pays(r) => Arrived(r) \/ Applicable(r))
<1> DEFINE Waiting == \A r \in sent : Pays(r) => Arrived(r) \/ Applicable(r)
<1>1. DInv /\ PaidNotificationApplied => Waiting
  <2> SUFFICES ASSUME DInv, PaidNotificationApplied, NEW r \in sent, Pays(r), ~Recorded(r)
               PROVE  Applicable(r)
    BY RepetitionArrived
  <2>1. PICK t \in Transactions : /\ transaction[t] # NoRow
                                 /\ transaction[t].provider = r.provider
                                 /\ transaction[t].order = r.order
    BY DEF DInv, ReportsAreTrue
  <2>2. PICK i \in PaymentIds : /\ payment[i] # NoRow
                               /\ payment[i].provider = r.provider
                               /\ payment[i].order = r.order
    BY <2>1 DEF DInv, TransactionsHavePayments
  <2>3. QED
    BY <2>2, FirstExists DEF Applicable
<1>2. QED
  BY <1>1, DeliveryInvariance, DeliveryImplementsHistory, PaidNotificationsApplied, PTL

\* A report of payment that is applied has arrived, whatever was applied
\* before it; and one that has arrived stays so, whatever is applied after it.
THEOREM AppliedReportsArriveAndStay ==
    DSpec => [][\A r \in PaymentReports :
                   Arrived(r) \/ (r \in sent /\ Accept(r)) => Arrived(r)']_dvars
<1> DEFINE Step == \A r \in PaymentReports :
                      Arrived(r) \/ (r \in sent /\ Accept(r)) => Arrived(r)'
<1>1. ASSUME IInv, HInv, HInv', DInv, [DNext]_dvars
      PROVE  Step
  <2> SUFFICES ASSUME NEW r \in PaymentReports, Arrived(r) \/ (r \in sent /\ Accept(r))
               PROVE  Arrived(r)'
    OBVIOUS
  <2>1. /\ [HNext]_hvars /\ event \subseteq event' /\ r \in Payload
        /\ PaidNotificationApplied'
    BY <1>1, DeliveryStepsStore, EventsWereReportedStep DEF DInv, HInv, PaymentReports
  <2>2. CASE PaidAt(r.provider, r.order)
    <3>1. PICK i \in PaymentIds : /\ payment[i] # NoRow
                                 /\ payment[i].provider = r.provider
                                 /\ payment[i].order = r.order
                                 /\ payment[i].status = "PAID"
      BY <2>2 DEF PaidAt
    <3>2. payment'[i] = payment[i]
      BY <1>1, <2>1, <3>1, StoreStep, PaidPaymentStep
    <3>3. QED
      BY <3>1, <3>2 DEF Arrived, PaidAt
  <2>3. CASE "CANCELLED" \in past[r.order]
    <3>1. r.order \in Orders
      BY <2>1, ParsedReport
    <3>2. order[r.order] # NoRow
      BY <1>1, <2>3, <3>1 DEF HInv, PastSeen
    <3>3. QED
      BY <1>1, <2>1, <2>3, <3>1, <3>2, PastGrows DEF HInv, Arrived
  <2>4. CASE r.provider = "midtrans" /\
             \E e \in event : e.id = r.id /\ e.provider = r.provider /\ e.status # "PAID"
    BY <2>1, <2>4 DEF Arrived
  <2>5. CASE r \in sent /\ Accept(r)
    <3>1. ParseWebhook(r).status = "PAID"
      BY DEF PaymentReports, Pays
    <3>2. PICK e \in event' : /\ e.provider = r.provider
                             /\ e.order = r.order
                             /\ e.status = "PAID"
      BY <2>1, <2>5, <3>1, AcceptRecords
    <3>3. QED
      BY <2>1, <3>2 DEF PaidNotificationApplied, Arrived, PaidAt
  <2>6. QED
    BY <2>2, <2>3, <2>4, <2>5 DEF Arrived
<1>2. DSpec => [](IInv /\ HInv)
  BY DeliveryImplementsHistory, HistoryInvariance, PTL
<1>3. IInv /\ HInv /\ (IInv /\ HInv)' /\ DInv /\ [DNext]_dvars => [Step]_dvars
  BY <1>1
<1>4. QED
  BY <1>2, <1>3, DeliveryInvariance, PTL DEF DSpec
=============================================================================
