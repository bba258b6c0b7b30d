----------------------------- MODULE WebhookProofs -----------------------------
(***************************************************************************)
(* Proofs about WebhookTx: the locks and reads of transactions that        *)
(* overlap, and that they have the effect of whole requests, for any       *)
(* number of sessions, orders, payments and notifications.                 *)
(***************************************************************************)
EXTENDS WebhookTx, CommerceProofs

\* What a request carries, by its kind.
LEMMA RequestFields ==
    ASSUME NEW r \in Request
    PROVE  /\ r.kind \in {"webhook", "pay", "update"}
           /\ r.order \in Orders
           /\ r.kind = "webhook" => /\ r.provider \in Providers /\ r.id \in EventIds
                                    /\ r.status \in Reported /\ r.status \in PaymentStatus
           /\ r.kind = "update" => r.status \in Asked /\ r.status \in OrderStatus
BY RequestsAssumption DEF Request

LEMMA NoWorkTyped == NoWork \in Work
BY DEF NoWork, Work

-----------------------------------------------------------------------------
(***************************************************************************)
(* Steps that write no table.                                              *)
(***************************************************************************)

\* What is so of the tables stays so.
LEMMA StoreStays ==
    ASSUME TypeOK, PaymentHasOrder, FirstHasLed, UNCHANGED vars
    PROVE  TypeOK' /\ PaymentHasOrder' /\ FirstHasLed'
BY DEF TypeOK, PaymentHasOrder, FirstHasLed, FirstPayments, FirstByReference, SameReference,
       vars, catalog, observed

\* A lock that session s has after the step it had before, or it was free.
LocksFree(s) ==
    /\ \A provider \in Providers, id \in EventIds :
           HoldsEvent(s, provider, id)' => HoldsEvent(s, provider, id) \/ EventFree(s, provider, id)
    /\ \A i \in PaymentIds : HoldsPayment(s, i)' => HoldsPayment(s, i) \/ PaymentFree(s, i)
    /\ \A o \in Orders : HoldsOrder(s, o)' => HoldsOrder(s, o) \/ OrderFree(s, o)

\* Session s goes on to a statement, or begins or ends a request.
Moves(s, label, r, w) ==
    /\ pc' = [pc EXCEPT ![s] = label]
    /\ request' = [request EXCEPT ![s] = r]
    /\ work' = [work EXCEPT ![s] = w]

LEMMA LocksStep ==
    ASSUME SessionsOK, NEW s \in Sessions,
           NEW label \in {"idle", "record", "find", "payment", "order", "pending", "commit"},
           NEW r \in Request \cup {NoRow}, NEW w \in Work,
           Moves(s, label, r, w), LocksFree(s)
    PROVE  SessionsOK'
<1>1. /\ pc' \in [Sessions -> {"idle", "record", "find", "payment", "order", "pending", "commit"}]
      /\ request' \in [Sessions -> Request \cup {NoRow}]
      /\ work' \in [Sessions -> Work]
    BY DEF SessionsOK, Moves
<1>2. \A t \in Sessions \ {s} :
          pc'[t] = pc[t] /\ request'[t] = request[t] /\ work'[t] = work[t]
    BY DEF SessionsOK, Moves
<1>3. ASSUME NEW t \in Sessions, t # s
      PROVE  /\ \A provider, id : HoldsEvent(t, provider, id)' <=> HoldsEvent(t, provider, id)
             /\ \A i : HoldsPayment(t, i)' <=> HoldsPayment(t, i)
             /\ \A o : HoldsOrder(t, o)' <=> HoldsOrder(t, o)
    BY <1>2, <1>3 DEF HoldsEvent, HoldsPayment, HoldsOrder, Serves, Running
<1>4. ASSUME NEW t \in Sessions, NEW u \in Sessions, t # u
      PROVE  /\ \A provider \in Providers, id \in EventIds :
                    ~(HoldsEvent(t, provider, id)' /\ HoldsEvent(u, provider, id)')
             /\ \A i \in PaymentIds : ~(HoldsPayment(t, i)' /\ HoldsPayment(u, i)')
             /\ \A o \in Orders : ~(HoldsOrder(t, o)' /\ HoldsOrder(u, o)')
    <2>1. CASE t # s /\ u # s
        BY <1>3, <1>4, <2>1 DEF SessionsOK
    <2>2. CASE t = s
        BY <1>3, <1>4, <2>2 DEF SessionsOK, LocksFree, EventFree, PaymentFree, OrderFree
    <2>3. CASE u = s
        BY <1>3, <1>4, <2>3 DEF SessionsOK, LocksFree, EventFree, PaymentFree, OrderFree
    <2>4. QED
        BY <2>1, <2>2, <2>3
<1>5. QED
    BY <1>1, <1>4 DEF SessionsOK

LEMMA ReadStep ==
    ASSUME TxIInv, NEW s \in Sessions,
           NEW label \in {"idle", "record", "find", "payment", "order", "pending", "commit"},
           NEW r \in Request \cup {NoRow}, NEW w \in Work,
           Moves(s, label, r, w), LocksFree(s), UNCHANGED vars,
           ReadsHold(label, r, w)
    PROVE  TxIInv'
<1>1. SessionsOK'
    BY LocksStep DEF TxIInv
<1>2. TypeOK' /\ PaymentHasOrder' /\ FirstHasLed'
    BY StoreStays DEF TxIInv
<1>3. \A t \in Sessions : ReadsHold(pc'[t], request'[t], work'[t])
    BY DEF TxIInv, SessionsOK, Moves
<1>4. (\A t \in Sessions : ReadsHold(pc[t], request[t], work[t]))'
    BY <1>3 DEF ReadsHold, vars, observed
<1>5. QED
    BY <1>1, <1>2, <1>4 DEF TxIInv

\* A transaction that ends has no lock and nothing read.
LEMMA EndMoves ==
    ASSUME SessionsOK, NEW s \in Sessions, End(s)
    PROVE  Moves(s, "idle", NoRow, NoWork) /\ LocksFree(s)
<1>1. pc'[s] = "idle"
    BY DEF SessionsOK, End
<1>2. QED
    BY <1>1 DEF End, Moves, LocksFree, HoldsEvent, HoldsPayment, HoldsOrder, Serves, Running

LEMMA RollbackStep ==
    ASSUME TxIInv, NEW s \in Sessions, Rollback(s)
    PROVE  TxIInv'
<1>1. ReadsHold("idle", NoRow, NoWork)
    BY DEF ReadsHold
<1>2. QED
    BY <1>1, EndMoves, ReadStep, NoWorkTyped DEF Rollback, TxIInv

LEMMA BeginStep ==
    ASSUME TxIInv, NEW s \in Sessions, NEW r \in Request, Begin(s, r)
    PROVE  TxIInv'
<1> DEFINE label == IF r.kind = "webhook" THEN "record" ELSE "order"
<1>1. Moves(s, label, r, work[s]) /\ UNCHANGED vars /\ work[s] \in Work
    BY DEF Begin, Moves, TxIInv, SessionsOK
<1>2. /\ label \in {"record", "order"}
      /\ label = "record" <=> r.kind = "webhook"
    OBVIOUS
<1> HIDE DEF label
<1>3. pc'[s] = label /\ request'[s] = r
    BY <1>1 DEF Moves, TxIInv, SessionsOK
<1>4. LocksFree(s)
    BY <1>2, <1>3 DEF LocksFree, HoldsEvent, HoldsPayment, HoldsOrder, Serves, Running
<1>5. ReadsHold(label, r, work[s])
    BY <1>2 DEF ReadsHold
<1>6. QED
    BY <1>1, <1>2, <1>4, <1>5, ReadStep

\* Session s goes on with its request.
LEMMA GotoStep ==
    ASSUME TxIInv, NEW s \in Sessions, Running(s),
           NEW label \in {"find", "payment", "order", "pending", "commit"}, NEW w \in Work,
           Goto(s, label), work' = [work EXCEPT ![s] = w], UNCHANGED vars,
           ReadsHold(label, request[s], w),
           request[s].kind = "webhook" /\ pc[s] = "record" =>
               EventFree(s, request[s].provider, request[s].id),
           request[s].kind = "webhook" /\ label \in {"order", "commit"} =>
               PaymentFree(s, w.found) \/ (pc[s] = "order" /\ w.found = work[s].found),
           label \in {"pending", "commit"} =>
               OrderFree(s, request[s].order) \/ pc[s] = "pending"
    PROVE  TxIInv'
<1>1. /\ request[s] \in Request \cup {NoRow}
      /\ Moves(s, label, request[s], w)
    BY DEF Goto, Moves, TxIInv, SessionsOK
<1>2. pc'[s] = label /\ request'[s] = request[s] /\ work'[s] = w
    BY <1>1 DEF Moves, TxIInv, SessionsOK
<1>3. LocksFree(s)
    <2>1. \A provider \in Providers, id \in EventIds :
              HoldsEvent(s, provider, id)' => HoldsEvent(s, provider, id) \/ EventFree(s, provider, id)
        BY <1>2 DEF HoldsEvent, Serves, Running
    <2>2. \A i \in PaymentIds : HoldsPayment(s, i)' => HoldsPayment(s, i) \/ PaymentFree(s, i)
        BY <1>2 DEF HoldsPayment, Serves, Running
    <2>3. \A o \in Orders : HoldsOrder(s, o)' => HoldsOrder(s, o) \/ OrderFree(s, o)
        BY <1>2 DEF HoldsOrder
    <2>4. QED
        BY <2>1, <2>2, <2>3 DEF LocksFree
<1>4. QED
    BY <1>1, <1>3, ReadStep

LEMMA RecordEventStep ==
    ASSUME TxIInv, NEW s \in Sessions, RecordEvent(s)
    PROVE  TxIInv'
<1>1. CASE \E e \in event : e.provider = request[s].provider /\ e.id = request[s].id
    BY <1>1, RollbackStep DEF RecordEvent
<1>2. CASE ~ \E e \in event : e.provider = request[s].provider /\ e.id = request[s].id
    <2>1. /\ pc[s] = "record" /\ Running(s) /\ Goto(s, "find") /\ UNCHANGED vars
          /\ work[s] \in Work /\ work' = [work EXCEPT ![s] = work[s]]
          /\ EventFree(s, request[s].provider, request[s].id)
        BY <1>2 DEF RecordEvent, Running, TxIInv, SessionsOK
    <2>2. ReadsHold("record", request[s], work[s])
        BY <2>1 DEF TxIInv
    <2>3. ReadsHold("find", request[s], work[s])
        BY <1>2, <2>2 DEF ReadsHold
    <2>4. QED
        BY <2>1, <2>3, GotoStep
<1>3. QED
    BY <1>1, <1>2

LEMMA FindPaymentStep ==
    ASSUME TxIInv, NEW s \in Sessions, FindPayment(s)
    PROVE  TxIInv'
<1>1. CASE Rollback(s)
    BY <1>1, RollbackStep
<1>2. ASSUME NEW i \in PaymentIds, Chosen(s, i), Goto(s, "payment"),
             work' = [work EXCEPT ![s].found = i], UNCHANGED vars
      PROVE  TxIInv'
    <2> DEFINE w == [work[s] EXCEPT !.found = i]
    <2>1. /\ pc[s] = "find" /\ Running(s) /\ work \in [Sessions -> Work] /\ work[s] \in Work
        BY DEF FindPayment, Running, TxIInv, SessionsOK
    <2>2. w \in Work /\ w.found = i /\ work' = [work EXCEPT ![s] = w]
        BY <1>2, <2>1 DEF Work
    <2> HIDE DEF w
    <2>3. ReadsHold("find", request[s], work[s])
        BY <2>1 DEF TxIInv
    <2>4. ReadsHold("payment", request[s], w)
        BY <1>2, <2>2, <2>3 DEF ReadsHold, Chosen, FirstByReference, FirstHasLed, FirstPayments, TxIInv
    <2>5. QED
        BY <1>2, <2>1, <2>2, <2>4, GotoStep
<1>3. QED
    BY <1>1, <1>2 DEF FindPayment

LEMMA LockPaymentStep ==
    ASSUME TxIInv, NEW s \in Sessions, LockPayment(s)
    PROVE  TxIInv'
<1> DEFINE i == work[s].found
           w == [work[s] EXCEPT !.pay = payment[i]]
<1>1. /\ pc[s] = "payment" /\ Running(s) /\ work \in [Sessions -> Work] /\ work[s] \in Work
      /\ PaymentFree(s, i) /\ Goto(s, "order") /\ UNCHANGED vars
    BY DEF LockPayment, Running, TxIInv, SessionsOK
<1>2. ReadsHold("payment", request[s], work[s])
    BY <1>1 DEF TxIInv
<1>3. i \in PaymentIds /\ payment[i] \in PaymentRow
    BY <1>2 DEF ReadsHold, TxIInv, TypeOK
<1>4. w \in Work /\ w.found = i /\ w.pay = payment[i] /\ work' = [work EXCEPT ![s] = w]
    BY <1>1, <1>3 DEF LockPayment, Work
<1> HIDE DEF w
<1>5. ReadsHold("order", request[s], w)
    BY <1>2, <1>4 DEF ReadsHold
<1>6. QED
    BY <1>1, <1>4, <1>5, GotoStep

LEMMA LockOrderOfPaymentStep ==
    ASSUME TxIInv, NEW s \in Sessions, LockOrderOfPayment(s)
    PROVE  TxIInv'
<1> DEFINE o == request[s].order
           w == [work[s] EXCEPT !.ord = order[o]]
<1>1. /\ pc[s] = "order" /\ request[s].kind = "webhook" /\ Running(s)
      /\ work \in [Sessions -> Work] /\ work[s] \in Work
      /\ OrderFree(s, o) /\ Goto(s, "commit") /\ UNCHANGED vars
    BY DEF LockOrderOfPayment, Serves, Running, TxIInv, SessionsOK
<1>2. ReadsHold("order", request[s], work[s])
    BY <1>1 DEF TxIInv
<1>3. o \in Orders /\ order[o] \in OrderRow \cup {NoRow}
    BY <1>2, RequestFields DEF ReadsHold, TxIInv, TypeOK
<1>4. /\ w \in Work /\ w.found = work[s].found /\ w.pay = work[s].pay /\ w.ord = order[o]
      /\ work' = [work EXCEPT ![s] = w]
    BY <1>1, <1>3 DEF LockOrderOfPayment, Work
<1> HIDE DEF w
<1>5. ReadsHold("commit", request[s], w)
    BY <1>1, <1>2, <1>4 DEF ReadsHold
<1>6. QED
    BY <1>1, <1>4, <1>5, GotoStep

LEMMA LockOrderToPayStep ==
    ASSUME TxIInv, NEW s \in Sessions, LockOrderToPay(s)
    PROVE  TxIInv'
<1> DEFINE o == request[s].order
<1>1. CASE order[o] # NoRow /\ order[o].status = "PENDING_PAYMENT"
    <2>1. /\ pc[s] = "order" /\ request[s].kind = "pay" /\ Running(s) /\ OrderFree(s, o)
          /\ Goto(s, "pending") /\ UNCHANGED vars
          /\ work[s] \in Work /\ work' = [work EXCEPT ![s] = work[s]]
        BY <1>1 DEF LockOrderToPay, Serves, Running, TxIInv, SessionsOK
    <2>2. ReadsHold("order", request[s], work[s])
        BY <2>1 DEF TxIInv
    <2>3. ReadsHold("pending", request[s], work[s])
        BY <1>1, <2>1, <2>2 DEF ReadsHold
    <2>4. QED
        BY <2>1, <2>3, GotoStep
<1>2. CASE ~(order[o] # NoRow /\ order[o].status = "PENDING_PAYMENT")
    BY <1>2, RollbackStep DEF LockOrderToPay
<1>3. QED
    BY <1>1, <1>2

LEMMA FindPendingStep ==
    ASSUME TxIInv, NEW s \in Sessions, FindPending(s)
    PROVE  TxIInv'
<1>1. CASE \E j \in PaymentIds : /\ payment[j] # NoRow
                                 /\ payment[j].order = request[s].order
                                 /\ payment[j].status = "PENDING"
    BY <1>1, RollbackStep DEF FindPending
<1>2. CASE ~ \E j \in PaymentIds : /\ payment[j] # NoRow
                                   /\ payment[j].order = request[s].order
                                   /\ payment[j].status = "PENDING"
    <2>1. /\ pc[s] = "pending" /\ Running(s) /\ Goto(s, "commit") /\ UNCHANGED vars
          /\ work[s] \in Work /\ work' = [work EXCEPT ![s] = work[s]]
        BY <1>2 DEF FindPending, Running, TxIInv, SessionsOK
    <2>2. ReadsHold("pending", request[s], work[s])
        BY <2>1 DEF TxIInv
    <2>3. ReadsHold("commit", request[s], work[s]) /\ request[s].kind = "pay"
        BY <1>2, <2>2 DEF ReadsHold
    <2>4. QED
        BY <2>1, <2>3, GotoStep
<1>3. QED
    BY <1>1, <1>2

LEMMA LockOrderToUpdateStep ==
    ASSUME TxIInv, NEW s \in Sessions, LockOrderToUpdate(s)
    PROVE  TxIInv'
<1> DEFINE o == request[s].order
           w == [work[s] EXCEPT !.ord = order[o]]
<1>1. CASE order[o] # NoRow /\ <<order[o].status, request[s].status>> \in allowedTransitions
    <2>1. /\ pc[s] = "order" /\ request[s].kind = "update" /\ Running(s) /\ OrderFree(s, o)
          /\ work \in [Sessions -> Work] /\ work[s] \in Work
          /\ Goto(s, "commit") /\ UNCHANGED vars
        BY <1>1 DEF LockOrderToUpdate, Serves, Running, TxIInv, SessionsOK
    <2>2. ReadsHold("order", request[s], work[s])
        BY <2>1 DEF TxIInv
    <2>3. o \in Orders /\ order[o] \in OrderRow \cup {NoRow}
        BY <2>2, RequestFields DEF ReadsHold, TxIInv, TypeOK
    <2>4. w \in Work /\ w.ord = order[o] /\ work' = [work EXCEPT ![s] = w]
        BY <1>1, <2>1, <2>3 DEF LockOrderToUpdate, Work
    <2> HIDE DEF w
    <2>5. ReadsHold("commit", request[s], w)
        BY <1>1, <2>1, <2>2, <2>4 DEF ReadsHold
    <2>6. QED
        BY <2>1, <2>4, <2>5, GotoStep
<1>2. CASE ~(order[o] # NoRow /\ <<order[o].status, request[s].status>> \in allowedTransitions)
    BY <1>2, RollbackStep DEF LockOrderToUpdate
<1>3. QED
    BY <1>1, <1>2

-----------------------------------------------------------------------------
(***************************************************************************)
(* Commits.  A transaction that commits disturbs no other, because what it *)
(* writes the others have no lock on.                                      *)
(***************************************************************************)

\* What is written is nothing that session t relies on.
Undisturbed(t) ==
    /\ \A i \in PaymentIds :
           payment[i] # NoRow => /\ payment'[i] # NoRow
                                 /\ payment'[i].provider = payment[i].provider
                                 /\ payment'[i].order = payment[i].order
    /\ \A i \in PaymentIds : HoldsPayment(t, i) => payment'[i] = payment[i]
    /\ \A o \in Orders :
           HoldsOrder(t, o) =>
               /\ order'[o] = order[o]
               /\ \A j \in PaymentIds :
                     payment'[j] = payment[j] \/ payment'[j].order # o
    /\ \A e \in event' : e \in event \/ ~HoldsEvent(t, e.provider, e.id)
    /\ led \subseteq led'

LEMMA ReadsStay ==
    ASSUME TxIInv, NEW t \in Sessions, Undisturbed(t),
           NEW label, NEW r, NEW w,
           label = pc[t], r = request[t], w = work[t]
    PROVE  ReadsHold(label, r, w)'
<1>1. ReadsHold(label, r, w)
    BY DEF TxIInv
<1>2. label # "idle" => r \in Request /\ r.order \in Orders
    BY <1>1, RequestFields DEF ReadsHold
<1>3. (label \in {"find", "payment", "order", "commit"} /\ r.kind = "webhook") =>
          \A e \in event' : ~(e.provider = r.provider /\ e.id = r.id)
    BY <1>1 DEF ReadsHold, Undisturbed, HoldsEvent, Serves, Running
<1>4. (label \in {"payment", "order", "commit"} /\ r.kind = "webhook") =>
          /\ w.found \in PaymentIds
          /\ payment'[w.found] # NoRow
          /\ payment'[w.found].provider = r.provider
          /\ payment'[w.found].order = r.order
          /\ w.found \in led'
    BY <1>1 DEF ReadsHold, Undisturbed
<1>5. (label \in {"order", "commit"} /\ r.kind = "webhook") => payment'[w.found] = payment[w.found]
    BY <1>1 DEF ReadsHold, Undisturbed, HoldsPayment, Serves, Running
<1>6. label \in {"pending", "commit"} =>
          /\ order'[r.order] = order[r.order]
          /\ \A j \in PaymentIds : payment'[j] = payment[j] \/ payment'[j].order # r.order
    BY <1>2 DEF Undisturbed, HoldsOrder
<1>7. (label = "commit" /\ r.kind = "pay") =>
          \A j \in PaymentIds : ~(/\ payment'[j] # NoRow
                                  /\ payment'[j].order = r.order
                                  /\ payment'[j].status = "PENDING")
    BY <1>1, <1>6 DEF ReadsHold
<1>8. QED
    BY <1>1, <1>3, <1>4, <1>5, <1>6, <1>7 DEF ReadsHold

LEMMA CommitStep ==
    ASSUME TxIInv, NEW s \in Sessions, End(s), TypeOK', PaymentHasOrder', FirstHasLed',
           \A t \in Sessions \ {s} : Undisturbed(t)
    PROVE  TxIInv'
<1>1. SessionsOK'
    BY EndMoves, LocksStep, NoWorkTyped DEF TxIInv
<1>2. ASSUME NEW t \in Sessions PROVE ReadsHold(pc[t], request[t], work[t])'
    <2>1. CASE t = s
        <3>1. pc'[t] = "idle"
            BY <2>1 DEF End, TxIInv, SessionsOK
        <3>2. QED
            BY <3>1 DEF ReadsHold
    <2>2. CASE t # s
        <3>1. pc'[t] = pc[t] /\ request'[t] = request[t] /\ work'[t] = work[t]
            BY <2>2 DEF End, TxIInv, SessionsOK
        <3>2. Undisturbed(t)
            BY <2>2
        <3>3. PICK label, r, w : label = pc[t] /\ r = request[t] /\ w = work[t]
            OBVIOUS
        <3>4. ReadsHold(label, r, w)'
            BY <3>2, <3>3, ReadsStay
        <3>5. QED
            BY <3>1, <3>3, <3>4
    <2>3. QED
        BY <2>1, <2>2
<1>3. QED
    BY <1>1, <1>2 DEF TxIInv

\* A notification writes one payment, its order and one event; rows stay.
LEMMA WebhookWrites ==
    ASSUME TypeOK, PaymentHasOrder, NEW i \in PaymentIds, NEW id \in EventIds,
           NEW s \in PaymentStatus, HandleWebhook(i, id, s)
    PROVE  /\ payment[i].order \in Orders
           /\ \A j \in PaymentIds \ {i} : payment'[j] = payment[j]
           /\ payment'[i] # NoRow
           /\ payment'[i].provider = payment[i].provider
           /\ payment'[i].order = payment[i].order
           /\ \A o \in Orders \ {payment[i].order} : order'[o] = order[o]
           /\ order'[payment[i].order] # NoRow
           /\ \A e \in event' : e \in event \/ (e.provider = payment[i].provider /\ e.id = id)
           /\ led' = led
<1> DEFINE n == payment[i].order
           next == applyOrderTransition(order[n].status, s)
<1>1. payment[i] # NoRow
    BY DEF HandleWebhook
<1>2. n \in Orders /\ order[n] # NoRow /\ order[n].status \in OrderStatus
    BY <1>1, WebhookOrder
<1>3. /\ \A j \in PaymentIds \ {i} : payment'[j] = payment[j]
      /\ payment'[i] # NoRow
      /\ payment'[i].provider = payment[i].provider
      /\ payment'[i].order = payment[i].order
    BY <1>1, WebhookCases, PaymentGetsEffect
<1>4. (\A o \in Orders \ {n} : order'[o] = order[o]) /\ order'[n] # NoRow
    <2>1. CASE UNCHANGED order
        BY <1>2, <2>1
    <2>2. CASE s \in SettlingStatus /\ MoveOrder(n, s, next)
        <3>1. next \in OrderStatus
            BY <1>2, <2>2, TransitionTyped
        <3> HIDE DEF next, n
        <3>2. QED
            BY <1>2, <2>2, <3>1, MoveOrderEffect
    <2>3. QED
        BY <2>1, <2>2, WebhookCases
<1>5. \A e \in event' : e \in event \/ (e.provider = payment[i].provider /\ e.id = id)
    <2>1. PICK audit :
              event' = event \cup {[provider |-> payment[i].provider, id |-> id,
                                    order |-> payment[i].order, status |-> s, audit |-> audit]}
        BY DEF HandleWebhook
    <2>2. QED
        BY <2>1
<1>6. QED
    BY <1>2, <1>3, <1>4, <1>5 DEF HandleWebhook

\* Nothing is missed of what no administrator has touched.
LEMMA NothingMissed ==
    ASSUME TypeOK, NEW o \in Orders
    PROVE  {} \in SUBSET revived[o]
OBVIOUS

\* What the transaction of a notification writes is what the notification
\* does as a whole.
LEMMA CommitWebhookHandles ==
    ASSUME TxIInv, NEW s \in Sessions, CommitWebhook(s)
    PROVE  /\ request[s] \in Request /\ request[s].kind = "webhook"
           /\ work[s].found \in PaymentIds
           /\ payment[work[s].found].order = request[s].order
           /\ payment[work[s].found].provider = request[s].provider
           /\ HandleWebhook(work[s].found, request[s].id, request[s].status)
<1> DEFINE r == request[s]
           i == work[s].found
           o == r.order
<1>1. /\ pc[s] = "commit" /\ r.kind = "webhook"
      /\ ReadsHold("commit", r, work[s])
    BY DEF CommitWebhook, Serves, TxIInv
<1>2. /\ r \in Request
      /\ \A e \in event : ~(e.provider = r.provider /\ e.id = r.id)
      /\ i \in PaymentIds /\ payment[i] # NoRow
      /\ payment[i].provider = r.provider /\ payment[i].order = o
      /\ i \in led
      /\ work[s].pay = payment[i] /\ work[s].ord = order[o]
    BY <1>1 DEF ReadsHold
<1> DEFINE changed == applyWebhookStatus(payment[i].status, r.status, order[o].status)
<1>3. /\ event' = event \cup
               {[provider |-> r.provider, id |-> r.id, order |-> o, status |-> r.status,
                 audit |-> IF changed THEN "PAYMENT_WEBHOOK"
                                      ELSE "PAYMENT_WEBHOOK_DUPLICATE"]}
      /\ payment' = IF changed
                    THEN [payment EXCEPT ![i].status = r.status,
                                         ![i].paidAt = @ \/ r.status = "PAID"]
                    ELSE payment
      /\ Forget(o)
      /\ UNCHANGED <<isActive, deleted, cart, selected, led>>
    BY <1>2 DEF CommitWebhook
<1>4. IF changed /\ r.status \in SettlingStatus
      THEN MoveOrder(o, r.status, applyOrderTransition(order[o].status, r.status))
      ELSE UNCHANGED <<stock, order>>
    <2>1. o \in Orders /\ order[o] \in OrderRow /\ order \in [Orders -> OrderRow \cup {NoRow}]
        BY <1>2, WebhookOrder DEF TxIInv, TypeOK
    <2>2. CASE changed /\ r.status \in SettlingStatus
        BY <1>2, <2>1, <2>2, NothingMissed DEF CommitWebhook, MoveOrder
    <2>3. CASE ~(changed /\ r.status \in SettlingStatus)
        BY <1>2, <2>3 DEF CommitWebhook
    <2>4. QED
        BY <2>2, <2>3
<1>5. QED
    BY <1>1, <1>2, <1>3, <1>4 DEF HandleWebhook

LEMMA CommitWebhookStep ==
    ASSUME TxIInv, NEW s \in Sessions, CommitWebhook(s)
    PROVE  TxIInv'
<1> DEFINE r == request[s]
           i == work[s].found
<1>1. /\ r \in Request /\ r.kind = "webhook" /\ i \in PaymentIds
      /\ payment[i].order = r.order /\ payment[i].provider = r.provider
      /\ HandleWebhook(i, r.id, r.status)
    BY CommitWebhookHandles
<1>2. r.id \in EventIds /\ r.provider \in Providers /\ r.order \in Orders /\ r.status \in PaymentStatus
    BY <1>1, RequestFields
<1>3. End(s) /\ pc[s] = "commit" /\ Running(s)
    BY DEF CommitWebhook, Running
<1>4. TypeOK'
    BY <1>1, <1>2, WebhookTyped DEF TxIInv
<1>5. /\ \A j \in PaymentIds \ {i} : payment'[j] = payment[j]
      /\ payment'[i] # NoRow
      /\ payment'[i].provider = payment[i].provider
      /\ payment'[i].order = payment[i].order
      /\ \A o \in Orders \ {r.order} : order'[o] = order[o]
      /\ order'[r.order] # NoRow
      /\ \A e \in event' : e \in event \/ (e.provider = r.provider /\ e.id = r.id)
      /\ led' = led
    BY <1>1, <1>2, WebhookWrites DEF TxIInv
<1>6. PaymentHasOrder'
    BY <1>1, <1>5 DEF TxIInv, PaymentHasOrder, TypeOK, PaymentRow
<1>7. HoldsEvent(s, r.provider, r.id) /\ HoldsPayment(s, i) /\ HoldsOrder(s, r.order)
    BY <1>1, <1>3 DEF HoldsEvent, HoldsPayment, HoldsOrder, Serves
<1>8. ASSUME NEW t \in Sessions \ {s} PROVE Undisturbed(t)
    <2>1. /\ ~HoldsEvent(t, r.provider, r.id) /\ ~HoldsPayment(t, i) /\ ~HoldsOrder(t, r.order)
        BY <1>1, <1>2, <1>7 DEF TxIInv, SessionsOK
    <2>2. \A e \in event' : e \in event \/ ~HoldsEvent(t, e.provider, e.id)
        BY <1>5, <2>1
    <2>3. QED
        BY <1>1, <1>2, <1>5, <2>1, <2>2 DEF Undisturbed
<1>9. FirstHasLed'
    <2>1. payment[i] # NoRow
        BY <1>1 DEF HandleWebhook
    <2>2. QED
        BY <1>1, <1>5, <2>1, FirstsStayLed DEF TxIInv
<1>10. QED
    BY <1>3, <1>4, <1>6, <1>8, <1>9, CommitStep

LEMMA CommitPaymentCreates ==
    ASSUME TxIInv, NEW s \in Sessions, NEW i \in PaymentIds, CommitPayment(s, i)
    PROVE  /\ request[s] \in Request
           /\ CreatePaymentForOrder(request[s].order, i)
<1>1. pc[s] = "commit" /\ request[s].kind = "pay" /\ ReadsHold("commit", request[s], work[s])
    BY DEF CommitPayment, Serves, TxIInv
<1>2. /\ request[s] \in Request
      /\ order[request[s].order] # NoRow
      /\ order[request[s].order].status = "PENDING_PAYMENT"
      /\ \A j \in PaymentIds : ~(/\ payment[j] # NoRow
                                 /\ payment[j].order = request[s].order
                                 /\ payment[j].status = "PENDING")
    BY <1>1 DEF ReadsHold
<1>3. QED
    BY <1>2 DEF CommitPayment, CreatePaymentForOrder, catalog

LEMMA CommitPaymentStep ==
    ASSUME TxIInv, NEW s \in Sessions, NEW i \in PaymentIds, CommitPayment(s, i)
    PROVE  TxIInv'
<1> DEFINE o == request[s].order
<1>1. request[s] \in Request /\ CreatePaymentForOrder(o, i) /\ o \in Orders
    BY CommitPaymentCreates, RequestFields
<1>2. End(s) /\ pc[s] = "commit"
    BY DEF CommitPayment
<1>3. TypeOK'
    BY <1>1, TypeStep DEF TxIInv, Next, CustomerStep
<1>4. /\ payment[i] = NoRow /\ payment'[i].order = o /\ order' = order /\ event' = event
      /\ order[o] # NoRow
      /\ \A j \in PaymentIds \ {i} : payment'[j] = payment[j]
      /\ led \subseteq led'
    BY <1>1 DEF CreatePaymentForOrder, TxIInv, TypeOK
<1>5. PaymentHasOrder'
    BY <1>4 DEF TxIInv, PaymentHasOrder
<1>6. ASSUME NEW t \in Sessions \ {s} PROVE Undisturbed(t)
    <2>1. ~HoldsOrder(t, o)
        BY <1>1, <1>2 DEF HoldsOrder, TxIInv, SessionsOK
    <2>2. ~HoldsPayment(t, i)
        BY <1>4 DEF HoldsPayment, Serves, Running, TxIInv, ReadsHold
    <2>3. QED
        BY <1>4, <2>1, <2>2 DEF Undisturbed
<1>7. FirstHasLed'
    BY <1>1 DEF CreatePaymentForOrder, FirstHasLed
<1>8. QED
    BY <1>2, <1>3, <1>5, <1>6, <1>7, CommitStep

LEMMA CommitUpdateMoves ==
    ASSUME TxIInv, NEW s \in Sessions, CommitUpdate(s)
    PROVE  /\ request[s] \in Request /\ request[s].kind = "update"
           /\ UpdateOrderStatus(request[s].order, request[s].status)
<1> DEFINE r == request[s]
           o == r.order
<1>1. pc[s] = "commit" /\ r.kind = "update" /\ ReadsHold("commit", r, work[s])
    BY DEF CommitUpdate, Serves, TxIInv
<1>2. /\ r \in Request /\ work[s].ord = order[o] /\ order[o] # NoRow
      /\ <<order[o].status, r.status>> \in allowedTransitions
    BY <1>1 DEF ReadsHold
<1>3. o \in Orders /\ order \in [Orders -> OrderRow \cup {NoRow}] /\ order[o] \in OrderRow
    BY <1>2, RequestFields DEF TxIInv, TypeOK
<1>4. MoveOrder(o, r.status, r.status)
    BY <1>2, <1>3, NothingMissed DEF CommitUpdate, MoveOrder, TxIInv
<1>5. QED
    BY <1>1, <1>2, <1>4 DEF CommitUpdate, UpdateOrderStatus

LEMMA CommitUpdateStep ==
    ASSUME TxIInv, NEW s \in Sessions, CommitUpdate(s)
    PROVE  TxIInv'
<1> DEFINE r == request[s]
           o == r.order
<1>1. /\ r \in Request /\ r.kind = "update" /\ UpdateOrderStatus(o, r.status)
      /\ o \in Orders /\ r.status \in OrderStatus
    BY CommitUpdateMoves, RequestFields
<1>2. End(s) /\ pc[s] = "commit"
    BY DEF CommitUpdate
<1>3. TypeOK'
    BY <1>1, TypeStep DEF TxIInv, Next, AdminStep
<1>4. /\ payment' = payment /\ event' = event /\ order'[o] # NoRow
      /\ \A n \in Orders \ {o} : order'[n] = order[n]
    BY <1>1, MoveOrderEffect DEF UpdateOrderStatus, TxIInv
<1>5. led' = led
    BY <1>1 DEF UpdateOrderStatus
<1>6. PaymentHasOrder'
    BY <1>4 DEF TxIInv, PaymentHasOrder, TypeOK, PaymentRow
<1>7. ASSUME NEW t \in Sessions \ {s} PROVE Undisturbed(t)
    <2>1. ~HoldsOrder(t, o)
        BY <1>1, <1>2 DEF HoldsOrder, TxIInv, SessionsOK
    <2>2. QED
        BY <1>4, <1>5, <2>1 DEF Undisturbed
<1>8. FirstHasLed'
    BY <1>4, <1>5, FirstsStayLed DEF TxIInv
<1>9. QED
    BY <1>2, <1>3, <1>6, <1>7, <1>8, CommitStep

-----------------------------------------------------------------------------
(***************************************************************************)
(* The other steps.                                                        *)
(***************************************************************************)

LEMMA CrashStep ==
    ASSUME TxIInv, NEW provider \in Providers, Crash(provider)
    PROVE  TxIInv'
<1>1. \A t \in Sessions : pc'[t] = "idle"
    BY DEF Crash
<1>2. SessionsOK'
    BY <1>1, NoWorkTyped DEF Crash, SessionsOK, HoldsEvent, HoldsPayment, HoldsOrder, Serves, Running
<1>3. TypeOK' /\ PaymentHasOrder' /\ FirstHasLed'
    BY DEF Crash, Restart, catalog, TxIInv, TypeOK, PaymentHasOrder, FirstHasLed, FirstPayments,
           FirstByReference, SameReference
<1>4. \A t \in Sessions : ReadsHold(pc[t], request[t], work[t])'
    BY <1>1 DEF ReadsHold
<1>5. QED
    BY <1>2, <1>3, <1>4 DEF TxIInv

\* A request that runs as a whole makes at most a new order.
LEMMA WholeRequestStep ==
    ASSUME TxIInv, WholeRequest
    PROVE  TxIInv' /\ Next
<1>1. Next
    BY DEF WholeRequest, Next, CustomerStep
<1>2. TypeOK'
    BY <1>1, TypeStep DEF TxIInv
<1>3. /\ payment' = payment /\ event' = event /\ led' = led
      /\ \A o \in Orders : order[o] # NoRow => order'[o] = order[o]
    BY DEF WholeRequest, AddItem, Checkout, observed, TxIInv, TypeOK
<1>4. PaymentHasOrder'
    BY <1>3 DEF TxIInv, PaymentHasOrder, TypeOK, PaymentRow
<1>5. SessionsOK'
    BY DEF WholeRequest, TxIInv, SessionsOK, HoldsEvent, HoldsPayment, HoldsOrder, Serves, Running
<1>6. ASSUME NEW t \in Sessions PROVE ReadsHold(pc[t], request[t], work[t])'
    <2>1. PICK label, r, w : label = pc[t] /\ r = request[t] /\ w = work[t]
        OBVIOUS
    <2>2. ReadsHold(label, r, w)
        BY <2>1 DEF TxIInv
    <2>3. label # "idle" => r \in Request /\ r.kind \in {"webhook", "pay", "update"} /\ r.order \in Orders
        BY <2>2, RequestFields DEF ReadsHold
    <2>4. label \in {"pending", "commit"} => order[r.order] # NoRow
        BY <2>2, <2>3 DEF ReadsHold, TxIInv, PaymentHasOrder
    <2>5. label \in {"pending", "commit"} => order'[r.order] = order[r.order]
        BY <1>3, <2>3, <2>4
    <2>6. ReadsHold(label, r, w)'
        BY <1>3, <2>2, <2>5 DEF ReadsHold
    <2>7. QED
        BY <2>1, <2>6 DEF WholeRequest
<1>7. FirstHasLed'
    BY <1>3, FirstsStayLed DEF TxIInv
<1>8. QED
    BY <1>1, <1>2, <1>4, <1>5, <1>6, <1>7 DEF TxIInv

LEMMA StutterStep ==
    ASSUME TxIInv, UNCHANGED txvars
    PROVE  TxIInv'
<1>1. TypeOK' /\ PaymentHasOrder' /\ FirstHasLed'
    BY StoreStays DEF txvars, TxIInv
<1>2. SessionsOK'
    BY DEF txvars, TxIInv, SessionsOK, HoldsEvent, HoldsPayment, HoldsOrder, Serves, Running
<1>3. (\A t \in Sessions : ReadsHold(pc[t], request[t], work[t]))'
    BY DEF txvars, vars, observed, TxIInv, ReadsHold
<1>4. QED
    BY <1>1, <1>2, <1>3 DEF TxIInv

LEMMA TxInitInvariant == TxInit => TxIInv
<1>1. SUFFICES ASSUME TxInit PROVE TxIInv
    OBVIOUS
<1>2. TypeOK /\ PaymentHasOrder /\ FirstHasLed
    BY <1>1, InvInit DEF TxInit, IInv
<1>3. SessionsOK
    BY <1>1, NoWorkTyped DEF TxInit, SessionsOK, HoldsEvent, HoldsPayment, HoldsOrder, Serves, Running
<1>4. \A s \in Sessions : ReadsHold(pc[s], request[s], work[s])
    BY <1>1 DEF TxInit, ReadsHold
<1>5. QED
    BY <1>2, <1>3, <1>4 DEF TxIInv

LEMMA TxNextInvariant == TxIInv /\ [TxNext]_txvars => TxIInv'
<1>1. SUFFICES ASSUME TxIInv, [TxNext]_txvars PROVE TxIInv'
    OBVIOUS
<1>2. ASSUME NEW s \in Sessions, Proceed(s) PROVE TxIInv'
    BY <1>1, <1>2, RecordEventStep, FindPaymentStep, LockPaymentStep, LockOrderOfPaymentStep,
       CommitWebhookStep, LockOrderToPayStep, FindPendingStep, CommitPaymentStep,
       LockOrderToUpdateStep, CommitUpdateStep DEF Proceed
<1>3. CASE \E s \in Sessions, r \in Request : Begin(s, r)
    BY <1>1, <1>3, BeginStep
<1>4. CASE \E s \in Sessions : Fail(s)
    BY <1>1, <1>4, RollbackStep DEF Fail
<1>5. CASE \E provider \in Providers : Crash(provider)
    BY <1>1, <1>5, CrashStep
<1>6. CASE WholeRequest
    BY <1>1, <1>6, WholeRequestStep
<1>7. CASE UNCHANGED txvars
    BY <1>1, <1>7, StutterStep
<1>8. QED
    BY <1>1, <1>2, <1>3, <1>4, <1>5, <1>6, <1>7 DEF TxNext

-----------------------------------------------------------------------------
(***************************************************************************)
(* Theorems.                                                               *)
(***************************************************************************)

\* Whatever a transaction has read under a lock is so until it ends, and a
\* notification that is handled is not recorded yet
\* (internal/payment/service.go:104-174).
THEOREM TxInvariance == TxSpec => []TxIInv
    BY TxInitInvariant, TxNextInvariant, PTL DEF TxSpec

\* No two transactions hold one identifier of a notification, one payment or
\* one order.
THEOREM LocksExclude == TxSpec => []SessionsOK
<1>1. TxIInv => SessionsOK
    BY DEF TxIInv
<1>2. QED
    BY <1>1, TxInvariance, PTL

\* A step of the sessions is a request of the store that commits, or nothing
\* to the tables.
LEMMA SessionsRunRequests ==
    ASSUME TxIInv, [TxNext]_txvars
    PROVE  [Next]_vars
<1>1. ASSUME NEW s \in Sessions, Proceed(s) PROVE Next \/ UNCHANGED vars
    <2>1. CASE CommitWebhook(s)
        BY <2>1, CommitWebhookHandles, RequestFields DEF Next, ProviderStep
    <2>2. CASE \E i \in PaymentIds : CommitPayment(s, i)
        BY <2>2, CommitPaymentCreates, RequestFields DEF Next, CustomerStep
    <2>3. CASE CommitUpdate(s)
        BY <2>3, CommitUpdateMoves, RequestFields DEF Next, AdminStep
    <2>4. CASE \/ RecordEvent(s) \/ FindPayment(s) \/ LockPayment(s) \/ LockOrderOfPayment(s)
               \/ LockOrderToPay(s) \/ FindPending(s) \/ LockOrderToUpdate(s)
        BY <2>4 DEF RecordEvent, FindPayment, LockPayment, LockOrderOfPayment, LockOrderToPay,
                    FindPending, LockOrderToUpdate, Rollback
    <2>5. QED
        BY <1>1, <2>1, <2>2, <2>3, <2>4 DEF Proceed
<1>2. CASE \E s \in Sessions, r \in Request : Begin(s, r)
    BY <1>2 DEF Begin
<1>3. CASE \E s \in Sessions : Fail(s)
    BY <1>3 DEF Fail, Rollback
<1>4. CASE \E provider \in Providers : Crash(provider)
    BY <1>4 DEF Crash, Next
<1>5. CASE WholeRequest
    BY <1>5, WholeRequestStep
<1>6. CASE UNCHANGED txvars
    BY <1>6 DEF txvars
<1>7. QED
    BY <1>1, <1>2, <1>3, <1>4, <1>5, <1>6 DEF TxNext

\* Notifications, requests for payment and administrators that overlap,
\* fail or are cut off have the effect of whole requests one after another
\* (internal/payment/service.go:60-95, :104-174,
\* internal/order/service.go:158-206).
THEOREM TransactionsImplementStore == TxSpec => ImplementsStore
<1>1. TxInit => Init
    BY DEF TxInit
<1>2. TxIInv /\ [TxNext]_txvars => [Next]_vars
    BY SessionsRunRequests
<1>3. QED
    BY <1>1, <1>2, TxInvariance, PTL DEF TxSpec, ImplementsStore, Spec

-----------------------------------------------------------------------------
(***************************************************************************)
(* What the store keeps is kept by requests that overlap.                  *)
(***************************************************************************)

\* Types, payments and orders agree whenever no transaction is committing,
\* however many of them run.
THEOREM TxStoreInvariance == TxSpec => []IInv
    BY TransactionsImplementStore, Invariance, PTL DEF ImplementsStore

\* No order waits for payment once one of its payments was settled, although
\* a request for payment may run while a notification does.
THEOREM TxSettledPaymentsCloseOrders == TxSpec => []SettledPaymentClosesOrder
    BY TransactionsImplementStore, SettledPaymentsCloseOrders, PTL DEF ImplementsStore

\* An order that gave its items back is sold only against a paid payment,
\* although its payment is read before the order is locked.
THEOREM TxReopenedOrdersArePaid == TxSpec => []ReopenedOrderIsPaid
    BY TransactionsImplementStore, ReopenedOrdersArePaid, PTL DEF ImplementsStore

\* Whichever of two transactions commits first, stock and what an order holds
\* keep their sum: the items come back once.
THEOREM TxStockConserved == TxSpec => StockConservation
    BY TransactionsImplementStore, StockConserved, PTL DEF ImplementsStore

\* A payment that another transaction has paid meanwhile is not changed by a
\* notification that was waiting for it.
THEOREM TxPaidPaymentsFinal == TxSpec => PaidPaymentFinal
    BY TransactionsImplementStore, PaidPaymentsFinal, PTL DEF ImplementsStore

\* A notification and an administrator's cancellation that overlap do not
\* take money for the cancelled order.
THEOREM TxAcceptedMoneyMarksOrdersPaid == TxSpec => AcceptedMoneyMarksOrderPaid
    BY TransactionsImplementStore, AcceptedMoneyMarksOrdersPaid, PTL DEF ImplementsStore

\* A late failure that waited for an order another notification was selling
\* leaves it sold.
THEOREM TxLateFailuresNeverUndoPaid == TxSpec => LateFailureNeverUndoesPaid
    BY TransactionsImplementStore, LateFailuresNeverUndoPaid, PTL DEF ImplementsStore

\* Overlapping requests keep the promises of the ledger of stock.
THEOREM TxImplementsLedger == TxSpec => ImplementsLedger
    BY TransactionsImplementStore, StoreImplementsLedger, PTL DEF ImplementsStore

\* What a customer asked for is what an order is made of, while transactions
\* about payments and statuses run.
THEOREM TxImplementsCarts == TxSpec => ImplementsCarts
    BY TransactionsImplementStore, StoreImplementsCarts, PTL DEF ImplementsStore

-----------------------------------------------------------------------------
(***************************************************************************)
(* Waiting.  Who waits for an order waits for one that is about to commit, *)
(* who waits for a payment for one that has it and needs the order, and    *)
(* who waits for an identifier for one that needs any of these.            *)
(***************************************************************************)

LEMMA SomeoneProceeds ==
    ASSUME SessionsOK, \E i \in PaymentIds : payment[i] = NoRow,
           NEW s \in Sessions, Running(s)
    PROVE  \E t \in Sessions : Running(t) /\ CanProceed(t)
<1> DEFINE Goes == \E t \in Sessions : Running(t) /\ CanProceed(t)
<1>1. ASSUME NEW t \in Sessions, pc[t] \in {"find", "pending", "commit"}
      PROVE  Goes
  BY <1>1 DEF CanProceed, Running
<1>2. ASSUME NEW t \in Sessions, pc[t] = "order"
      PROVE  Goes
  <2>1. CASE OrderFree(t, request[t].order)
    BY <1>2, <2>1 DEF CanProceed, Running
  <2>2. CASE ~OrderFree(t, request[t].order)
    BY <1>1, <2>2 DEF OrderFree, HoldsOrder
  <2>3. QED
    BY <2>1, <2>2
<1>3. ASSUME NEW t \in Sessions, pc[t] = "payment"
      PROVE  Goes
  <2>1. CASE PaymentFree(t, work[t].found)
    BY <1>3, <2>1 DEF CanProceed, Running
  <2>2. CASE ~PaymentFree(t, work[t].found)
    BY <1>1, <1>2, <2>2 DEF PaymentFree, HoldsPayment
  <2>3. QED
    BY <2>1, <2>2
<1>4. ASSUME NEW t \in Sessions, pc[t] = "record"
      PROVE  Goes
  <2>1. CASE EventFree(t, request[t].provider, request[t].id)
    BY <1>4, <2>1 DEF CanProceed, Running
  <2>2. CASE ~EventFree(t, request[t].provider, request[t].id)
    <3>1. PICK u \in Sessions : HoldsEvent(u, request[t].provider, request[t].id)
      BY <2>2 DEF EventFree
    <3>2. pc[u] \in {"find", "payment", "order", "pending", "commit"}
      BY <3>1 DEF HoldsEvent, Serves, Running, SessionsOK
    <3>3. QED
      BY <1>1, <1>2, <1>3, <3>2
  <2>3. QED
    BY <2>1, <2>2
<1>5. pc[s] \in {"record", "find", "payment", "order", "pending", "commit"}
  BY DEF Running, SessionsOK
<1>6. QED
  BY <1>1, <1>2, <1>3, <1>4, <1>5

\* However notifications, requests for payment and changes of status overlap,
\* one of those that run can go on (internal/payment/service.go:118-144,
\* :60-72, internal/order/service.go:160-166).  Taking the rows of one
\* transaction in another order would break it.
THEOREM TransactionsNeverStandStill == TxSpec => []NoStandstill
<1>1. TxIInv => NoStandstill
  BY SomeoneProceeds DEF TxIInv, NoStandstill
<1>2. QED
  BY <1>1, TxInvariance, PTL
=============================================================================
