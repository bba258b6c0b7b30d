------------------------------ MODULE StockProofs ------------------------------
(***************************************************************************)
(* Proofs about StockTx, for any sets of customers, products, orders and   *)
(* sessions and any bounds: the lock discipline of Checkout and            *)
(* UpdateOrderStatus, and that their transactions implement Commerce.      *)
(***************************************************************************)
EXTENDS StockTx, FiniteSetTheorems, WellFoundedInduction, TLAPS

Labels == {"idle"} \cup Statement \cup Answer

SessionOK(s) == SessionStarted(s) /\ CheckoutReadsHold(s) /\ UpdateReadsHold(s)

-----------------------------------------------------------------------------
(***************************************************************************)
(* What the steps of the sessions have in common.                          *)
(***************************************************************************)

LEMMA NoWorkTyped == NoWork \in Work /\ NoWork.locked = {}
BY DEF NoWork, Work, EmptyCart, Quantities

\* The request a session serves, by its kind.
LEMMA RequestTyped ==
    ASSUME TxTypeOK, NEW s \in Sessions
    PROVE  /\ Serves(s, "checkout") => request[s].customer \in Customers
           /\ Serves(s, "update") => /\ request[s].order \in Orders
                                     /\ request[s].status \in OrderStatus
BY StatusesAssumption DEF TxTypeOK, Request, Serves

\* A step changes neither the cart nor the order nor the products that a
\* session holds, and keeps in mind what it brings back.
KeepsReadsOf(s) ==
    /\ pc[s] \in {"next", "take"} =>
           /\ cart'[request[s].customer] = cart[request[s].customer]
           /\ \A p \in work[s].locked :
                  /\ stock'[p] = stock[p] /\ isActive'[p] = isActive[p]
                  /\ (p \in deleted') <=> (p \in deleted)
    /\ pc[s] \in {"restore", "give"} =>
           /\ order'[request[s].order] = order[request[s].order]
           /\ deleted \cup revived[request[s].order]
                  \subseteq deleted' \cup revived'[request[s].order]
           /\ work[s].locked \cap deleted' = {}

LEMMA Undisturbed ==
    ASSUME NEW s \in Sessions, SessionOK(s), KeepsReadsOf(s),
           pc'[s] = pc[s], request'[s] = request[s], work'[s] = work[s]
    PROVE  SessionOK(s)'
<1>1. SessionStarted(s)'
  BY DEF SessionOK, SessionStarted, Serves
<1>2. CheckoutReadsHold(s)'
  BY DEF SessionOK, CheckoutReadsHold, StillServes, KeepsReadsOf
<1>3. UpdateReadsHold(s)'
  BY DEF SessionOK, UpdateReadsHold, Restores, KeepsReadsOf
<1>4. QED
  BY <1>1, <1>2, <1>3 DEF SessionOK

\* A session goes on to statement or answer x with the variables w and writes
\* nothing that others see.
LEMMA MoveKeeps ==
    ASSUME IInv, NEW s \in Sessions, NEW x \in Labels, NEW w \in Work,
           pc' = [pc EXCEPT ![s] = x], work' = [work EXCEPT ![s] = w],
           UNCHANGED <<rows, request>>,
           \A t \in Sessions \ {s} : w.locked \cap work[t].locked = {},
           \A t \in Sessions \ {s}, c \in Customers :
               ~(HoldsCart(s, c)' /\ HoldsCart(t, c)),
           \A t \in Sessions \ {s}, o \in Orders :
               ~(HoldsOrder(s, o)' /\ HoldsOrder(t, o)),
           SessionOK(s)'
    PROVE  IInv'
<1>1. RowsTyped'
  BY DEF IInv, RowsTyped, rows, catalog
<1>2. \A t \in Sessions \ {s} : pc'[t] = pc[t] /\ request'[t] = request[t] /\ work'[t] = work[t]
  BY DEF IInv, TxTypeOK
<1>3. pc'[s] = x /\ work'[s] = w
  BY DEF IInv, TxTypeOK
<1>4. TxTypeOK'
  <2>1. /\ pc' \in [Sessions -> {"idle"} \cup Statement \cup Answer]
        /\ request' \in [Sessions -> Request \cup {NoRow}]
        /\ work' \in [Sessions -> Work]
    BY DEF IInv, TxTypeOK, Labels
  <2>2. \A t, u \in Sessions : t # u => work'[t].locked \cap work'[u].locked = {}
    BY <1>2, <1>3 DEF IInv, TxTypeOK
  <2>3. QED
    BY <2>1, <2>2 DEF TxTypeOK
<1>5. LocksApart'
  <2>1. \A t \in Sessions \ {s} :
           /\ \A c \in Customers : HoldsCart(t, c)' = HoldsCart(t, c)
           /\ \A o \in Orders : HoldsOrder(t, o)' = HoldsOrder(t, o)
    BY <1>2 DEF HoldsCart, HoldsOrder, Serves
  <2>2. QED
    BY <2>1 DEF IInv, LocksApart
<1>6. \A t \in Sessions : SessionOK(t)'
  <2> SUFFICES ASSUME NEW t \in Sessions \ {s}
               PROVE  SessionOK(t)'
    OBVIOUS
  <2>1. SessionOK(t)
    BY DEF IInv, SessionOK
  <2>2. pc[t] \in {"restore", "give"} => work[t].locked \cap deleted = {}
    BY <2>1 DEF SessionOK, UpdateReadsHold
  <2>3. QED
    BY <1>2, <2>1, <2>2, Undisturbed DEF rows, catalog, KeepsReadsOf
<1>7. QED
  BY <1>1, <1>4, <1>5, <1>6 DEF IInv, SessionOK

\* A session that ends leaves nothing of its own behind.
LEMMA EndedOK ==
    ASSUME NEW s \in Sessions, pc'[s] \in Answer, work'[s] = NoWork
    PROVE  /\ SessionOK(s)'
           /\ \A c : ~HoldsCart(s, c)'
           /\ \A o : ~HoldsOrder(s, o)'
BY DEF SessionOK, SessionStarted, CheckoutReadsHold, UpdateReadsHold, HoldsCart,
       HoldsOrder, Answer

LEMMA RollbackKeeps ==
    ASSUME IInv, NEW s \in Sessions, NEW answer \in Answer, Rollback(s, answer),
           UNCHANGED request
    PROVE  IInv'
<1>1. pc' = [pc EXCEPT ![s] = answer] /\ work' = [work EXCEPT ![s] = NoWork]
  BY DEF Rollback, Finish, Goto
<1>2. UNCHANGED <<rows, request>>
  BY DEF Rollback
<1>3. pc'[s] = answer /\ work'[s] = NoWork
  BY <1>1 DEF IInv, TxTypeOK
<1>4. SessionOK(s)' /\ (\A c : ~HoldsCart(s, c)') /\ (\A o : ~HoldsOrder(s, o)')
  BY <1>3, EndedOK
<1>5. answer \in Labels
  BY DEF Labels
<1>6. QED
  BY <1>1, <1>2, <1>4, <1>5, MoveKeeps, NoWorkTyped

\* A session that holds its lock already goes on within its transaction.
LEMMA WithinKeeps ==
    ASSUME IInv, NEW s \in Sessions, NEW x, NEW w \in Work,
           \/ pc[s] \in {"next", "take"} /\ x \in {"next", "take"}
           \/ pc[s] \in {"restore", "give"} /\ x \in {"restore", "give"},
           pc' = [pc EXCEPT ![s] = x], work' = [work EXCEPT ![s] = w],
           UNCHANGED <<rows, request>>,
           \A t \in Sessions \ {s} : w.locked \cap work[t].locked = {},
           SessionOK(s)'
    PROVE  IInv'
<1>1. x \in Labels
  BY DEF Labels, Statement
<1>2. pc'[s] = x /\ request'[s] = request[s]
  BY DEF IInv, TxTypeOK
<1>3. \A c : HoldsCart(s, c)' => HoldsCart(s, c)
  BY <1>2 DEF HoldsCart, Serves
<1>4. \A o : HoldsOrder(s, o)' => HoldsOrder(s, o)
  BY <1>2 DEF HoldsOrder, Serves
<1>5. QED
  BY <1>1, <1>3, <1>4, MoveKeeps DEF IInv, LocksApart

-----------------------------------------------------------------------------
(***************************************************************************)
(* The statements of a checkout.                                           *)
(***************************************************************************)

LEMMA LockCartKeeps ==
    ASSUME IInv, NEW s \in Sessions, LockCart(s)
    PROVE  IInv'
<1> DEFINE c == request[s].customer
           items == {p \in Products : cart[c][p] > 0}
           w == [work[s] EXCEPT !.lines = cart[c], !.todo = items]
<1>1. /\ pc[s] = "cart" /\ Serves(s, "checkout") /\ work[s] = NoWork
      /\ UNCHANGED request
  BY DEF LockCart, IInv, SessionStarted
<1>2. c \in Customers
  BY <1>1, RequestTyped DEF IInv
<1>3. CASE cart[c] = EmptyCart
  <2>1. Rollback(s, "refused")
    BY <1>3 DEF LockCart
  <2>2. QED
    BY <1>1, <2>1, RollbackKeeps DEF Answer
<1>4. CASE cart[c] # EmptyCart
  <2>1. /\ pc' = [pc EXCEPT ![s] = "next"] /\ UNCHANGED rows
        /\ work' = [work EXCEPT ![s].lines = cart[c], ![s].todo = items]
        /\ CartFree(s, c)
    BY <1>4 DEF LockCart, Goto
  <2>2. cart[c] \in Quantities
    BY <1>2 DEF IInv, RowsTyped
  <2>3. w \in Work /\ w.lines = cart[c] /\ w.todo = items /\ w.locked = {}
    <3>1. work[s] \in Work /\ work[s].locked = {}
      BY <1>1, NoWorkTyped
    <3>2. items \in SUBSET Products
      OBVIOUS
    <3> HIDE DEF items
    <3>3. QED
      BY <2>2, <3>1, <3>2 DEF Work
  <2>4. work' = [work EXCEPT ![s] = w]
    BY <2>1 DEF IInv, TxTypeOK
  <2> HIDE DEF w
  <2>5. pc'[s] = "next" /\ work'[s] = w /\ request'[s] = request[s] /\ cart' = cart
    BY <1>1, <2>1, <2>4 DEF IInv, TxTypeOK, rows, catalog
  <2>6. SessionStarted(s)' /\ UpdateReadsHold(s)'
    BY <1>1, <2>5 DEF SessionStarted, UpdateReadsHold, Serves
  <2>7. CheckoutReadsHold(s)'
    BY <1>2, <1>4, <2>2, <2>3, <2>5 DEF CheckoutReadsHold, Quantities
  <2>8. \A t \in Sessions \ {s}, d \in Customers : ~(HoldsCart(s, d)' /\ HoldsCart(t, d))
    BY <2>1, <2>5 DEF CartFree, HoldsCart
  <2>9. \A o : ~HoldsOrder(s, o)'
    BY <2>5 DEF HoldsOrder
  <2>10. QED
    <3>1. "next" \in Labels
      BY DEF Labels, Statement
    <3>2. \A t \in Sessions \ {s} : w.locked \cap work[t].locked = {}
      BY <2>3
    <3>3. \A t \in Sessions \ {s}, o \in Orders : ~(HoldsOrder(s, o)' /\ HoldsOrder(t, o))
      BY <2>9
    <3>4. SessionOK(s)' /\ UNCHANGED <<rows, request>>
      BY <1>1, <2>1, <2>6, <2>7 DEF SessionOK
    <3>5. w \in Work /\ pc' = [pc EXCEPT ![s] = "next"]
      BY <2>1, <2>3
    <3>6. QED
      BY <2>4, <2>8, <3>1, <3>2, <3>3, <3>4, <3>5, MoveKeeps
<1>5. QED
  BY <1>3, <1>4

LEMMA ReadProductKeeps ==
    ASSUME IInv, NEW s \in Sessions, NEW p \in Products, ReadProduct(s, p)
    PROVE  IInv'
<1> DEFINE w == [work[s] EXCEPT !.at = p]
<1>1. pc[s] = "next" /\ p \in work[s].todo /\ UNCHANGED request
  BY DEF ReadProduct
<1>2. CASE p \in deleted \/ ~isActive[p]
  <2>1. Rollback(s, "refused")
    BY <1>2 DEF ReadProduct
  <2>2. QED
    BY <1>1, <2>1, RollbackKeeps DEF Answer
<1>3. CASE ~(p \in deleted \/ ~isActive[p])
  <2>1. pc' = [pc EXCEPT ![s] = "take"] /\ UNCHANGED rows /\ work' = [work EXCEPT ![s] = w]
    BY <1>3 DEF ReadProduct, Goto, IInv, TxTypeOK
  <2>2. w \in Work /\ w.lines = work[s].lines /\ w.todo = work[s].todo
        /\ w.locked = work[s].locked /\ w.at = p
    BY DEF IInv, TxTypeOK, Work
  <2> HIDE DEF w
  <2>3. /\ pc'[s] = "take" /\ work'[s] = w /\ request'[s] = request[s]
        /\ UNCHANGED <<stock, isActive, deleted, cart, order, revived>>
    BY <1>1, <2>1 DEF IInv, TxTypeOK, rows, catalog
  <2>4. SessionStarted(s) /\ CheckoutReadsHold(s)
    BY DEF IInv
  <2>5. SessionOK(s)'
    <3>1. SessionStarted(s)'
      BY <1>1, <2>2, <2>3, <2>4 DEF SessionStarted, Serves
    <3>2. CheckoutReadsHold(s)'
      BY <1>1, <2>2, <2>3, <2>4 DEF CheckoutReadsHold, StillServes
    <3>3. UpdateReadsHold(s)'
      BY <2>3 DEF UpdateReadsHold
    <3>4. QED
      BY <3>1, <3>2, <3>3 DEF SessionOK
  <2>6. \A t \in Sessions \ {s} : w.locked \cap work[t].locked = {}
    BY <2>2 DEF IInv, TxTypeOK
  <2>7. QED
    BY <1>1, <2>1, <2>2, <2>5, <2>6, WithinKeeps
<1>4. QED
  BY <1>2, <1>3

LEMMA TakeStockKeeps ==
    ASSUME IInv, NEW s \in Sessions, TakeStock(s)
    PROVE  IInv'
<1> DEFINE p == work[s].at
           w == [work[s] EXCEPT !.locked = @ \cup {p}, !.todo = @ \ {p}]
<1>1. pc[s] = "take" /\ ProductFree(p) /\ UNCHANGED request
  BY DEF TakeStock
<1>2. p \in work[s].todo /\ work[s] \in Work
  BY <1>1 DEF IInv, SessionStarted, TxTypeOK
<1>3. p \in Products
  BY <1>2 DEF Work
<1>4. CASE ~StillServes(p, work[s].lines[p])
  <2>1. Rollback(s, "refused")
    BY <1>4 DEF TakeStock
  <2>2. QED
    BY <1>1, <2>1, RollbackKeeps DEF Answer
<1>5. CASE StillServes(p, work[s].lines[p])
  <2>1. /\ pc' = [pc EXCEPT ![s] = "next"] /\ UNCHANGED rows
        /\ work' = [work EXCEPT ![s].locked = @ \cup {p}, ![s].todo = @ \ {p}]
    BY <1>5 DEF TakeStock, Goto
  <2>2. w \in Work /\ w.lines = work[s].lines /\ w.todo = work[s].todo \ {p}
        /\ w.locked = work[s].locked \cup {p}
    BY <1>2, <1>3 DEF Work
  <2>3. work' = [work EXCEPT ![s] = w]
    BY <1>2, <2>1 DEF IInv, TxTypeOK, Work
  <2>4. p = work[s].at
    OBVIOUS
  <2> HIDE DEF w, p
  <2>5. /\ pc'[s] = "next" /\ work'[s] = w /\ request'[s] = request[s]
        /\ UNCHANGED <<stock, isActive, deleted, cart, order, revived>>
    BY <1>1, <2>1, <2>3 DEF IInv, TxTypeOK, rows, catalog
  <2>6. SessionStarted(s) /\ CheckoutReadsHold(s)
    BY DEF IInv
  <2>7. SessionOK(s)'
    <3>1. SessionStarted(s)'
      BY <1>1, <2>5, <2>6 DEF SessionStarted, Serves
    <3>2. CheckoutReadsHold(s)'
      <4>1. \A q \in Products : q \in w.todo \cup w.locked
                                <=> q \in work[s].todo \cup work[s].locked
        BY <1>2, <2>2
      <4>2. \A q \in w.locked : StillServes(q, w.lines[q])
        BY <1>1, <1>5, <2>2, <2>6 DEF CheckoutReadsHold
      <4>3. QED
        BY <1>1, <2>2, <2>5, <2>6, <4>1, <4>2 DEF CheckoutReadsHold, StillServes
    <3>3. UpdateReadsHold(s)'
      BY <2>5 DEF UpdateReadsHold
    <3>4. QED
      BY <3>1, <3>2, <3>3 DEF SessionOK
  <2>8. \A t \in Sessions \ {s} : w.locked \cap work[t].locked = {}
    BY <1>1, <2>2 DEF IInv, TxTypeOK, ProductFree
  <2>9. QED
    BY <1>1, <2>1, <2>2, <2>3, <2>7, <2>8, WithinKeeps
<1>6. QED
  BY <1>4, <1>5

-----------------------------------------------------------------------------
(***************************************************************************)
(* The statements of a change of status.                                   *)
(***************************************************************************)

LEMMA LockOrderKeeps ==
    ASSUME IInv, NEW s \in Sessions, LockOrder(s)
    PROVE  IInv'
<1> DEFINE o == request[s].order
           next == request[s].status
           items == IF Restores(s) THEN {p \in Products : order[o].items[p] > 0} ELSE {}
           w == [work[s] EXCEPT !.lines = order[o].items, !.todo = items]
<1>1. /\ pc[s] = "order" /\ Serves(s, "update") /\ work[s] = NoWork
      /\ UNCHANGED request
  BY DEF LockOrder, IInv, SessionStarted
<1>2. o \in Orders
  BY <1>1, RequestTyped DEF IInv
<1>3. CASE order[o] = NoRow \/ order[o].status = next
           \/ <<order[o].status, next>> \notin allowedTransitions
  <2>1. \E answer \in {"ok", "refused"} : Rollback(s, answer)
    BY <1>3 DEF LockOrder
  <2>2. QED
    BY <1>1, <2>1, RollbackKeeps DEF Answer
<1>4. CASE ~(order[o] = NoRow \/ order[o].status = next
             \/ <<order[o].status, next>> \notin allowedTransitions)
  <2>1. /\ pc' = [pc EXCEPT ![s] = "restore"] /\ UNCHANGED rows
        /\ work' = [work EXCEPT ![s].lines = order[o].items, ![s].todo = items]
        /\ OrderFree(s, o)
    BY <1>4 DEF LockOrder, Goto
  <2>2. order[o].items \in Quantities
    BY <1>2, <1>4 DEF IInv, RowsTyped, OrderRow
  <2>3. w \in Work /\ w.lines = order[o].items /\ w.todo = items /\ w.locked = {}
    <3>1. work[s] \in Work /\ work[s].locked = {}
      BY <1>1, NoWorkTyped
    <3>2. items \in SUBSET Products
      OBVIOUS
    <3> HIDE DEF items
    <3>3. QED
      BY <2>2, <3>1, <3>2 DEF Work
  <2>4. work' = [work EXCEPT ![s] = w]
    BY <2>1 DEF IInv, TxTypeOK
  <2> HIDE DEF w
  <2>5. /\ pc'[s] = "restore" /\ work'[s] = w /\ request'[s] = request[s]
        /\ order' = order /\ deleted' = deleted /\ revived' = revived
    BY <1>1, <2>1, <2>4 DEF IInv, TxTypeOK, rows, catalog
  <2>6. SessionStarted(s)' /\ CheckoutReadsHold(s)'
    BY <1>1, <2>5 DEF SessionStarted, CheckoutReadsHold, Serves
  <2>7. UpdateReadsHold(s)'
    <3>1. Restores(s)' = Restores(s)
      BY <2>5 DEF Restores
    <3>2. QED
      BY <1>4, <2>3, <2>5, <3>1 DEF UpdateReadsHold
  <2>8. \A t \in Sessions \ {s}, d \in Orders : ~(HoldsOrder(s, d)' /\ HoldsOrder(t, d))
    BY <2>1, <2>5 DEF OrderFree, HoldsOrder
  <2>9. \A c : ~HoldsCart(s, c)'
    BY <2>5 DEF HoldsCart
  <2>10. QED
    <3>1. "restore" \in Labels
      BY DEF Labels, Statement
    <3>2. \A t \in Sessions \ {s} : w.locked \cap work[t].locked = {}
      BY <2>3
    <3>3. \A t \in Sessions \ {s}, c \in Customers : ~(HoldsCart(s, c)' /\ HoldsCart(t, c))
      BY <2>9
    <3>4. SessionOK(s)' /\ UNCHANGED <<rows, request>>
      BY <1>1, <2>1, <2>6, <2>7 DEF SessionOK
    <3>5. w \in Work /\ pc' = [pc EXCEPT ![s] = "restore"]
      BY <2>1, <2>3
    <3>6. QED
      BY <2>4, <2>8, <3>1, <3>2, <3>3, <3>4, <3>5, MoveKeeps
<1>5. QED
  BY <1>3, <1>4

LEMMA NextItemKeeps ==
    ASSUME IInv, NEW s \in Sessions, NEW p \in Products, NextItem(s, p)
    PROVE  IInv'
<1> DEFINE w == [work[s] EXCEPT !.at = p]
<1>1. /\ pc[s] = "restore" /\ p \in work[s].todo /\ UNCHANGED <<rows, request>>
      /\ pc' = [pc EXCEPT ![s] = "give"]
  BY DEF NextItem, Goto
<1>2. work' = [work EXCEPT ![s] = w]
  BY DEF NextItem, IInv, TxTypeOK
<1>3. w \in Work /\ w.lines = work[s].lines /\ w.todo = work[s].todo
      /\ w.locked = work[s].locked /\ w.at = p
  BY DEF IInv, TxTypeOK, Work
<1> HIDE DEF w
<1>4. /\ pc'[s] = "give" /\ work'[s] = w /\ request'[s] = request[s]
      /\ UNCHANGED <<stock, isActive, deleted, cart, order, revived>>
  BY <1>1, <1>2 DEF IInv, TxTypeOK, rows, catalog
<1>5. SessionStarted(s) /\ UpdateReadsHold(s)
  BY DEF IInv
<1>6. SessionOK(s)'
  <2>1. SessionStarted(s)'
    BY <1>1, <1>3, <1>4, <1>5 DEF SessionStarted, Serves
  <2>2. CheckoutReadsHold(s)'
    BY <1>4 DEF CheckoutReadsHold
  <2>3. UpdateReadsHold(s)'
    BY <1>1, <1>3, <1>4, <1>5 DEF UpdateReadsHold, Restores
  <2>4. QED
    BY <2>1, <2>2, <2>3 DEF SessionOK
<1>7. \A t \in Sessions \ {s} : w.locked \cap work[t].locked = {}
  BY <1>3 DEF IInv, TxTypeOK
<1>8. QED
  BY <1>1, <1>2, <1>3, <1>6, <1>7, WithinKeeps

LEMMA GiveStockKeeps ==
    ASSUME IInv, NEW s \in Sessions, GiveStock(s)
    PROVE  IInv'
<1> DEFINE p == work[s].at
           taken == IF p \in deleted THEN work[s].locked ELSE work[s].locked \cup {p}
           w == [work[s] EXCEPT !.todo = @ \ {p}, !.locked = taken]
<1>1. /\ pc[s] = "give" /\ ProductFree(p) /\ UNCHANGED <<rows, request>>
      /\ pc' = [pc EXCEPT ![s] = "restore"]
      /\ work' = [work EXCEPT ![s].todo = @ \ {p},
                              ![s].locked = IF p \in deleted THEN @ ELSE @ \cup {p}]
  BY DEF GiveStock, Goto
<1>2. p \in work[s].todo /\ work[s] \in Work
  BY <1>1 DEF IInv, SessionStarted, TxTypeOK
<1>3. p \in Products
  BY <1>2 DEF Work
<1>4. w \in Work /\ w.lines = work[s].lines /\ w.todo = work[s].todo \ {p}
      /\ w.locked = taken
  BY <1>2, <1>3 DEF Work
<1>5. work' = [work EXCEPT ![s] = w]
  BY <1>1, <1>2 DEF IInv, TxTypeOK, Work
<1> HIDE DEF w
<1>6. /\ pc'[s] = "restore" /\ work'[s] = w /\ request'[s] = request[s]
      /\ UNCHANGED <<stock, isActive, deleted, cart, order, revived>>
  BY <1>1, <1>5 DEF IInv, TxTypeOK, rows, catalog
<1>7. SessionStarted(s) /\ UpdateReadsHold(s)
  BY DEF IInv
<1>8. SessionOK(s)'
  <2>1. SessionStarted(s)'
    BY <1>1, <1>6, <1>7 DEF SessionStarted, Serves
  <2>2. CheckoutReadsHold(s)'
    BY <1>6 DEF CheckoutReadsHold
  <2>3. Restores(s) /\ Restores(s)'
    BY <1>1, <1>2, <1>6, <1>7 DEF UpdateReadsHold, Restores
  <2>4. w.locked \cap deleted = {}
    BY <1>1, <1>4, <1>7 DEF UpdateReadsHold
  <2>5. \A q \in Products :
            q \in work[s].todo \cup work[s].locked \cup deleted \cup revived[request[s].order]
            => q \in w.todo \cup w.locked \cup deleted \cup revived[request[s].order]
    BY <1>4
  <2>6. UpdateReadsHold(s)'
    BY <1>1, <1>4, <1>6, <1>7, <2>3, <2>4, <2>5 DEF UpdateReadsHold
  <2>7. QED
    BY <2>1, <2>2, <2>6 DEF SessionOK
<1>9. \A t \in Sessions \ {s} : w.locked \cap work[t].locked = {}
  BY <1>1, <1>4 DEF IInv, TxTypeOK, ProductFree
<1>10. QED
  BY <1>1, <1>4, <1>5, <1>8, <1>9, WithinKeeps

-----------------------------------------------------------------------------
(***************************************************************************)
(* The beginnings and the ends of requests.                                *)
(***************************************************************************)

LEMMA BeginKeeps ==
    ASSUME IInv, NEW s \in Sessions, NEW r \in Request, Begin(s, r)
    PROVE  IInv'
<1> DEFINE x == IF r.kind = "checkout" THEN "cart" ELSE "order"
<1>1. /\ pc[s] = "idle" /\ UNCHANGED <<rows, work>>
      /\ request' = [request EXCEPT ![s] = r] /\ pc' = [pc EXCEPT ![s] = x]
  BY DEF Begin, Goto
<1>2. work[s] = NoWork
  BY <1>1 DEF IInv, SessionStarted
<1>3. /\ pc'[s] = x /\ request'[s] = r /\ work'[s] = NoWork
      /\ UNCHANGED <<stock, isActive, deleted, cart, order, revived>>
  BY <1>1, <1>2 DEF IInv, TxTypeOK, rows, catalog
<1>4. \A t \in Sessions \ {s} : pc'[t] = pc[t] /\ request'[t] = request[t] /\ work'[t] = work[t]
  BY <1>1 DEF IInv, TxTypeOK
<1>5. RowsTyped'
  BY <1>3 DEF IInv, RowsTyped
<1>6. TxTypeOK'
  <2>1. x \in Statement
    BY DEF Statement
  <2>2. QED
    BY <1>1, <2>1 DEF IInv, TxTypeOK
<1>7. \A t \in Sessions : SessionOK(t)'
  <2>1. SessionOK(s)'
    <3>1. r # NoRow /\ r.kind \in {"checkout", "update"}
      BY NoRowAssumption DEF Request
    <3>2. QED
      BY <1>3, <3>1 DEF SessionOK, SessionStarted, CheckoutReadsHold, UpdateReadsHold, Serves
  <2>2. ASSUME NEW t \in Sessions \ {s}
        PROVE  SessionOK(t)'
    <3>1. SessionOK(t) /\ KeepsReadsOf(t)
      BY <1>3 DEF IInv, SessionOK, KeepsReadsOf, UpdateReadsHold
    <3>2. QED
      BY <1>4, <3>1, Undisturbed
  <2>3. QED
    BY <2>1, <2>2
<1>8. LocksApart'
  <2>1. (\A c : ~HoldsCart(s, c)') /\ (\A o : ~HoldsOrder(s, o)')
    BY <1>3 DEF HoldsCart, HoldsOrder
  <2>2. \A t \in Sessions \ {s} :
           /\ \A c \in Customers : HoldsCart(t, c)' = HoldsCart(t, c)
           /\ \A o \in Orders : HoldsOrder(t, o)' = HoldsOrder(t, o)
    BY <1>4 DEF HoldsCart, HoldsOrder, Serves
  <2>3. QED
    BY <2>1, <2>2 DEF IInv, LocksApart
<1>9. QED
  BY <1>5, <1>6, <1>7, <1>8 DEF IInv, SessionOK

LEMMA CrashKeeps ==
    ASSUME IInv, Crash
    PROVE  IInv'
<1>1. /\ pc' = [s \in Sessions |-> IF Running(s) THEN "error" ELSE pc[s]]
      /\ work' = [s \in Sessions |-> NoWork]
      /\ UNCHANGED <<stock, isActive, deleted, cart, order, request>>
      /\ revived' = [o \in Orders |-> {}]
  BY DEF Crash, catalog
<1>2. \A s \in Sessions : pc'[s] \in {"idle"} \cup Answer /\ work'[s] = NoWork
  BY <1>1 DEF IInv, TxTypeOK, Running, Answer
<1>3. RowsTyped'
  BY <1>1 DEF IInv, RowsTyped
<1>4. TxTypeOK'
  <2>1. pc' \in [Sessions -> {"idle"} \cup Statement \cup Answer]
    BY <1>1, <1>2
  <2>2. QED
    BY <1>1, <1>2, <2>1, NoWorkTyped DEF IInv, TxTypeOK
<1>5. \A s \in Sessions : SessionOK(s)'
  BY <1>2 DEF SessionOK, SessionStarted, CheckoutReadsHold, UpdateReadsHold, Answer
<1>6. LocksApart'
  BY <1>2 DEF LocksApart, HoldsCart, HoldsOrder, Answer
<1>7. QED
  BY <1>3, <1>4, <1>5, <1>6 DEF IInv, SessionOK

\* A commit ends its session and changes rows that no other session has read
\* under a lock.
LEMMA EndKeeps ==
    ASSUME IInv, NEW s \in Sessions, Finish(s, "ok"), UNCHANGED request, RowsTyped',
           \A t \in Sessions \ {s} : KeepsReadsOf(t)
    PROVE  IInv'
<1>1. pc' = [pc EXCEPT ![s] = "ok"] /\ work' = [work EXCEPT ![s] = NoWork]
  BY DEF Finish, Goto
<1>2. pc'[s] = "ok" /\ work'[s] = NoWork
  BY <1>1 DEF IInv, TxTypeOK
<1>3. \A t \in Sessions \ {s} : pc'[t] = pc[t] /\ request'[t] = request[t] /\ work'[t] = work[t]
  BY <1>1 DEF IInv, TxTypeOK
<1>4. SessionOK(s)' /\ (\A c : ~HoldsCart(s, c)') /\ (\A o : ~HoldsOrder(s, o)')
  BY <1>2, EndedOK DEF Answer
<1>5. TxTypeOK'
  <2>1. /\ pc' \in [Sessions -> {"idle"} \cup Statement \cup Answer]
        /\ request' \in [Sessions -> Request \cup {NoRow}]
        /\ work' \in [Sessions -> Work]
    BY <1>1, NoWorkTyped DEF IInv, TxTypeOK, Answer
  <2>2. \A t, u \in Sessions : t # u => work'[t].locked \cap work'[u].locked = {}
    BY <1>2, <1>3, NoWorkTyped DEF IInv, TxTypeOK
  <2>3. QED
    BY <2>1, <2>2 DEF TxTypeOK
<1>6. LocksApart'
  <2>1. \A t \in Sessions \ {s} :
           /\ \A c \in Customers : HoldsCart(t, c)' = HoldsCart(t, c)
           /\ \A o \in Orders : HoldsOrder(t, o)' = HoldsOrder(t, o)
    BY <1>3 DEF HoldsCart, HoldsOrder, Serves
  <2>2. QED
    BY <1>4, <2>1 DEF IInv, LocksApart
<1>7. \A t \in Sessions : SessionOK(t)'
  <2>1. \A t \in Sessions \ {s} : SessionOK(t)'
    BY <1>3, Undisturbed DEF IInv, SessionOK
  <2>2. QED
    BY <1>4, <2>1
<1>8. QED
  BY <1>5, <1>6, <1>7 DEF IInv, SessionOK

\* What is taken from stock is what the cart holds, and is there.
LEMMA CheckoutTakesCart ==
    ASSUME IInv, NEW s \in Sessions, NEW o \in Orders, CommitCheckout(s, o)
    PROVE  LET c == request[s].customer IN
           /\ c \in Customers
           /\ HoldsCart(s, c)
           /\ work[s].lines = cart[c]
           /\ cart[c] # EmptyCart
           /\ \A p \in Products : cart[c][p] > 0 => StillServes(p, cart[c][p])
           /\ stock' = [p \in Products |-> stock[p] - cart[c][p]]
           /\ stock' \in Quantities
<1> DEFINE c == request[s].customer
<1>1. pc[s] = "next" /\ work[s].todo = {} /\ Serves(s, "checkout")
  BY DEF CommitCheckout, IInv, SessionStarted
<1>2. c \in Customers
  BY <1>1, RequestTyped DEF IInv
<1>3. HoldsCart(s, c)
  BY <1>1 DEF HoldsCart
<1>4. /\ work[s].lines = cart[c] /\ cart[c] # EmptyCart
      /\ \A p \in Products : cart[c][p] > 0 <=> p \in work[s].locked
      /\ \A p \in work[s].locked : StillServes(p, cart[c][p])
  BY <1>1 DEF IInv, CheckoutReadsHold
<1>5. cart[c] \in [Products -> Nat] /\ stock \in [Products -> Nat]
  BY <1>2 DEF IInv, RowsTyped, Quantities
<1>6. stock' = [p \in Products |->
                   IF p \in work[s].locked THEN stock[p] - cart[c][p] ELSE stock[p]]
  BY <1>4 DEF CommitCheckout
<1> HIDE DEF c
<1>7. \A p \in Products : p \notin work[s].locked => cart[c][p] = 0
  BY <1>4, <1>5
<1>8. stock' = [p \in Products |-> stock[p] - cart[c][p]]
  BY <1>5, <1>6, <1>7
<1>9. \A p \in Products : stock[p] - cart[c][p] \in Nat
  BY <1>4, <1>5, <1>7 DEF StillServes
<1>10. stock' \in Quantities
  BY <1>8, <1>9 DEF Quantities
<1>11. QED
  BY <1>2, <1>3, <1>4, <1>8, <1>10 DEF c

LEMMA CommitCheckoutKeeps ==
    ASSUME IInv, NEW s \in Sessions, NEW o \in Orders, CommitCheckout(s, o)
    PROVE  IInv'
<1> DEFINE c == request[s].customer
           new == [status |-> "PENDING_PAYMENT", restored |-> FALSE, items |-> work[s].lines]
<1>1. /\ order[o] = NoRow /\ order' = [order EXCEPT ![o] = new]
      /\ cart' = [cart EXCEPT ![c] = EmptyCart] /\ Finish(s, "ok")
      /\ stock' = [p \in Products |->
             IF p \in work[s].locked THEN stock[p] - work[s].lines[p] ELSE stock[p]]
      /\ UNCHANGED <<isActive, deleted, revived, request>>
  BY DEF CommitCheckout
<1>2. c \in Customers /\ HoldsCart(s, c) /\ work[s].lines = cart[c] /\ stock' \in Quantities
  BY CheckoutTakesCart
<1>3. RowsTyped'
  <2>1. new \in OrderRow
    BY <1>2 DEF IInv, RowsTyped, OrderRow, OrderStatus
  <2>2. EmptyCart \in Quantities
    BY DEF EmptyCart, Quantities
  <2> HIDE DEF new
  <2>3. order' \in [Orders -> OrderRow \cup {NoRow}] /\ cart' \in [Customers -> Quantities]
    BY <1>1, <2>1, <2>2 DEF IInv, RowsTyped
  <2>4. QED
    BY <1>1, <1>2, <2>3 DEF IInv, RowsTyped
<1>4. ASSUME NEW t \in Sessions \ {s}
      PROVE  KeepsReadsOf(t)
  <2>1. SessionStarted(t) /\ CheckoutReadsHold(t) /\ UpdateReadsHold(t)
    BY DEF IInv
  <2>2. ASSUME pc[t] \in {"next", "take"}
        PROVE  /\ cart'[request[t].customer] = cart[request[t].customer]
               /\ \A p \in work[t].locked :
                      /\ stock'[p] = stock[p] /\ isActive'[p] = isActive[p]
                      /\ (p \in deleted') <=> (p \in deleted)
    <3>1. Serves(t, "checkout") /\ request[t].customer \in Customers
      BY <2>1, <2>2, RequestTyped DEF SessionStarted, IInv
    <3>2. HoldsCart(t, request[t].customer)
      BY <2>2, <3>1 DEF HoldsCart
    <3>3. request[t].customer # c
      BY <1>2, <3>1, <3>2 DEF IInv, LocksApart
    <3>4. cart'[request[t].customer] = cart[request[t].customer]
      BY <1>1, <1>2, <3>1, <3>3 DEF IInv, RowsTyped
    <3>5. work[t].locked \subseteq Products /\ work[t].locked \cap work[s].locked = {}
      BY DEF IInv, TxTypeOK, Work
    <3>6. QED
      BY <1>1, <3>4, <3>5
  <2>3. ASSUME pc[t] \in {"restore", "give"}
        PROVE  /\ order'[request[t].order] = order[request[t].order]
               /\ deleted \cup revived[request[t].order]
                      \subseteq deleted' \cup revived'[request[t].order]
               /\ work[t].locked \cap deleted' = {}
    <3>1. order[request[t].order] # NoRow /\ work[t].locked \cap deleted = {}
      BY <2>1, <2>3 DEF UpdateReadsHold
    <3>2. request[t].order \in Orders
      BY <2>1, <2>3, RequestTyped DEF SessionStarted, IInv
    <3>3. QED
      BY <1>1, <3>1, <3>2 DEF IInv, RowsTyped
  <2>4. QED
    BY <2>2, <2>3 DEF KeepsReadsOf
<1>5. QED
  BY <1>1, <1>3, <1>4, EndKeeps

\* What is given back is what the order took, but nothing to products that
\* are deleted or were when it was their turn.
LEMMA UpdateGivesItems ==
    ASSUME IInv, NEW s \in Sessions, CommitUpdate(s)
    PROVE  LET o == request[s].order IN
           /\ o \in Orders
           /\ HoldsOrder(s, o)
           /\ order[o] \in OrderRow
           /\ order[o] # NoRow
           /\ request[s].status \in OrderStatus
           /\ <<order[o].status, request[s].status>> \in allowedTransitions
           /\ stock' = IF Restores(s)
                       THEN [p \in Products |->
                                IF p \in deleted \cup (revived[o] \ work[s].locked)
                                THEN stock[p] ELSE stock[p] + order[o].items[p]]
                       ELSE stock
           /\ stock' \in Quantities
<1> DEFINE o == request[s].order
           missed == revived[o] \ work[s].locked
<1>1. pc[s] = "restore" /\ work[s].todo = {} /\ Serves(s, "update")
  BY DEF CommitUpdate, IInv, SessionStarted
<1>2. o \in Orders /\ request[s].status \in OrderStatus
  BY <1>1, RequestTyped DEF IInv
<1>3. HoldsOrder(s, o)
  BY <1>1 DEF HoldsOrder
<1>4. /\ order[o] # NoRow /\ <<order[o].status, request[s].status>> \in allowedTransitions
      /\ work[s].lines = order[o].items /\ work[s].locked \cap deleted = {}
      /\ Restores(s) => \A p \in Products : order[o].items[p] > 0 =>
                            p \in work[s].locked \cup deleted \cup revived[o]
      /\ ~Restores(s) => work[s].locked = {}
  BY <1>1 DEF IInv, UpdateReadsHold
<1>5. order[o] \in OrderRow /\ stock \in [Products -> Nat]
  BY <1>2, <1>4 DEF IInv, RowsTyped, Quantities
<1>6. order[o].items \in [Products -> Nat]
  BY <1>5 DEF OrderRow, Quantities
<1>7. stock' = [p \in Products |->
                   IF p \in work[s].locked THEN stock[p] + order[o].items[p] ELSE stock[p]]
  BY <1>4 DEF CommitUpdate
<1> HIDE DEF o
<1>8. stock' \in Quantities
  BY <1>5, <1>6, <1>7 DEF Quantities
<1>9. CASE ~Restores(s)
  <2>1. stock' = stock
    BY <1>4, <1>5, <1>7, <1>9
  <2>2. QED
    BY <1>2, <1>3, <1>4, <1>5, <1>8, <1>9, <2>1 DEF o
<1>10. CASE Restores(s)
  <2>1. ASSUME NEW p \in Products
        PROVE  (IF p \in work[s].locked THEN stock[p] + order[o].items[p] ELSE stock[p])
               = (IF p \in deleted \cup missed THEN stock[p]
                                             ELSE stock[p] + order[o].items[p])
    <3>1. CASE p \in deleted \cup missed
      BY <1>4, <3>1
    <3>2. CASE p \notin deleted \cup missed /\ p \in work[s].locked
      BY <3>2
    <3>3. CASE p \notin deleted \cup missed /\ p \notin work[s].locked
      <4>1. order[o].items[p] = 0
        BY <1>4, <1>6, <1>10, <3>3
      <4>2. QED
        BY <1>5, <3>3, <4>1
    <3>4. QED
      BY <3>1, <3>2, <3>3
  <2>2. stock' = [p \in Products |-> IF p \in deleted \cup missed THEN stock[p]
                                     ELSE stock[p] + order[o].items[p]]
    BY <1>7, <2>1
  <2>3. QED
    BY <1>2, <1>3, <1>4, <1>5, <1>8, <1>10, <2>2 DEF o
<1>11. QED
  BY <1>9, <1>10

LEMMA CommitUpdateKeeps ==
    ASSUME IInv, NEW s \in Sessions, CommitUpdate(s)
    PROVE  IInv'
<1> DEFINE o == request[s].order
           new == [order[o] EXCEPT !.status = request[s].status,
                                   !.restored = @ \/ Restores(s)]
<1>1. /\ order' = [order EXCEPT ![o].status = request[s].status,
                                ![o].restored = @ \/ Restores(s)]
      /\ stock' = [p \in Products |->
             IF p \in work[s].locked THEN stock[p] + work[s].lines[p] ELSE stock[p]]
      /\ revived' = [revived EXCEPT ![o] = {}]
      /\ Finish(s, "ok") /\ UNCHANGED <<isActive, deleted, cart, request>>
  BY DEF CommitUpdate
<1>2. /\ o \in Orders /\ HoldsOrder(s, o) /\ order[o] \in OrderRow
      /\ request[s].status \in OrderStatus /\ stock' \in Quantities
  BY UpdateGivesItems
<1>3. order' = [order EXCEPT ![o] = new]
  BY <1>1, <1>2 DEF IInv, RowsTyped
<1>4. RowsTyped'
  <2>1. Restores(s) \in BOOLEAN
    BY DEF Restores, ReturnsStock
  <2>2. new \in OrderRow
    BY <1>2, <2>1 DEF OrderRow
  <2> HIDE DEF new
  <2>3. order' \in [Orders -> OrderRow \cup {NoRow}]
    BY <1>3, <2>2 DEF IInv, RowsTyped
  <2>4. QED
    BY <1>1, <1>2, <2>3 DEF IInv, RowsTyped
<1> HIDE DEF new
<1>5. ASSUME NEW t \in Sessions \ {s}
      PROVE  KeepsReadsOf(t)
  <2>1. SessionStarted(t) /\ CheckoutReadsHold(t) /\ UpdateReadsHold(t)
    BY DEF IInv
  <2>2. work[t].locked \subseteq Products /\ work[t].locked \cap work[s].locked = {}
    BY DEF IInv, TxTypeOK, Work
  <2>3. \A p \in work[t].locked : stock'[p] = stock[p]
    BY <1>1, <2>2
  <2>4. ASSUME pc[t] \in {"restore", "give"}
        PROVE  /\ order'[request[t].order] = order[request[t].order]
               /\ deleted \cup revived[request[t].order]
                      \subseteq deleted' \cup revived'[request[t].order]
               /\ work[t].locked \cap deleted' = {}
    <3>1. work[t].locked \cap deleted = {}
      BY <2>1, <2>4 DEF UpdateReadsHold
    <3>2. Serves(t, "update") /\ request[t].order \in Orders
      BY <2>1, <2>4, RequestTyped DEF SessionStarted, IInv
    <3>3. HoldsOrder(t, request[t].order)
      BY <2>4, <3>2 DEF HoldsOrder
    <3>4. request[t].order # o
      BY <1>2, <3>2, <3>3 DEF IInv, LocksApart
    <3>5. QED
      BY <1>1, <1>3, <3>1, <3>2, <3>4 DEF IInv, RowsTyped
  <2>5. QED
    BY <1>1, <2>3, <2>4 DEF KeepsReadsOf
<1>6. QED
  BY <1>1, <1>4, <1>5, EndKeeps

-----------------------------------------------------------------------------
(***************************************************************************)
(* Requests of a single statement.                                         *)
(***************************************************************************)

\* A statement outside the sessions keeps the invariant if it changes nothing
\* that one of them has read under a lock.
LEMMA StatementKeeps ==
    ASSUME IInv, UNCHANGED <<pc, request, work>>, RowsTyped',
           \A t \in Sessions : KeepsReadsOf(t)
    PROVE  IInv'
<1>1. TxTypeOK'
  BY DEF IInv, TxTypeOK
<1>2. LocksApart'
  BY DEF IInv, LocksApart, HoldsCart, HoldsOrder, Serves
<1>3. \A t \in Sessions : SessionOK(t)'
  BY Undisturbed DEF IInv, SessionOK
<1>4. QED
  BY <1>1, <1>2, <1>3 DEF IInv, SessionOK

LEMMA AddItemKeeps ==
    ASSUME IInv, NEW c \in Customers, NEW p \in Products, NEW q \in 1 .. MaxQty,
           AddItem(c, p, q)
    PROVE  IInv'
<1>1. /\ \A t \in Sessions : Running(t) => ~(Serves(t, "checkout") /\ request[t].customer = c)
      /\ cart' = [cart EXCEPT ![c][p] = @ + q]
      /\ UNCHANGED <<stock, isActive, deleted, order, revived, pc, request, work>>
  BY DEF AddItem, catalog
<1>2. q \in Nat
  BY BoundsAssumption
<1>3. RowsTyped'
  <2>1. cart' \in [Customers -> [Products -> Nat]]
    BY <1>1, <1>2 DEF IInv, RowsTyped, Quantities
  <2>2. QED
    BY <1>1, <2>1 DEF IInv, RowsTyped, Quantities
<1>4. ASSUME NEW t \in Sessions
      PROVE  KeepsReadsOf(t)
  <2>1. SessionStarted(t) /\ UpdateReadsHold(t)
    BY DEF IInv
  <2>2. ASSUME pc[t] \in {"next", "take"}
        PROVE  cart'[request[t].customer] = cart[request[t].customer]
    <3>1. Serves(t, "checkout") /\ request[t].customer \in Customers
      BY <2>1, <2>2, RequestTyped DEF SessionStarted, IInv
    <3>2. request[t].customer # c
      BY <1>1, <2>2, <3>1 DEF Running, Statement
    <3>3. QED
      BY <1>1, <3>1, <3>2 DEF IInv, RowsTyped
  <2>3. QED
    BY <1>1, <2>1, <2>2 DEF KeepsReadsOf, UpdateReadsHold
<1>5. QED
  BY <1>1, <1>3, <1>4, StatementKeeps

\* A statement of an administrator waits for the row of its product.
LEMMA CatalogueKeeps ==
    ASSUME IInv, NEW p \in Products, ProductFree(p),
           UNCHANGED <<cart, order, pc, request, work>>,
           \/ \E n \in 0 .. MaxStock : /\ stock' = [stock EXCEPT ![p] = n]
                                       /\ UNCHANGED <<isActive, deleted, revived>>
           \/ \E active \in BOOLEAN : /\ isActive' = [isActive EXCEPT ![p] = active]
                                      /\ UNCHANGED <<stock, deleted, revived>>
           \/ deleted' = deleted \cup {p} /\ UNCHANGED <<stock, isActive, revived>>
           \/ \E n \in 0 .. MaxStock, wasActive \in BOOLEAN : UpdateProduct(p, n, wasActive)
    PROVE  IInv'
<1>1. 0 .. MaxStock \subseteq Nat
  BY BoundsAssumption
<1>2. RowsTyped'
  BY <1>1 DEF IInv, RowsTyped, Quantities, UpdateProduct
<1>3. ASSUME NEW t \in Sessions
      PROVE  KeepsReadsOf(t)
  <2>1. p \notin work[t].locked /\ work[t].locked \subseteq Products
    BY DEF ProductFree, IInv, TxTypeOK, Work
  <2>2. \A q \in work[t].locked : /\ stock'[q] = stock[q] /\ isActive'[q] = isActive[q]
                                  /\ (q \in deleted') <=> (q \in deleted)
    BY <2>1 DEF IInv, RowsTyped, Quantities, UpdateProduct
  <2>3. ASSUME pc[t] \in {"restore", "give"}
        PROVE  deleted \cup revived[request[t].order]
                   \subseteq deleted' \cup revived'[request[t].order]
    <3>1. request[t].order \in Orders /\ order[request[t].order] # NoRow
      BY <2>3, RequestTyped DEF IInv, SessionStarted, UpdateReadsHold
    <3>2. QED
      BY <3>1 DEF UpdateProduct, IInv, RowsTyped
  <2>4. pc[t] \in {"restore", "give"} => work[t].locked \cap deleted' = {}
    BY <2>2 DEF IInv, UpdateReadsHold
  <2>5. QED
    BY <2>2, <2>3, <2>4 DEF KeepsReadsOf
<1>4. QED
  BY <1>2, <1>3, StatementKeeps

-----------------------------------------------------------------------------
(***************************************************************************)
(* The invariant.                                                          *)
(***************************************************************************)

LEMMA InitKeeps ==
    ASSUME Init
    PROVE  IInv
<1>1. RowsTyped
  BY BoundsAssumption DEF Init, RowsTyped, Quantities, EmptyCart
<1>2. TxTypeOK
  BY NoWorkTyped DEF Init, TxTypeOK
<1>3. QED
  BY <1>1, <1>2 DEF Init, IInv, LocksApart, HoldsCart, HoldsOrder, SessionStarted,
                    CheckoutReadsHold, UpdateReadsHold

LEMMA ProceedKeeps ==
    ASSUME IInv, NEW s \in Sessions, Proceed(s)
    PROVE  IInv'
BY LockCartKeeps, ReadProductKeeps, TakeStockKeeps, CommitCheckoutKeeps, LockOrderKeeps,
   NextItemKeeps, GiveStockKeeps, CommitUpdateKeeps DEF Proceed

LEMMA FailureKeeps ==
    ASSUME IInv, NEW s \in Sessions, Fail(s) \/ AbortVictim(s)
    PROVE  IInv'
BY RollbackKeeps DEF Fail, AbortVictim, Answer

LEMMA StatementsKeep ==
    ASSUME IInv,
           \/ \E c \in Customers, p \in Products, q \in 1 .. MaxQty : AddItem(c, p, q)
           \/ \E p \in Managed, n \in 0 .. MaxStock : SetStock(p, n)
           \/ \E p \in Managed, active \in BOOLEAN : SetActive(p, active)
           \/ \E p \in Managed : DeleteProduct(p)
           \/ \E p \in Managed, n \in 0 .. MaxStock, wasActive \in BOOLEAN :
                  UpdateProduct(p, n, wasActive)
    PROVE  IInv'
<1>1. ASSUME NEW c \in Customers, NEW p \in Products, NEW q \in 1 .. MaxQty, AddItem(c, p, q)
      PROVE  IInv'
  BY <1>1, AddItemKeeps
<1>2. ASSUME NEW p \in Managed, NEW n \in 0 .. MaxStock, SetStock(p, n)
      PROVE  IInv'
  BY <1>2, CatalogueKeeps, ManagedAssumption DEF SetStock
<1>3. ASSUME NEW p \in Managed, NEW active \in BOOLEAN, SetActive(p, active)
      PROVE  IInv'
  BY <1>3, CatalogueKeeps, ManagedAssumption DEF SetActive
<1>4. ASSUME NEW p \in Managed, DeleteProduct(p)
      PROVE  IInv'
  BY <1>4, CatalogueKeeps, ManagedAssumption DEF DeleteProduct
<1>5. ASSUME NEW p \in Managed, NEW n \in 0 .. MaxStock, NEW wasActive \in BOOLEAN,
             UpdateProduct(p, n, wasActive)
      PROVE  IInv'
  BY <1>5, CatalogueKeeps, ManagedAssumption DEF UpdateProduct
<1>6. QED
  BY <1>1, <1>2, <1>3, <1>4, <1>5

LEMMA NextKeeps ==
    ASSUME IInv, [Next]_vars
    PROVE  IInv'
<1>1. CASE UNCHANGED vars
  <2>1. RowsTyped' /\ \A t \in Sessions : KeepsReadsOf(t)
    BY <1>1 DEF vars, rows, catalog, IInv, RowsTyped, KeepsReadsOf, UpdateReadsHold
  <2>2. QED
    BY <1>1, <2>1, StatementKeeps DEF vars
<1>2. CASE \E s \in Sessions : Proceed(s) \/ AbortVictim(s) \/ Fail(s)
  BY <1>2, ProceedKeeps, FailureKeeps
<1>3. CASE Environment
  BY <1>2, <1>3, BeginKeeps, CrashKeeps, StatementsKeep DEF Environment
<1>4. QED
  BY <1>1, <1>2, <1>3 DEF Next

-----------------------------------------------------------------------------
(***************************************************************************)
(* The refinement.  A commit is the whole request, a statement outside the *)
(* sessions is the request it is, and every other step changes no          *)
(* committed row.                                                          *)
(***************************************************************************)

LEMMA RowsStutter ==
    ASSUME UNCHANGED rows
    PROVE  UNCHANGED Store!vars
BY DEF rows, catalog, Store!vars, Store!catalog, Store!observed

LEMMA CheckoutImplements ==
    ASSUME IInv, NEW s \in Sessions, NEW o \in Orders, CommitCheckout(s, o)
    PROVE  Store!Next
<1> DEFINE c == request[s].customer
<1>1. /\ c \in Customers /\ work[s].lines = cart[c] /\ cart[c] # EmptyCart
      /\ \A p \in Products : cart[c][p] > 0 => StillServes(p, cart[c][p])
      /\ stock' = [p \in Products |-> stock[p] - cart[c][p]]
  BY CheckoutTakesCart
<1>2. Store!Checkout(c, o)
  BY <1>1 DEF CommitCheckout, Store!Checkout, Store!EmptyCart, EmptyCart,
              Store!Orderable, StillServes, Store!observed
<1>3. QED
  BY <1>1, <1>2 DEF Store!Next, Store!CustomerStep

LEMMA UpdateImplements ==
    ASSUME IInv, NEW s \in Sessions, CommitUpdate(s)
    PROVE  Store!Next
<1> DEFINE o == request[s].order
           next == request[s].status
           missed == revived[o] \ work[s].locked
<1>1. /\ o \in Orders /\ order[o] # NoRow /\ next \in OrderStatus
      /\ <<order[o].status, next>> \in allowedTransitions
      /\ stock' = IF Restores(s)
                  THEN [p \in Products |-> IF p \in deleted \cup missed THEN stock[p]
                                           ELSE stock[p] + order[o].items[p]]
                  ELSE stock
  BY UpdateGivesItems
<1>2. /\ order' = [order EXCEPT ![o].status = next, ![o].restored = @ \/ Restores(s)]
      /\ revived' = [revived EXCEPT ![o] = {}]
      /\ UNCHANGED <<isActive, deleted, cart>>
  BY DEF CommitUpdate
<1>3. Restores(s) = ReturnsStock(order[o].status, next, order[o].restored)
  BY DEF Restores
<1>4. Store!MoveOrder(o, next, next)
  <2>1. missed \in SUBSET revived[o]
    OBVIOUS
  <2> HIDE DEF missed
  <2>2. QED
    BY <1>1, <1>2, <1>3, <2>1 DEF Store!MoveOrder, Store!StockWithItemsOf,
                                   Store!ReturnsStock, ReturnsStock
<1>5. Store!UpdateOrderStatus(o, next)
  BY <1>1, <1>2, <1>4 DEF Store!UpdateOrderStatus, Store!Forget, Store!allowedTransitions,
                          allowedTransitions
<1>6. next \in Store!OrderStatus
  BY <1>1 DEF Store!OrderStatus, OrderStatus
<1>7. QED
  BY <1>1, <1>5, <1>6 DEF Store!Next, Store!AdminStep

LEMMA StepImplements ==
    ASSUME IInv, [Next]_vars
    PROVE  [Store!Next]_Store!vars
<1>1. ASSUME NEW s \in Sessions, Proceed(s) \/ AbortVictim(s) \/ Fail(s)
      PROVE  [Store!Next]_Store!vars
  <2>1. CASE UNCHANGED rows
    BY <2>1, RowsStutter
  <2>2. CASE \E o \in Orders : CommitCheckout(s, o)
    BY <2>2, CheckoutImplements
  <2>3. CASE CommitUpdate(s)
    BY <2>3, UpdateImplements
  <2>4. QED
    BY <1>1, <2>1, <2>2, <2>3 DEF Proceed, LockCart, ReadProduct, TakeStock, LockOrder,
       NextItem, GiveStock, AbortVictim, Fail, Rollback
<1>2. ASSUME NEW s \in Sessions, NEW r \in Request, Begin(s, r)
      PROVE  [Store!Next]_Store!vars
  BY <1>2, RowsStutter DEF Begin
<1>3. ASSUME Crash PROVE Store!Next
  <2>1. Store!Restart("midtrans")
    BY <1>3 DEF Crash, catalog, Store!Restart, Store!catalog, Store!FirstPayments
  <2>2. QED
    BY <2>1 DEF Store!Next
<1>4. ASSUME NEW c \in Customers, NEW p \in Products, NEW q \in 1 .. MaxQty, AddItem(c, p, q)
      PROVE  Store!Next
  <2>1. Store!AddItem(c, p, q)
    BY <1>4 DEF AddItem, Store!AddItem, Store!Orderable, StillServes, catalog, Store!catalog,
                Store!observed
  <2>2. QED
    BY <2>1 DEF Store!Next, Store!CustomerStep
<1>5. ASSUME NEW p \in Managed, NEW n \in 0 .. MaxStock, SetStock(p, n)
      PROVE  Store!Next
  <2>1. Store!SetStock(p, n)
    BY <1>5 DEF SetStock, Store!SetStock, Store!observed
  <2>2. QED
    BY <2>1, ManagedAssumption DEF Store!Next, Store!AdminStep
<1>6. ASSUME NEW p \in Managed, NEW active \in BOOLEAN, SetActive(p, active)
      PROVE  Store!Next
  <2>1. Store!SetActive(p, active)
    BY <1>6 DEF SetActive, Store!SetActive, Store!observed
  <2>2. QED
    BY <2>1, ManagedAssumption DEF Store!Next, Store!AdminStep
<1>7. ASSUME NEW p \in Managed, DeleteProduct(p)
      PROVE  Store!Next
  <2>1. Store!DeleteProduct(p)
    BY <1>7 DEF DeleteProduct, Store!DeleteProduct, Store!observed
  <2>2. QED
    BY <2>1, ManagedAssumption DEF Store!Next, Store!AdminStep
<1>8. ASSUME NEW p \in Managed, NEW n \in 0 .. MaxStock, NEW wasActive \in BOOLEAN,
             UpdateProduct(p, n, wasActive)
      PROVE  Store!Next
  <2>1. Store!UpdateProduct(p, n, wasActive)
    BY <1>8 DEF UpdateProduct, Store!UpdateProduct
  <2>2. QED
    BY <2>1, ManagedAssumption DEF Store!Next, Store!AdminStep
<1>9. CASE UNCHANGED vars
  BY <1>9, RowsStutter DEF vars
<1>10. QED
  BY <1>1, <1>2, <1>3, <1>4, <1>5, <1>6, <1>7, <1>8, <1>9 DEF Next, Environment

-----------------------------------------------------------------------------
(***************************************************************************)
(* Progress.  How the statements of a session follow one another.          *)
(***************************************************************************)

\* The session goes from a statement in x to a statement or answer in y.
Goes(s, x, y) == pc[s] \in x /\ pc'[s] \in y

Answers(s) == pc'[s] \in Answer /\ work'[s] = NoWork
GetsLock(s) ==
    /\ Goes(s, {"cart", "order"}, {"next", "restore"})
    /\ work'[s].todo \subseteq Products /\ work'[s].locked = {}
TurnsToProduct(s) ==
    /\ Goes(s, {"next", "restore"}, {"take", "give"})
    /\ work'[s].at \in work[s].todo
    /\ work'[s].todo = work[s].todo /\ work'[s].locked = work[s].locked
WritesProduct(s) ==
    /\ Goes(s, {"take", "give"}, {"next", "restore"})
    /\ work'[s].todo = work[s].todo \ {work[s].at}
    /\ work'[s].locked \subseteq work[s].locked \cup {work[s].at}
Advances(s) == Answers(s) \/ GetsLock(s) \/ TurnsToProduct(s) \/ WritesProduct(s)

LEMMA FinishAdvances ==
    ASSUME IInv, NEW s \in Sessions, NEW answer \in Answer, Finish(s, answer)
    PROVE  Advances(s)
BY DEF IInv, TxTypeOK, Finish, Goto, Answers, Advances

LEMMA CheckoutAdvances ==
    ASSUME IInv, NEW s \in Sessions,
           \/ LockCart(s)
           \/ \E p \in Products : ReadProduct(s, p)
           \/ TakeStock(s)
           \/ \E o \in Orders : CommitCheckout(s, o)
    PROVE  Advances(s)
<1>1. TxTypeOK /\ work[s] \in Work /\ SessionStarted(s)
  BY DEF IInv, TxTypeOK
<1>2. CASE \E answer \in Answer : Finish(s, answer)
  BY <1>2, FinishAdvances
<1>3. CASE LockCart(s) /\ ~Finish(s, "refused")
  <2> DEFINE lines == cart[request[s].customer]
             items == {p \in Products : lines[p] > 0}
  <2>1. /\ pc[s] = "cart" /\ Goto(s, "next")
        /\ work' = [work EXCEPT ![s].lines = lines, ![s].todo = items]
    BY <1>3 DEF LockCart, Rollback
  <2>2. work[s].locked = {}
    BY <1>1, <2>1, NoWorkTyped DEF SessionStarted
  <2>3. items \subseteq Products
    OBVIOUS
  <2> HIDE DEF lines, items
  <2>4. pc'[s] = "next" /\ work'[s].todo = items /\ work'[s].locked = {}
    BY <1>1, <2>1, <2>2 DEF TxTypeOK, Work, Goto
  <2>5. QED
    BY <2>1, <2>3, <2>4 DEF GetsLock, Goes, Advances
<1>4. ASSUME NEW p \in Products, ReadProduct(s, p), ~Finish(s, "refused")
      PROVE  Advances(s)
  <2>1. /\ pc[s] = "next" /\ p \in work[s].todo /\ Goto(s, "take")
        /\ work' = [work EXCEPT ![s].at = p]
    BY <1>4 DEF ReadProduct, Rollback
  <2>2. /\ pc'[s] = "take" /\ work'[s].at = p /\ work'[s].todo = work[s].todo
        /\ work'[s].locked = work[s].locked
    BY <1>1, <2>1 DEF TxTypeOK, Work, Goto
  <2>3. QED
    BY <2>1, <2>2 DEF TurnsToProduct, Goes, Advances
<1>5. CASE TakeStock(s) /\ ~Finish(s, "refused")
  <2> DEFINE p == work[s].at
  <2>1. /\ pc[s] = "take" /\ Goto(s, "next")
        /\ work' = [work EXCEPT ![s].locked = @ \cup {p}, ![s].todo = @ \ {p}]
    BY <1>5 DEF TakeStock, Rollback
  <2>2. /\ pc'[s] = "next" /\ work'[s].todo = work[s].todo \ {p}
        /\ work'[s].locked = work[s].locked \cup {p}
    BY <1>1, <2>1 DEF TxTypeOK, Work, Goto
  <2>3. QED
    BY <2>1, <2>2 DEF WritesProduct, Goes, Advances
<1>6. ASSUME NEW o \in Orders, CommitCheckout(s, o)
      PROVE  Advances(s)
  BY <1>2, <1>6 DEF CommitCheckout, Answer
<1>7. QED
  BY <1>2, <1>3, <1>4, <1>5, <1>6 DEF Answer

LEMMA UpdateAdvances ==
    ASSUME IInv, NEW s \in Sessions,
           \/ LockOrder(s)
           \/ \E p \in Products : NextItem(s, p)
           \/ GiveStock(s)
           \/ CommitUpdate(s)
    PROVE  Advances(s)
<1>1. TxTypeOK /\ work[s] \in Work /\ SessionStarted(s)
  BY DEF IInv, TxTypeOK
<1>2. CASE \E answer \in Answer : Finish(s, answer)
  BY <1>2, FinishAdvances
<1>3. CASE LockOrder(s) /\ ~\E answer \in Answer : Finish(s, answer)
  <2> DEFINE lines == order[request[s].order].items
             items == IF Restores(s) THEN {p \in Products : lines[p] > 0} ELSE {}
  <2>1. /\ pc[s] = "order" /\ Goto(s, "restore")
        /\ work' = [work EXCEPT ![s].lines = lines, ![s].todo = items]
    BY <1>3 DEF LockOrder, Rollback, Answer
  <2>2. work[s].locked = {}
    BY <1>1, <2>1, NoWorkTyped DEF SessionStarted
  <2>3. items \subseteq Products
    OBVIOUS
  <2> HIDE DEF lines, items
  <2>4. pc'[s] = "restore" /\ work'[s].todo = items /\ work'[s].locked = {}
    BY <1>1, <2>1, <2>2 DEF TxTypeOK, Work, Goto
  <2>5. QED
    BY <2>1, <2>3, <2>4 DEF GetsLock, Goes, Advances
<1>4. ASSUME NEW p \in Products, NextItem(s, p)
      PROVE  Advances(s)
  <2>1. /\ pc[s] = "restore" /\ p \in work[s].todo /\ Goto(s, "give")
        /\ work' = [work EXCEPT ![s].at = p]
    BY <1>4 DEF NextItem
  <2>2. /\ pc'[s] = "give" /\ work'[s].at = p /\ work'[s].todo = work[s].todo
        /\ work'[s].locked = work[s].locked
    BY <1>1, <2>1 DEF TxTypeOK, Work, Goto
  <2>3. QED
    BY <2>1, <2>2 DEF TurnsToProduct, Goes, Advances
<1>5. CASE GiveStock(s)
  <2> DEFINE p == work[s].at
             held == IF p \in deleted THEN work[s].locked ELSE work[s].locked \cup {p}
  <2>1. /\ pc[s] = "give" /\ Goto(s, "restore")
        /\ work' = [work EXCEPT ![s].todo = @ \ {p}, ![s].locked = held]
    BY <1>1, <1>5 DEF GiveStock, TxTypeOK, Work
  <2>2. held \subseteq work[s].locked \cup {p}
    OBVIOUS
  <2> HIDE DEF held
  <2>3. /\ pc'[s] = "restore" /\ work'[s].todo = work[s].todo \ {p}
        /\ work'[s].locked = held
    BY <1>1, <2>1 DEF TxTypeOK, Work, Goto
  <2>4. QED
    BY <2>1, <2>2, <2>3 DEF WritesProduct, Goes, Advances
<1>6. CASE CommitUpdate(s)
  BY <1>2, <1>6 DEF CommitUpdate, Answer
<1>7. QED
  BY <1>2, <1>3, <1>4, <1>5, <1>6

\* A statement is a step of its session alone.
LEMMA ProceedIsOwn ==
    ASSUME TxTypeOK, NEW s \in Sessions, NEW t \in Sessions, s # t,
           Proceed(s) \/ AbortVictim(s) \/ Fail(s)
    PROVE  pc'[t] = pc[t] /\ work'[t] = work[t]
BY DEF TxTypeOK, Proceed, AbortVictim, Fail, Rollback, Finish, Goto, LockCart, ReadProduct,
       TakeStock, CommitCheckout, LockOrder, NextItem, GiveStock, CommitUpdate

\* What any step does to a session.
LEMMA StepAdvances ==
    ASSUME IInv, [Next]_vars, NEW s \in Sessions
    PROVE  \/ pc'[s] = pc[s] /\ work'[s] = work[s]
           \/ pc[s] = "idle" /\ work'[s] = work[s]
           \/ Advances(s)
<1>1. TxTypeOK
  BY DEF IInv
<1>2. ASSUME NEW t \in Sessions, Proceed(t) \/ AbortVictim(t) \/ Fail(t), t # s
      PROVE  pc'[s] = pc[s] /\ work'[s] = work[s]
  BY <1>1, <1>2, ProceedIsOwn
<1>3. CASE Proceed(s)
  BY <1>3, CheckoutAdvances, UpdateAdvances DEF Proceed
<1>4. CASE AbortVictim(s) \/ Fail(s)
  BY <1>4, FinishAdvances DEF AbortVictim, Fail, Rollback, Answer
<1>5. ASSUME NEW t \in Sessions, NEW r \in Request, Begin(t, r)
      PROVE  (pc'[s] = pc[s] \/ pc[s] = "idle") /\ work'[s] = work[s]
  BY <1>1, <1>5 DEF TxTypeOK, Begin, Goto
<1>6. CASE Crash
  BY <1>1, <1>6 DEF IInv, SessionStarted, Crash, Running, Statement, Answer, Answers, Advances
<1>7. ASSUME \/ \E c \in Customers, p \in Products, q \in 1 .. MaxQty : AddItem(c, p, q)
             \/ \E p \in Managed, n \in 0 .. MaxStock : SetStock(p, n)
             \/ \E p \in Managed, active \in BOOLEAN : SetActive(p, active)
             \/ \E p \in Managed : DeleteProduct(p)
             \/ \E p \in Managed, n \in 0 .. MaxStock, wasActive \in BOOLEAN :
                    UpdateProduct(p, n, wasActive)
             \/ UNCHANGED vars
      PROVE  pc'[s] = pc[s] /\ work'[s] = work[s]
  BY <1>7 DEF AddItem, SetStock, SetActive, DeleteProduct, UpdateProduct, vars
<1>8. CASE Environment
  BY <1>2, <1>4, <1>5, <1>6, <1>7, <1>8 DEF Environment
<1>9. QED
  BY <1>2, <1>3, <1>4, <1>7, <1>8 DEF Next

LEMMA VisitedOnceKeeps ==
    ASSUME IInv, VisitedOnce, [Next]_vars
    PROVE  VisitedOnce'
<1> SUFFICES ASSUME NEW s \in Sessions
             PROVE  work'[s].todo \cap work'[s].locked = {}
  BY DEF VisitedOnce
<1>1. work[s].todo \cap work[s].locked = {}
  BY DEF VisitedOnce
<1>2. CASE work'[s] = work[s]
  BY <1>1, <1>2
<1>3. CASE Answers(s)
  BY <1>3, NoWorkTyped DEF Answers
<1>4. CASE GetsLock(s) \/ TurnsToProduct(s) \/ WritesProduct(s)
  BY <1>1, <1>4 DEF GetsLock, TurnsToProduct, WritesProduct
<1>5. QED
  BY <1>2, <1>3, <1>4, StepAdvances DEF Advances

\* A session that advances has fewer statements left.
LEMMA FewerStatementsLeft ==
    ASSUME IInv, NEW s \in Sessions, Running(s), Advances(s)
    PROVE  /\ StatementsLeft(s)' \subseteq StatementsLeft(s)
           /\ StatementsLeft(s)' # StatementsLeft(s)
<1> DEFINE Both(S) == S \X {"read", "update"}
           commit == <<NoRow, "commit">>
<1>1. /\ pc[s] \in {"cart", "order"} =>
             StatementsLeft(s) = {<<NoRow, "lock">>, commit} \cup Both(Products)
      /\ pc[s] \in {"next", "restore"} =>
             StatementsLeft(s) = {commit} \cup Both(work[s].todo)
      /\ pc[s] \in {"take", "give"} =>
             StatementsLeft(s) = {commit} \cup (Both(work[s].todo) \ {<<work[s].at, "read">>})
  BY DEF StatementsLeft
<1>2. /\ pc'[s] \in {"next", "restore"} =>
             StatementsLeft(s)' = {commit} \cup Both(work'[s].todo)
      /\ pc'[s] \in {"take", "give"} =>
             StatementsLeft(s)' = {commit} \cup (Both(work'[s].todo) \ {<<work'[s].at, "read">>})
      /\ pc'[s] \in Answer => StatementsLeft(s)' = {}
  BY DEF StatementsLeft, Answer
<1>3. commit \in StatementsLeft(s)
  BY <1>1 DEF Running, Statement
<1>4. CASE Answers(s)
  BY <1>2, <1>3, <1>4 DEF Answers
<1>5. CASE GetsLock(s)
  <2>1. StatementsLeft(s) = {<<NoRow, "lock">>, commit} \cup Both(Products)
    BY <1>1, <1>5 DEF GetsLock, Goes
  <2>2. StatementsLeft(s)' = {commit} \cup Both(work'[s].todo) /\ work'[s].todo \subseteq Products
    BY <1>2, <1>5 DEF GetsLock, Goes
  <2>3. <<NoRow, "lock">> \notin StatementsLeft(s)'
    BY <2>2
  <2>4. QED
    BY <2>1, <2>2, <2>3
<1>6. CASE TurnsToProduct(s)
  <2>1. StatementsLeft(s) = {commit} \cup Both(work[s].todo)
    BY <1>1, <1>6 DEF TurnsToProduct, Goes
  <2>2. /\ StatementsLeft(s)' = {commit} \cup (Both(work[s].todo) \ {<<work'[s].at, "read">>})
        /\ work'[s].at \in work[s].todo
    BY <1>2, <1>6 DEF TurnsToProduct, Goes
  <2>3. <<work'[s].at, "read">> \in StatementsLeft(s) \ StatementsLeft(s)'
    BY <2>1, <2>2
  <2>4. QED
    BY <2>1, <2>2, <2>3
<1>7. CASE WritesProduct(s)
  <2>1. StatementsLeft(s) = {commit} \cup (Both(work[s].todo) \ {<<work[s].at, "read">>})
    BY <1>1, <1>7 DEF WritesProduct, Goes
  <2>2. StatementsLeft(s)' = {commit} \cup Both(work[s].todo \ {work[s].at})
    BY <1>2, <1>7 DEF WritesProduct, Goes
  <2>3. work[s].at \in work[s].todo
    BY <1>7 DEF WritesProduct, Goes, IInv, SessionStarted
  <2>4. <<work[s].at, "update">> \in StatementsLeft(s) \ StatementsLeft(s)'
    BY <2>1, <2>2, <2>3
  <2>5. QED
    BY <2>1, <2>2, <2>4
<1>8. QED
  BY <1>4, <1>5, <1>6, <1>7 DEF Advances

-----------------------------------------------------------------------------
(***************************************************************************)
(* Waiting.                                                                *)
(***************************************************************************)

LEMMA LeastNumber ==
    ASSUME NEW S \in SUBSET Nat, S # {}
    PROVE  \E x \in S : \A y \in S : x <= y
<1>1. PICK x \in S : \A y \in S : ~ (<<y, x>> \in OpToRel(<, Nat))
  BY WFMin, NatLessThanWellFounded, Zenon
<1>2. \A y \in S : ~(y < x)
  BY <1>1, Zenon DEF OpToRel
<1>3. QED
  BY <1>2

\* A function from a finite set to itself goes in a circle somewhere.
LEMMA FunctionCircle ==
    ASSUME NEW W, IsFiniteSet(W), W # {}, NEW f \in [W -> W]
    PROVE  \E C \in SUBSET W : C # {} /\ C = {f[x] : x \in C}
<1> DEFINE Closed == {C \in SUBSET W : C # {} /\ \A x \in C : f[x] \in C}
           sizes == {Cardinality(C) : C \in Closed}
<1>1. \A C \in Closed : IsFiniteSet(C) /\ Cardinality(C) \in Nat
  BY FS_Subset, FS_CardinalityType
<1>2. W \in Closed
  OBVIOUS
<1>3. sizes \in SUBSET Nat /\ sizes # {}
  BY <1>1, <1>2
<1>4. PICK n \in sizes : \A m \in sizes : n <= m
  <2> HIDE DEF sizes
  <2>1. QED
    BY <1>3, LeastNumber
<1>5. PICK C \in Closed : n = Cardinality(C)
  BY <1>4
<1> DEFINE D == {f[x] : x \in C}
<1>6. D \subseteq C /\ D \in Closed
  BY <1>5
<1>7. n <= Cardinality(D)
  BY <1>4, <1>6
<1>8. D = C
  <2> HIDE DEF D, Closed
  <2>1. Cardinality(D) <= Cardinality(C) /\ (Cardinality(C) = Cardinality(D) => C = D)
    BY <1>1, <1>5, <1>6, FS_Subset
  <2>2. Cardinality(D) \in Nat /\ Cardinality(C) \in Nat
    BY <1>1, <1>5, <1>6
  <2>3. QED
    BY <1>5, <1>7, <2>1, <2>2
<1>9. QED
  BY <1>5, <1>8

\* A running session that cannot go on waits for another that runs: no lock
\* outlives its transaction, and none is waited for by its holder.
LEMMA WaitsForRunning ==
    ASSUME IInv, VisitedOnce, \E o \in Orders : order[o] = NoRow,
           NEW s \in Sessions, Running(s), ~CanProceed(s)
    PROVE  \E t \in Sessions : Running(t) /\ Blocks(t, s)
<1>1. CASE pc[s] = "cart"
  BY <1>1 DEF CanProceed, CartFree, HoldsCart, Running, Statement, Blocks
<1>2. CASE pc[s] = "order"
  BY <1>2 DEF CanProceed, OrderFree, HoldsOrder, Running, Statement, Blocks
<1>3. CASE pc[s] \in {"take", "give"}
  <2>1. PICK t \in Sessions : work[s].at \in work[t].locked
    BY <1>3 DEF CanProceed, ProductFree
  <2>2. t # s
    BY <1>3, <2>1 DEF VisitedOnce, IInv, SessionStarted
  <2>3. Running(t)
    BY <2>1, NoWorkTyped DEF IInv, SessionStarted, Running, Statement
  <2>4. QED
    BY <1>3, <2>1, <2>2, <2>3 DEF Blocks
<1>4. QED
  BY <1>1, <1>2, <1>3 DEF CanProceed, Running, Statement

LEMMA StandstillHasCircle ==
    ASSUME IInv, VisitedOnce, IsFiniteSet(Sessions)
    PROVE  StandstillIsCircle
<1> DEFINE W == {s \in Sessions : Running(s)}
<1> SUFFICES ASSUME W # {}, \E o \in Orders : order[o] = NoRow, \A s \in W : ~CanProceed(s)
             PROVE  \E s \in W : Deadlocked(s)
  BY DEF StandstillIsCircle
<1> DEFINE f == [s \in W |-> CHOOSE t \in W : Blocks(t, s)]
<1>1. \A s \in W : \E t \in W : Blocks(t, s)
  BY WaitsForRunning
<1>2. \A s \in W : f[s] \in W /\ Blocks(f[s], s)
  BY <1>1
<1>3. IsFiniteSet(W) /\ f \in [W -> W]
  BY <1>2, FS_Subset
<1> HIDE DEF f
<1>4. PICK C \in SUBSET W : C # {} /\ C = {f[x] : x \in C}
  <2> HIDE DEF W
  <2>1. QED
    BY <1>3, FunctionCircle
<1>5. ASSUME NEW t \in C
      PROVE  (\E u \in C : Blocks(u, t)) /\ (\E u \in C : Blocks(t, u))
  <2>1. f[t] \in C /\ Blocks(f[t], t)
    BY <1>2, <1>4
  <2>2. PICK u \in C : t = f[u]
    BY <1>4
  <2>3. Blocks(t, u)
    BY <1>2, <2>2
  <2>4. QED
    BY <2>1, <2>3
<1>6. PICK s \in C : TRUE
  BY <1>4
<1>7. C \in SUBSET Sessions
  BY <1>4
<1>8. QED
  BY <1>5, <1>6, <1>7 DEF Deadlocked

-----------------------------------------------------------------------------
(***************************************************************************)
(* Theorems.                                                               *)
(***************************************************************************)

\* What a checkout has read of its cart and taken of its products, and what a
\* change of status has read of its order, is so until the transaction ends
\* (internal/order/service.go:49-122, :158-206).
THEOREM StockInvariance == Spec => []IInv
BY InitKeeps, NextKeeps, PTL DEF Spec

\* Transactions have the variables their statement needs, and no product row
\* is updated by two of them at once.
THEOREM TransactionsTyped == Spec => []TxTypeOK
<1>1. IInv => TxTypeOK
  BY DEF IInv
<1>2. QED
  BY <1>1, StockInvariance, PTL

\* Checkouts, changes of status and of the catalogue that overlap, fail, are
\* cut off by a crash or are aborted in a circle of waiting have the effect of
\* whole requests one after another: no piece is sold twice, an order takes
\* all of its items or none, and gives them back once.
THEOREM CheckoutsImplementStore == Spec => ImplementsStore
<1>1. Init => Store!Init
  BY DEF Init, Store!Init, Store!EmptyCart, EmptyCart
<1>2. QED
  BY <1>1, StepImplements, StockInvariance, PTL DEF Spec, ImplementsStore, Store!Spec

\* Two checkouts that lock products in opposite orders, or any other sessions,
\* never stand still but in a circle, which the database breaks: some running
\* request can go on, or is in a circle of waiting
\* (internal/order/service.go:72-97).  The sessions are finitely many, as the
\* connections of the database are.
THEOREM StandstillsAreCircles ==
    ASSUME IsFiniteSet(Sessions)
    PROVE  Spec => []StandstillIsCircle
<1>1. Init => VisitedOnce
  BY NoWorkTyped DEF Init, VisitedOnce
<1>2. Spec => []VisitedOnce
  BY <1>1, VisitedOnceKeeps, StockInvariance, PTL DEF Spec
<1>3. IInv /\ VisitedOnce => StandstillIsCircle
  BY StandstillHasCircle
<1>4. QED
  BY <1>2, <1>3, StockInvariance, PTL

\* No step gives a running request more statements to execute, and each
\* statement of its own, or being aborted, leaves it fewer.
THEOREM RunningRequestsAdvance == Spec => RequestsAdvance
<1> DEFINE Advance == \A s \in Sessions : Running(s) =>
              /\ StatementsLeft(s)' \subseteq StatementsLeft(s)
              /\ Proceed(s) \/ AbortVictim(s) => StatementsLeft(s)' # StatementsLeft(s)
<1>1. ASSUME IInv, [Next]_vars PROVE Advance
  <2> SUFFICES ASSUME NEW s \in Sessions, Running(s)
               PROVE  /\ StatementsLeft(s)' \subseteq StatementsLeft(s)
                      /\ Proceed(s) \/ AbortVictim(s) => StatementsLeft(s)' # StatementsLeft(s)
    OBVIOUS
  <2>1. CASE Advances(s)
    BY <1>1, <2>1, FewerStatementsLeft
  <2>2. Proceed(s) \/ AbortVictim(s) => Advances(s)
    BY <1>1, CheckoutAdvances, UpdateAdvances, FinishAdvances
       DEF Proceed, AbortVictim, Rollback, Answer
  <2>3. CASE pc'[s] = pc[s] /\ work'[s] = work[s]
    BY <2>1, <2>2, <2>3 DEF StatementsLeft
  <2>4. QED
    BY <1>1, <2>1, <2>3, StepAdvances DEF Running, Statement
<1>2. QED
  BY <1>1, StockInvariance, PTL DEF Spec, RequestsAdvance
=============================================================================
