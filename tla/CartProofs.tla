------------------------------- MODULE CartProofs -------------------------------
(***************************************************************************)
(* Proofs about CartTx, for any numbers of customers, carts, lines, orders *)
(* and sessions and any bounds.                                            *)
(***************************************************************************)
EXTENDS CartTx, FiniteSetTheorems, WellFoundedInduction, TLAPS

\* The fields of the requests, by their kind.
LEMMA RequestFields ==
    ASSUME NEW r \in Request
    PROVE  /\ r.kind \in {"get", "clear", "checkout", "add", "update", "remove"}
           /\ r.customer \in Customers
           /\ r # NoRow
           /\ r.kind = "add" => r.product \in Products /\ r.quantity \in Nat \ {0}
           /\ r.kind = "update" => r.item \in ItemIds /\ r.quantity \in Nat \ {0}
           /\ r.kind = "remove" => r.item \in ItemIds
BY NoRowAssumption, BoundsAssumption DEF Request

\* A session that has found nothing.
LEMMA NoWorkTyped ==
    /\ NoWork \in Work
    /\ NoWork.cart = NoRow /\ NoWork.item = NoRow
BY DEF NoWork, Work, NoLines, Lines

-----------------------------------------------------------------------------
(***************************************************************************)
(* Steps that write no table.                                              *)
(***************************************************************************)

\* A session that goes on keeps the invariant if it has found only what is
\* its customer's, and holds a cart only if nobody else does.
LEMMA SessionStep ==
    ASSUME IInv, NEW s \in Sessions, UNCHANGED tables,
           NEW l \in Statement, NEW r \in Request \cup {NoRow}, NEW w \in Work,
           pc' = [pc EXCEPT ![s] = l],
           request' = [request EXCEPT ![s] = r],
           work' = [work EXCEPT ![s] = w],
           SessionOK(s)',
           w.item # NoRow =>
               \/ w.item = work[s].item /\ w.cart = work[s].cart
               \/ line[w.item] # NoRow /\ line[w.item].cart = w.cart,
           l \in {"items", "commit"} =>
               w.cart \in ActiveCarts(r.customer) /\ CartFree(s, w.cart)
    PROVE  IInv'
<1>1. TypeOK /\ OneOrderPerCart /\ CartsExist /\ FoundLineStays
      /\ \A t \in Sessions : SessionOK(t)
  BY DEF IInv
<1>2. /\ pc \in [Sessions -> Statement]
      /\ request \in [Sessions -> Request \cup {NoRow}]
      /\ work \in [Sessions -> Work]
  BY <1>1 DEF TypeOK
<1>3. /\ pc'[s] = l /\ request'[s] = r /\ work'[s] = w
      /\ \A t \in Sessions \ {s} :
             pc'[t] = pc[t] /\ request'[t] = request[t] /\ work'[t] = work[t]
  BY <1>2
<1>4. \A c \in Customers : ActiveCarts(c)' = ActiveCarts(c)
  BY DEF ActiveCarts, tables
<1>5. \A t \in Sessions \ {s}, k \in CartIds : HoldsCart(t, k)' <=> HoldsCart(t, k)
  BY <1>3 DEF HoldsCart
<1>6. \A k \in CartIds : HoldsCart(s, k)' => w.cart = k /\ l \in {"items", "commit"}
  BY <1>3 DEF HoldsCart
<1>7. TypeOK'
  <2>1. /\ stock' \in [Products -> Nat]
        /\ isActive' \in [Products -> BOOLEAN]
        /\ cart' \in [CartIds -> CartRow \cup {NoRow}]
        /\ line' \in [ItemIds -> LineRow \cup {NoRow}]
        /\ order' \in [Orders -> OrderRow \cup {NoRow}]
    BY <1>1 DEF TypeOK, tables
  <2>2. /\ pc' \in [Sessions -> Statement]
        /\ request' \in [Sessions -> Request \cup {NoRow}]
        /\ work' \in [Sessions -> Work]
    BY <1>2
  <2>3. \A c \in Customers : \A k, m \in ActiveCarts(c)' : k = m
    BY <1>1, <1>4 DEF TypeOK
  <2>4. ASSUME NEW t \in Sessions, NEW k \in CartIds, HoldsCart(t, k)'
        PROVE  k \in ActiveCarts(CustomerOf(t))' /\ CartFree(t, k)'
    <3>1. CASE t = s
      <4>1. k = w.cart /\ k \in ActiveCarts(r.customer) /\ CartFree(s, k)
        BY <1>6, <2>4, <3>1
      <4>2. k \in ActiveCarts(CustomerOf(t))'
        BY <1>3, <3>1, <4>1 DEF ActiveCarts, CustomerOf, tables
      <4>3. CartFree(t, k)'
        BY <1>5, <3>1, <4>1 DEF CartFree
      <4>4. QED
        BY <4>2, <4>3
    <3>2. CASE t # s
      <4>1. HoldsCart(t, k)
        BY <1>5, <2>4, <3>2
      <4>2. k \in ActiveCarts(CustomerOf(t)) /\ CartFree(t, k)
        BY <1>1, <4>1 DEF TypeOK
      <4>3. k \in ActiveCarts(CustomerOf(t))'
        BY <1>3, <3>2, <4>2 DEF ActiveCarts, CustomerOf, tables
      <4>4. ~HoldsCart(s, k)'
        <5>1. SUFFICES ASSUME HoldsCart(s, k)' PROVE FALSE
          OBVIOUS
        <5>2. CartFree(s, k)
          BY <1>6, <5>1
        <5>3. QED
          BY <3>2, <4>1, <5>2 DEF CartFree
      <4>5. CartFree(t, k)'
        BY <1>5, <4>2, <4>4 DEF CartFree
      <4>6. QED
        BY <4>3, <4>5
    <3>3. QED
      BY <3>1, <3>2
  <2>5. QED
    BY <2>1, <2>2, <2>3, <2>4 DEF TypeOK
<1>8. OneOrderPerCart' /\ CartsExist'
  BY <1>1 DEF OneOrderPerCart, CartsExist, tables
<1>9. ASSUME NEW t \in Sessions
      PROVE  SessionOK(t)'
  <2>1. CASE t = s
    BY <2>1
  <2>2. CASE t # s
    BY <1>1, <1>3, <2>2 DEF SessionOK, Running, tables
  <2>3. QED
    BY <2>1, <2>2
<1>10. FoundLineStays'
  <2>1. \A t \in Sessions : work[t].item # NoRow /\ line[work[t].item] # NoRow
                            => line[work[t].item].cart = work[t].cart
    BY <1>1 DEF FoundLineStays
  <2>2. \A t, u \in Sessions : work[t].item # NoRow /\ work[u].item = work[t].item
                               => work[u].cart = work[t].cart
    BY <1>1 DEF FoundLineStays
  <2>3. w.item # NoRow /\ line[w.item] # NoRow => line[w.item].cart = w.cart
    BY <2>1
  <2>4. \A t \in Sessions \ {s} :
            w.item # NoRow /\ work[t].item = w.item => work[t].cart = w.cart
    BY <2>1, <2>2
  <2>5. line' = line
    BY DEF tables
  <2>6. QED
    BY <1>3, <2>1, <2>2, <2>3, <2>4, <2>5 DEF FoundLineStays
<1>11. QED
  BY <1>7, <1>8, <1>9, <1>10 DEF IInv

\* A request that ends without effect.
LEMMA RefuseStep ==
    ASSUME IInv, NEW s \in Sessions, Refuse(s)
    PROVE  IInv'
<1>1. pc \in [Sessions -> Statement] /\ work \in [Sessions -> Work]
      /\ request \in [Sessions -> Request \cup {NoRow}]
  BY DEF IInv, TypeOK
<1>2. pc'[s] = "idle" /\ request'[s] = NoRow /\ work'[s] = NoWork
  BY <1>1 DEF Refuse, End
<1>3. SessionOK(s)'
  BY <1>2, NoWorkTyped DEF SessionOK, Running
<1>4. QED
  BY <1>3, NoWorkTyped, SessionStep DEF Refuse, End, Statement

\* What the invariant says of a session that serves a request.
LEMMA Serving ==
    ASSUME IInv, NEW s \in Sessions
    PROVE  /\ pc \in [Sessions -> Statement]
           /\ request \in [Sessions -> Request \cup {NoRow}]
           /\ work \in [Sessions -> Work]
           /\ work[s] \in Work
           /\ Running(s) => request[s] \in Request /\ CustomerOf(s) \in Customers
           /\ SessionOK(s)
<1>1. /\ pc \in [Sessions -> Statement]
      /\ request \in [Sessions -> Request \cup {NoRow}]
      /\ work \in [Sessions -> Work]
      /\ SessionOK(s)
  BY DEF IInv, TypeOK
<1>2. Running(s) => request[s] \in Request
  BY <1>1 DEF SessionOK
<1>3. QED
  BY <1>1, <1>2, RequestFields DEF CustomerOf

\* A request starts.
LEMMA BeginStep ==
    ASSUME IInv, NEW s \in Sessions, NEW r \in Request, Begin(s, r)
    PROVE  IInv'
<1> DEFINE l == IF r.kind = "add" THEN "product" ELSE "cart"
<1>1. work[s] = NoWork
  BY Serving DEF Begin, SessionOK
<1>2. /\ pc' = [pc EXCEPT ![s] = l]
      /\ request' = [request EXCEPT ![s] = r]
      /\ work' = [work EXCEPT ![s] = NoWork]
      /\ UNCHANGED tables
  BY <1>1, Serving DEF Begin
<1>3. l \in Statement /\ l \in {"product", "cart"} /\ (l = "product" => r.kind = "add")
  BY DEF Statement
<1>4. pc'[s] = l /\ request'[s] = r /\ work'[s] = NoWork
  BY <1>2, Serving
<1>5. SessionOK(s)'
  BY <1>3, <1>4, NoWorkTyped DEF SessionOK, Running
<1> HIDE DEF l
<1>6. QED
  BY <1>2, <1>3, <1>5, NoWorkTyped, SessionStep

\* A running session goes on with the next statement and its request.
LEMMA GotoStep ==
    ASSUME IInv, NEW s \in Sessions, Running(s),
           NEW l \in Statement \ {"idle", "done"}, Goto(s, l),
           NEW w \in Work, work' = [work EXCEPT ![s] = w],
           l = "product" => IF w.item = NoRow THEN request[s].kind = "add"
                                              ELSE request[s].kind = "update",
           l \in {"cart", "make", "item"} => w.item = NoRow,
           l \in {"item", "write", "delete", "items", "commit"} => w.cart # NoRow,
           l = "write" => w.item # NoRow \/ request[s].kind = "add",
           w.cart # NoRow => \/ w.cart = work[s].cart
                             \/ w.cart \in ActiveCarts(CustomerOf(s)),
           w.item # NoRow => /\ w.row \in LineRow
                             /\ w.row.cart = w.cart
                             /\ w.cart = work[s].cart
                             /\ \/ w.item = work[s].item
                                \/ line[w.item] # NoRow /\ line[w.item].cart = w.cart,
           l \in {"items", "commit"} =>
               w.cart \in ActiveCarts(CustomerOf(s)) /\ CartFree(s, w.cart)
    PROVE  IInv'
<1> DEFINE r == request[s]
<1>1. r \in Request /\ r # NoRow /\ SessionOK(s)
  BY Serving, RequestFields
<1>2. /\ pc' = [pc EXCEPT ![s] = l]
      /\ request' = [request EXCEPT ![s] = r]
      /\ UNCHANGED tables
  BY Serving DEF Goto
<1>3. pc'[s] = l /\ request'[s] = r /\ work'[s] = w
  BY <1>2, Serving
<1>4. w.cart # NoRow => cart[w.cart] # NoRow /\ cart[w.cart].customer = r.customer
  BY <1>1 DEF SessionOK, ActiveCarts, CustomerOf
<1>5. w.item # NoRow => w.cart # NoRow
  BY NoRowAssumption DEF LineRow
<1>6. SessionOK(s)'
  BY <1>1, <1>2, <1>3, <1>4, <1>5 DEF SessionOK, Running, tables
<1>7. QED
  BY <1>1, <1>2, <1>6, SessionStep DEF CustomerOf

\* The statements that only read.
LEMMA ReadProductStep ==
    ASSUME IInv, NEW s \in Sessions, ReadProduct(s)
    PROVE  IInv'
<1> DEFINE r == request[s]
           w == work[s]
           p == IF r.kind = "add" THEN r.product ELSE w.row.product
<1>1. pc[s] = "product" /\ Running(s) /\ r \in Request /\ w \in Work /\ SessionOK(s)
  BY Serving DEF ReadProduct, Running
<1>2. IF w.item = NoRow THEN r.kind = "add" ELSE r.kind = "update"
  BY <1>1 DEF SessionOK
<1>3. CASE Refuse(s)
  BY <1>3, RefuseStep
<1>4. CASE r.kind = "add" /\ Goto(s, "cart") /\ work' = [work EXCEPT ![s].stock = stock[p]]
  <2> DEFINE v == [w EXCEPT !.stock = stock[p]]
  <2>1. stock[p] \in Nat
    BY <1>1, <1>4, RequestFields DEF IInv, TypeOK
  <2>2. /\ v \in Work /\ v.cart = w.cart /\ v.item = w.item /\ v.row = w.row
        /\ work' = [work EXCEPT ![s] = v]
    BY <1>1, <1>4, <2>1, Serving DEF Work
  <2> HIDE DEF v
  <2>3. w.item = NoRow /\ w.cart = work[s].cart
    BY <1>2, <1>4
  <2>4. "cart" \in Statement \ {"idle", "done"} /\ Goto(s, "cart")
    BY <1>4 DEF Statement
  <2> HIDE DEF w, p
  <2>5. QED
    BY <1>1, <2>2, <2>3, <2>4, GotoStep
<1>5. CASE /\ r.kind = "update" /\ Goto(s, "write")
           /\ work' = [work EXCEPT ![s].row.quantity = r.quantity]
  <2> DEFINE row == [w.row EXCEPT !.quantity = r.quantity]
             v   == [w EXCEPT !.row = row]
  <2>1. w.item # NoRow /\ w.row \in LineRow /\ w.row.cart = w.cart /\ w.cart # NoRow
    BY <1>1, <1>2, <1>5 DEF SessionOK
  <2>2. row \in LineRow /\ row.cart = w.row.cart
    BY <1>1, <1>5, <2>1, RequestFields DEF LineRow
  <2>3. /\ v \in Work /\ v.cart = w.cart /\ v.item = w.item /\ v.row = row
        /\ work' = [work EXCEPT ![s] = v]
    BY <1>1, <1>5, <2>2, Serving DEF Work
  <2> HIDE DEF v, row
  <2>4. "write" \in Statement \ {"idle", "done"} /\ Goto(s, "write")
    BY <1>5 DEF Statement
  <2>5. w.cart = work[s].cart /\ w.item = work[s].item
    OBVIOUS
  <2> HIDE DEF w, p
  <2>6. QED
    BY <1>1, <2>1, <2>2, <2>3, <2>4, <2>5, GotoStep
<1>6. QED
  BY <1>2, <1>3, <1>4, <1>5 DEF ReadProduct

LEMMA FindCartStep ==
    ASSUME IInv, NEW s \in Sessions, NEW k \in CartIds, FindCart(s, k)
    PROVE  IInv'
<1> DEFINE r == request[s]
           w == work[s]
           v == [w EXCEPT !.cart = k]
           l == CASE r.kind \in {"add", "update"}   -> "item"
                  [] r.kind \in {"remove", "clear"} -> "delete"
                  [] r.kind = "checkout"            -> "items"
<1>1. pc[s] = "cart" /\ Running(s) /\ r \in Request /\ w \in Work /\ SessionOK(s)
  BY Serving DEF FindCart, Running
<1>2. CASE Refuse(s)
  BY <1>2, RefuseStep
<1>3. CASE /\ r.kind # "get"
           /\ r.kind = "checkout" => CartFree(s, k)
           /\ Goto(s, l)
           /\ work' = [work EXCEPT ![s].cart = k]
  <2>1. r.kind \in {"add", "update", "remove", "clear", "checkout"}
    BY <1>1, <1>3, RequestFields
  <2>2. /\ l \in {"item", "delete", "items"}
        /\ l = "items" => r.kind = "checkout"
    BY <2>1
  <2>3. k # NoRow
    BY NoRowAssumption
  <2>4. /\ v \in Work /\ v.cart = k /\ v.item = w.item /\ v.row = w.row
        /\ work' = [work EXCEPT ![s] = v]
    BY <1>1, <1>3, Serving DEF Work
  <2>5. k \in ActiveCarts(CustomerOf(s))
    BY DEF FindCart
  <2>6. w.item = NoRow
    BY <1>1 DEF SessionOK
  <2>7. l \in Statement \ {"idle", "done"}
    BY <2>2 DEF Statement
  <2> HIDE DEF v, l
  <2>8. QED
    BY <1>1, <1>3, <2>2, <2>3, <2>4, <2>5, <2>6, <2>7, GotoStep
<1>4. QED
  BY <1>2, <1>3 DEF FindCart

LEMMA FindNoCartStep ==
    ASSUME IInv, NEW s \in Sessions, FindNoCart(s)
    PROVE  IInv'
<1> DEFINE w == work[s]
<1>1. pc[s] = "cart" /\ Running(s) /\ w \in Work /\ SessionOK(s)
  BY Serving DEF FindNoCart, Running
<1>2. CASE Refuse(s)
  BY <1>2, RefuseStep
<1>3. CASE Goto(s, "make") /\ UNCHANGED work
  <2>1. w.item = NoRow /\ w.cart = work[s].cart
    BY <1>1 DEF SessionOK
  <2>2. work' = [work EXCEPT ![s] = w]
    BY <1>3, Serving
  <2>3. "make" \in Statement \ {"idle", "done"} /\ Goto(s, "make")
    BY <1>3 DEF Statement
  <2> HIDE DEF w
  <2>4. QED
    BY <1>1, <2>1, <2>2, <2>3, GotoStep
<1>4. QED
  BY <1>2, <1>3 DEF FindNoCart

LEMMA FindItemToAddStep ==
    ASSUME IInv, NEW s \in Sessions, FindItemToAdd(s)
    PROVE  IInv'
<1> DEFINE w == work[s]
           r == request[s]
<1>1. /\ pc[s] = "item" /\ Running(s) /\ w \in Work /\ SessionOK(s)
      /\ r \in Request /\ r.kind = "add"
  BY Serving DEF FindItemToAdd, Running
<1>2. w.item = NoRow /\ w.cart # NoRow /\ w.cart = work[s].cart
  BY <1>1 DEF SessionOK
<1>3. "write" \in Statement \ {"idle", "done"}
  BY DEF Statement
<1>4. CASE Goto(s, "write") /\ UNCHANGED work
  <2>1. work' = [work EXCEPT ![s] = w]
    BY <1>4, Serving
  <2>2. Goto(s, "write")
    BY <1>4
  <2> HIDE DEF w
  <2>3. QED
    BY <1>1, <1>2, <1>3, <2>1, <2>2, GotoStep
<1>5. ASSUME NEW i \in FirstLine(w.cart, r.product)
      PROVE  LET row == [line[i] EXCEPT !.quantity = NewQuantity(line[i], r.quantity)]
             IN  /\ i \in ItemIds /\ line[i] # NoRow
                 /\ line[i].cart = w.cart
                 /\ row \in LineRow /\ row.cart = w.cart
  <2>1. i \in ItemIds /\ line[i] # NoRow /\ line[i].cart = w.cart
    BY DEF FirstLine, LinesOf, ItemOfCart
  <2>2. line[i] \in LineRow
    BY <2>1 DEF IInv, TypeOK
  <2>3. r.quantity \in Nat \ {0}
    BY <1>1, RequestFields
  <2>4. NewQuantity(line[i], r.quantity) \in Nat \ {0}
    BY <2>2, <2>3 DEF NewQuantity, LineRow
  <2>5. QED
    BY <2>1, <2>2, <2>4 DEF LineRow
<1>6. ASSUME NEW i \in FirstLine(w.cart, r.product), NEW row,
             row = [line[i] EXCEPT !.quantity = NewQuantity(line[i], r.quantity)],
             Goto(s, "write"), work' = [work EXCEPT ![s].item = i, ![s].row = row]
      PROVE  IInv'
  <2> DEFINE v == [w EXCEPT !.item = i, !.row = row]
  <2>1. /\ i \in ItemIds /\ i # NoRow /\ line[i] # NoRow /\ line[i].cart = w.cart
        /\ row \in LineRow /\ row.cart = w.cart
    BY <1>5, <1>6, NoRowAssumption
  <2>2. /\ v \in Work /\ v.cart = w.cart /\ v.item = i /\ v.row = row
        /\ work' = [work EXCEPT ![s] = v]
    BY <1>1, <1>6, <2>1, Serving DEF Work
  <2>3. Goto(s, "write")
    BY <1>6
  <2> HIDE DEF v, w
  <2>4. QED
    BY <1>1, <1>2, <1>3, <2>1, <2>2, <2>3, GotoStep
<1>7. CASE Refuse(s)
  BY <1>7, RefuseStep
<1>8. QED
  BY <1>4, <1>6, <1>7 DEF FindItemToAdd

LEMMA FindItemToUpdateStep ==
    ASSUME IInv, NEW s \in Sessions, FindItemToUpdate(s)
    PROVE  IInv'
<1> DEFINE w == work[s]
           i == request[s].item
           v == [w EXCEPT !.item = i, !.row = line[i]]
<1>1. /\ pc[s] = "item" /\ Running(s) /\ w \in Work /\ SessionOK(s)
      /\ request[s] \in Request /\ request[s].kind = "update"
  BY Serving DEF FindItemToUpdate, Running
<1>2. w.item = NoRow /\ w.cart # NoRow /\ w.cart = work[s].cart
  BY <1>1 DEF SessionOK
<1>3. CASE Refuse(s)
  BY <1>3, RefuseStep
<1>4. CASE /\ ItemOfCart(i, w.cart)
           /\ Goto(s, "product")
           /\ work' = [work EXCEPT ![s].item = i, ![s].row = line[i]]
  <2>1. i \in ItemIds /\ i # NoRow
    BY <1>1, RequestFields, NoRowAssumption
  <2>2. line[i] # NoRow /\ line[i].cart = w.cart /\ line[i] \in LineRow
    BY <1>4, <2>1 DEF ItemOfCart, IInv, TypeOK
  <2>3. /\ v \in Work /\ v.cart = w.cart /\ v.item = i /\ v.row = line[i]
        /\ work' = [work EXCEPT ![s] = v]
    BY <1>1, <1>4, <2>1, <2>2, Serving DEF Work
  <2>4. "product" \in Statement \ {"idle", "done"} /\ Goto(s, "product")
    BY <1>4 DEF Statement
  <2> HIDE DEF v, w, i
  <2>5. QED
    BY <1>1, <1>2, <2>1, <2>2, <2>3, <2>4, GotoStep
<1>5. QED
  BY <1>3, <1>4 DEF FindItemToUpdate

LEMMA ReadItemsStep ==
    ASSUME IInv, NEW s \in Sessions, ReadItems(s)
    PROVE  IInv'
<1> DEFINE w == work[s]
           v == [w EXCEPT !.lines = LinesIn(w.cart)]
<1>1. /\ pc[s] = "items" /\ Running(s) /\ w \in Work /\ SessionOK(s)
  BY Serving DEF ReadItems, Running
<1>2. CASE Refuse(s)
  BY <1>2, RefuseStep
<1>3. CASE Goto(s, "commit") /\ work' = [work EXCEPT ![s].lines = LinesIn(w.cart)]
  <2>1. LinesIn(w.cart) \in Lines
    BY DEF LinesIn, Lines, ItemOfCart, IInv, TypeOK
  <2>2. /\ v \in Work /\ v.cart = w.cart /\ v.item = w.item /\ v.row = w.row
        /\ work' = [work EXCEPT ![s] = v]
    BY <1>1, <1>3, <2>1, Serving DEF Work
  <2>3. "commit" \in Statement \ {"idle", "done"} /\ Goto(s, "commit")
    BY <1>3 DEF Statement
  <2>4. w.cart # NoRow /\ w.cart = work[s].cart /\ w.item = work[s].item
    BY <1>1 DEF SessionOK
  <2>5. w.item # NoRow => w.row \in LineRow /\ w.row.cart = w.cart
    BY <1>1 DEF SessionOK
  <2>6. w.cart \in CartIds /\ HoldsCart(s, w.cart)
    BY <1>1, <2>4 DEF HoldsCart, Work
  <2>7. w.cart \in ActiveCarts(CustomerOf(s)) /\ CartFree(s, w.cart)
    BY <2>6 DEF IInv, TypeOK
  <2> HIDE DEF v, w
  <2>8. QED
    BY <1>1, <2>2, <2>3, <2>4, <2>5, <2>7, GotoStep
<1>4. QED
  BY <1>2, <1>3 DEF ReadItems

-----------------------------------------------------------------------------
(***************************************************************************)
(* Steps that write a table.                                               *)
(***************************************************************************)

\* What the end of the transaction of s does to the sessions: of the others
\* it touches nothing but the observer.
LEMMA CommitEffect ==
    ASSUME IInv, NEW s \in Sessions, Commit(s)
    PROVE  /\ pc' \in [Sessions -> Statement]
           /\ request' \in [Sessions -> Request \cup {NoRow}]
           /\ work' \in [Sessions -> Work]
           /\ pc'[s] = "done" /\ work'[s] = NoWork
           /\ \A t \in Sessions \ {s} :
                  /\ pc'[t] = pc[t]
                  /\ request'[t] = request[t]
                  /\ work'[t].cart = work[t].cart
                  /\ work'[t].item = work[t].item
                  /\ work'[t].row = work[t].row
                  /\ work[t] = NoWork /\ pc[t] \in {"idle", "done"} => work'[t] = NoWork
<1>1. /\ pc \in [Sessions -> Statement]
      /\ request \in [Sessions -> Request \cup {NoRow}]
      /\ work \in [Sessions -> Work]
  BY Serving
<1>2. /\ pc' = [pc EXCEPT ![s] = "done"]
      /\ request' = [request EXCEPT ![s] = NoRow]
      /\ work' = [t \in Sessions |->
                     IF t = s THEN NoWork
                     ELSE [work[t] EXCEPT !.overtaken = @ \/ OvertakenBy(s, t)]]
  BY DEF Commit, End
<1>3. ASSUME NEW t \in Sessions \ {s}
      PROVE  LET v == [work[t] EXCEPT !.overtaken = @ \/ OvertakenBy(s, t)]
             IN  /\ v \in Work /\ v.cart = work[t].cart /\ v.item = work[t].item
                 /\ v.row = work[t].row
                 /\ work[t] = NoWork /\ pc[t] \in {"idle", "done"} => v = NoWork
  <2>1. work[t] \in Work
    BY <1>1
  <2>2. OvertakenBy(s, t) \in BOOLEAN
    BY DEF OvertakenBy
  <2>3. pc[t] \in {"idle", "done"} => ~OvertakenBy(s, t)
    BY DEF OvertakenBy, Running
  <2>4. QED
    BY <2>1, <2>2, <2>3 DEF Work, NoWork
<1>4. work' \in [Sessions -> Work]
  BY <1>2, <1>3, NoWorkTyped
<1>5. QED
  BY <1>1, <1>2, <1>3, <1>4 DEF Statement

\* The sessions after a commit of s that takes no cart away.
LEMMA CommitSessions ==
    ASSUME IInv, NEW s \in Sessions, Commit(s), NEW t \in Sessions,
           \A k \in CartIds : cart[k] # NoRow =>
               cart'[k] # NoRow /\ cart'[k].customer = cart[k].customer
    PROVE  SessionOK(t)'
<1>1. CASE t = s
  <2>1. pc'[t] = "done" /\ work'[t] = NoWork
    BY <1>1, CommitEffect
  <2>2. QED
    BY <2>1, NoWorkTyped DEF SessionOK, Running
<1>2. CASE t # s
  <2>1. /\ pc'[t] = pc[t] /\ request'[t] = request[t]
        /\ work'[t].cart = work[t].cart
        /\ work'[t].item = work[t].item
        /\ work'[t].row = work[t].row
        /\ work[t] = NoWork /\ pc[t] \in {"idle", "done"} => work'[t] = NoWork
    BY <1>2, CommitEffect
  <2>2. SessionOK(t) /\ work[t] \in Work
    BY Serving
  <2>3. work[t].cart # NoRow => work[t].cart \in CartIds
    BY <2>2 DEF Work
  <2>4. QED
    BY <2>1, <2>2, <2>3 DEF SessionOK, Running
<1>3. QED
  BY <1>1, <1>2

\* A request that writes lines of the cart it has found, none of which
\* another session has found in another cart.
LEMMA CommitLines ==
    ASSUME IInv, NEW s \in Sessions, Commit(s),
           UNCHANGED <<products, cart, order>>,
           line' \in [ItemIds -> LineRow \cup {NoRow}],
           work[s].cart # NoRow,
           \A i \in ItemIds :
               \/ line'[i] = line[i]
               \/ line'[i] = NoRow
               \/ /\ line'[i].cart = work[s].cart
                  /\ \A t \in Sessions : work[t].item = i => work[t].cart = work[s].cart
    PROVE  IInv'
<1>1. TypeOK /\ OneOrderPerCart /\ CartsExist /\ FoundLineStays
  BY DEF IInv
<1>2. /\ \A t \in Sessions \ {s} : /\ pc'[t] = pc[t] /\ request'[t] = request[t]
                                   /\ work'[t].cart = work[t].cart
                                   /\ work'[t].item = work[t].item
      /\ pc'[s] = "done" /\ work'[s] = NoWork
      /\ pc' \in [Sessions -> Statement]
      /\ request' \in [Sessions -> Request \cup {NoRow}]
      /\ work' \in [Sessions -> Work]
  BY CommitEffect
<1>3. \A t \in Sessions, k \in CartIds :
          HoldsCart(t, k)' => t # s /\ HoldsCart(t, k)
  BY <1>2 DEF HoldsCart
<1>4. TypeOK'
  <2>1. \A c \in Customers : \A k, m \in ActiveCarts(c)' : k = m
    BY <1>1 DEF TypeOK, ActiveCarts
  <2>2. ASSUME NEW t \in Sessions, NEW k \in CartIds, HoldsCart(t, k)'
        PROVE  k \in ActiveCarts(CustomerOf(t))' /\ CartFree(t, k)'
    <3>1. t # s /\ HoldsCart(t, k)
      BY <1>3, <2>2
    <3>2. k \in ActiveCarts(CustomerOf(t)) /\ CartFree(t, k)
      BY <1>1, <3>1 DEF TypeOK
    <3>3. k \in ActiveCarts(CustomerOf(t))'
      BY <1>2, <3>1, <3>2 DEF ActiveCarts, CustomerOf
    <3>4. QED
      BY <1>3, <3>2, <3>3 DEF CartFree
  <2>3. QED
    BY <1>1, <1>2, <2>1, <2>2 DEF TypeOK, products
<1>5. OneOrderPerCart'
  BY <1>1 DEF OneOrderPerCart
<1>6. CartsExist'
  <2>1. work[s].cart \in CartIds /\ cart[work[s].cart] # NoRow
    BY Serving DEF SessionOK, Work
  <2>2. QED
    BY <1>1, <2>1 DEF CartsExist
<1>7. \A t \in Sessions : SessionOK(t)'
  BY CommitSessions
<1>8. FoundLineStays'
  <2>1. ASSUME NEW t \in Sessions, work'[t].item # NoRow
        PROVE  /\ line'[work'[t].item] # NoRow =>
                      line'[work'[t].item].cart = work'[t].cart
               /\ \A u \in Sessions :
                      work'[u].item = work'[t].item => work'[u].cart = work'[t].cart
    <3>1. t # s
      BY <1>2, <2>1, NoWorkTyped
    <3>2. /\ work'[t].item = work[t].item /\ work'[t].cart = work[t].cart
          /\ work[t].item \in ItemIds
      BY <1>2, <2>1, <3>1, Serving DEF Work
    <3>3. /\ line[work[t].item] # NoRow => line[work[t].item].cart = work[t].cart
          /\ \A u \in Sessions : work[u].item = work[t].item => work[u].cart = work[t].cart
      BY <1>1, <2>1, <3>2 DEF FoundLineStays
    <3>4. ASSUME NEW u \in Sessions, work'[u].item = work'[t].item
          PROVE  work'[u].cart = work'[t].cart
      <4>1. u # s
        BY <1>2, <2>1, <3>4, NoWorkTyped
      <4>2. QED
        BY <1>2, <3>2, <3>3, <3>4, <4>1
    <3>5. QED
      BY <3>2, <3>3, <3>4
  <2>2. QED
    BY <2>1 DEF FoundLineStays
<1>9. QED
  BY <1>4, <1>5, <1>6, <1>7, <1>8 DEF IInv

LEMMA InsertItemStep ==
    ASSUME IInv, NEW s \in Sessions, NEW i \in ItemIds, InsertItem(s, i)
    PROVE  /\ IInv'
           /\ \A j \in ItemIds \ {i} : line'[j] = line[j]
           /\ line'[i].cart = work[s].cart /\ line[i] = NoRow
           /\ work[s].cart # NoRow /\ Running(s) /\ pc'[s] = "done"
<1> DEFINE k == work[s].cart
           row == [cart |-> k, product |-> request[s].product,
                   quantity |-> request[s].quantity]
<1>1. /\ pc[s] = "write" /\ Running(s) /\ work[s].item = NoRow
      /\ SessionOK(s) /\ request[s] \in Request /\ work[s] \in Work
  BY Serving DEF InsertItem, Running
<1>2. k \in CartIds /\ k # NoRow /\ request[s].kind = "add"
  BY <1>1 DEF SessionOK, Work
<1>3. row \in LineRow
  BY <1>1, <1>2, RequestFields DEF LineRow
<1>4. line' = [line EXCEPT ![i] = row] /\ line[i] = NoRow /\ Commit(s)
      /\ UNCHANGED <<products, cart, order>>
  BY DEF InsertItem
<1>5. line' \in [ItemIds -> LineRow \cup {NoRow}] /\ line'[i] = row
      /\ \A j \in ItemIds \ {i} : line'[j] = line[j]
  BY <1>3, <1>4 DEF IInv, TypeOK
<1>6. \A t \in Sessions : work[t].item # i
  BY DEF InsertItem
<1>7. row.cart = k
  OBVIOUS
<1>8. IInv'
  <2> HIDE DEF row
  <2>1. QED
    BY <1>2, <1>4, <1>5, <1>6, <1>7, CommitLines
<1>9. pc'[s] = "done"
  BY <1>4, CommitEffect
<1>10. QED
  BY <1>1, <1>2, <1>4, <1>5, <1>7, <1>8, <1>9

LEMMA SaveItemStep ==
    ASSUME IInv, NEW s \in Sessions, SaveItem(s)
    PROVE  /\ IInv'
           /\ \A j \in ItemIds \ {work[s].item} : line'[j] = line[j]
           /\ work[s].item \in ItemIds
           /\ line'[work[s].item].cart = work[s].cart
           /\ line[work[s].item] # NoRow => line[work[s].item].cart = work[s].cart
           /\ work[s].cart # NoRow /\ Running(s) /\ pc'[s] = "done"
<1> DEFINE i == work[s].item
           k == work[s].cart
<1>1. /\ pc[s] = "write" /\ Running(s) /\ i # NoRow
      /\ SessionOK(s) /\ work[s] \in Work
  BY Serving DEF SaveItem, Running
<1>2. k # NoRow /\ work[s].row \in LineRow /\ work[s].row.cart = k /\ i \in ItemIds
  BY <1>1 DEF SessionOK, Work
<1>3. line' = [line EXCEPT ![i] = work[s].row] /\ Commit(s)
      /\ UNCHANGED <<products, cart, order>>
  BY DEF SaveItem
<1>4. line' \in [ItemIds -> LineRow \cup {NoRow}] /\ line'[i] = work[s].row
      /\ \A j \in ItemIds \ {i} : line'[j] = line[j]
  BY <1>2, <1>3 DEF IInv, TypeOK
<1>5. /\ line[i] # NoRow => line[i].cart = k
      /\ \A t \in Sessions : work[t].item = i => work[t].cart = k
  BY <1>1 DEF IInv, FoundLineStays
<1>6. IInv'
  BY <1>2, <1>3, <1>4, <1>5, CommitLines
<1>7. pc'[s] = "done"
  BY <1>3, CommitEffect
<1>8. QED
  BY <1>1, <1>2, <1>4, <1>5, <1>6, <1>7

LEMMA DeleteItemsStep ==
    ASSUME IInv, NEW s \in Sessions, DeleteItems(s)
    PROVE  /\ IInv'
           /\ \/ UNCHANGED line
              \/ /\ work[s].cart # NoRow /\ Running(s) /\ pc'[s] = "done"
                 /\ \A i \in ItemIds : \/ line'[i] = line[i]
                                       \/ line'[i] = NoRow /\ line[i].cart = work[s].cart
<1>1. CASE Refuse(s)
  BY <1>1, RefuseStep DEF Refuse, tables
<1>2. CASE /\ line' = [i \in ItemIds |-> IF i \in Doomed(s) THEN NoRow ELSE line[i]]
           /\ Commit(s)
           /\ UNCHANGED <<products, cart, order>>
  <2>1. pc[s] = "delete" /\ Running(s) /\ SessionOK(s)
    BY Serving DEF DeleteItems, Running
  <2>2. work[s].cart # NoRow
    BY <2>1 DEF SessionOK
  <2>3. line' \in [ItemIds -> LineRow \cup {NoRow}]
    BY <1>2 DEF IInv, TypeOK
  <2>4. \A i \in ItemIds : \/ line'[i] = line[i]
                           \/ line'[i] = NoRow /\ line[i].cart = work[s].cart
    BY <1>2 DEF Doomed, ItemOfCart
  <2>5. IInv'
    BY <1>2, <2>2, <2>3, <2>4, CommitLines
  <2>6. pc'[s] = "done"
    BY <1>2, CommitEffect
  <2>7. QED
    BY <2>1, <2>2, <2>4, <2>5, <2>6
<1>3. QED
  BY <1>1, <1>2 DEF DeleteItems

\* A cart that is made.
LEMMA MakeCartStep ==
    ASSUME IInv, NEW s \in Sessions, NEW k \in CartIds, MakeCart(s, k)
    PROVE  IInv'
<1> DEFINE c == CustomerOf(s)
           row == [customer |-> c, status |-> "ACTIVE"]
           w == IF request[s].kind = "get" THEN NoWork ELSE [work[s] EXCEPT !.cart = k]
           l == IF request[s].kind = "get" THEN "idle" ELSE "item"
           r == IF request[s].kind = "get" THEN NoRow ELSE request[s]
<1>1. /\ pc[s] = "make" /\ Running(s) /\ SessionOK(s) /\ work[s] \in Work
      /\ request[s] \in Request /\ c \in Customers
      /\ ActiveCarts(c) = {} /\ cart[k] = NoRow
      /\ UNCHANGED <<products, line, order>>
  BY Serving DEF MakeCart, Running, MayMakeCart
<1>2. TypeOK /\ OneOrderPerCart /\ CartsExist /\ FoundLineStays
  BY DEF IInv
<1>3. row \in CartRow /\ row # NoRow
  BY <1>1, NoRowAssumption DEF CartRow
<1>4. cart' = [cart EXCEPT ![k] = row]
  BY DEF MakeCart
<1>5. /\ cart' \in [CartIds -> CartRow \cup {NoRow}]
      /\ cart'[k] = row
      /\ \A m \in CartIds \ {k} : cart'[m] = cart[m]
  BY <1>2, <1>3, <1>4 DEF TypeOK
<1>6. w \in Work /\ w.item = NoRow /\ (l = "item" => w.cart = k) /\ (l = "idle" => w = NoWork)
  <2>1. work[s].item = NoRow
    BY <1>1 DEF SessionOK
  <2>2. QED
    BY <1>1, <2>1, NoWorkTyped DEF Work
<1>7. /\ pc' = [pc EXCEPT ![s] = l]
      /\ request' = [request EXCEPT ![s] = r]
      /\ work' = [work EXCEPT ![s] = w]
  BY Serving DEF MakeCart, End
<1>8. /\ pc' \in [Sessions -> Statement]
      /\ request' \in [Sessions -> Request \cup {NoRow}]
      /\ work' \in [Sessions -> Work]
      /\ pc'[s] = l /\ request'[s] = r /\ work'[s] = w
      /\ \A t \in Sessions \ {s} :
             pc'[t] = pc[t] /\ request'[t] = request[t] /\ work'[t] = work[t]
  BY <1>1, <1>6, <1>7, Serving DEF Statement
<1>9. \A t \in Sessions, m \in CartIds : HoldsCart(t, m)' => t # s /\ HoldsCart(t, m)
  BY <1>8 DEF HoldsCart
<1>10. \A d \in Customers, m \in CartIds :
           m \in ActiveCarts(d)' <=> m \in ActiveCarts(d) \/ (m = k /\ d = c)
  BY <1>1, <1>3, <1>5 DEF ActiveCarts
<1>11. TypeOK'
  <2>1. \A d \in Customers : \A m, n \in ActiveCarts(d)' : m = n
    <3>1. \A d \in Customers : ActiveCarts(d)' \subseteq CartIds
      BY DEF ActiveCarts
    <3>2. QED
      BY <1>1, <1>2, <1>10, <3>1 DEF TypeOK
  <2>2. ASSUME NEW t \in Sessions, NEW m \in CartIds, HoldsCart(t, m)'
        PROVE  m \in ActiveCarts(CustomerOf(t))' /\ CartFree(t, m)'
    <3>1. t # s /\ HoldsCart(t, m)
      BY <1>9, <2>2
    <3>2. m \in ActiveCarts(CustomerOf(t)) /\ CartFree(t, m)
      BY <1>2, <3>1 DEF TypeOK
    <3>3. m # k /\ cart'[m] = cart[m] /\ CustomerOf(t)' = CustomerOf(t)
      BY <1>1, <1>5, <1>8, <3>1, <3>2 DEF ActiveCarts, CustomerOf
    <3>4. m \in ActiveCarts(CustomerOf(t))'
      BY <3>2, <3>3 DEF ActiveCarts
    <3>5. QED
      BY <1>9, <3>2, <3>4 DEF CartFree
  <2>3. QED
    BY <1>1, <1>2, <1>5, <1>8, <2>1, <2>2 DEF TypeOK, products
<1>12. OneOrderPerCart' /\ CartsExist'
  <2>1. \A o \in Orders : order[o] # NoRow => order[o].cart \in CartIds /\ order[o].cart # k
    BY <1>1, <1>2 DEF TypeOK, OrderRow, CartsExist
  <2>2. \A i \in ItemIds : line[i] # NoRow => line[i].cart \in CartIds /\ line[i].cart # k
    BY <1>1, <1>2 DEF TypeOK, LineRow, CartsExist
  <2>3. QED
    BY <1>1, <1>2, <1>5, <2>1, <2>2 DEF OneOrderPerCart, CartsExist
<1>13. ASSUME NEW t \in Sessions
       PROVE  SessionOK(t)'
  <2>1. CASE t = s /\ l = "idle"
    BY <1>6, <1>8, <2>1, NoWorkTyped DEF SessionOK, Running
  <2>2. CASE t = s /\ l = "item"
    <3>1. /\ pc'[s] = "item" /\ request'[s] = request[s] /\ work'[s] = w
          /\ w.cart = k /\ w.item = NoRow /\ k # NoRow
      BY <1>6, <1>8, <2>2, NoRowAssumption
    <3>2. cart'[k] # NoRow /\ cart'[k].customer = request[s].customer
      BY <1>3, <1>5 DEF CustomerOf
    <3> HIDE DEF w, l, r
    <3>3. QED
      BY <1>1, <2>2, <3>1, <3>2 DEF SessionOK, Running
  <2>3. CASE t # s
    <3>1. SessionOK(t) /\ work[t] \in Work
      BY Serving
    <3>2. work[t].cart # NoRow => work[t].cart \in CartIds /\ work[t].cart # k
      BY <1>1, <3>1 DEF SessionOK, Work
    <3>3. QED
      BY <1>5, <1>8, <2>3, <3>1, <3>2 DEF SessionOK, Running
  <2>4. QED
    BY <2>1, <2>2, <2>3
<1>14. FoundLineStays'
  <2>1. \A t \in Sessions : work'[t].item # NoRow =>
            t # s /\ work'[t] = work[t]
    BY <1>6, <1>8
  <2>2. QED
    BY <1>1, <1>2, <2>1 DEF FoundLineStays
<1>15. QED
  BY <1>11, <1>12, <1>13, <1>14 DEF IInv

\* A checkout that commits.
LEMMA CommitCheckoutStep ==
    ASSUME IInv, NEW s \in Sessions, NEW o \in Orders, CommitCheckout(s, o)
    PROVE  IInv'
<1> DEFINE k == work[s].cart
           sold == QuantitiesOf(work[s].lines)
           row == [cart |-> k, items |-> sold]
<1>1. /\ pc[s] = "commit" /\ Running(s) /\ SessionOK(s) /\ work[s] \in Work
      /\ Served(work[s].lines) /\ order[o] = NoRow
      /\ order' = [order EXCEPT ![o] = row]
      /\ stock' = [p \in Products |-> stock[p] - sold[p]]
      /\ cart' = [cart EXCEPT ![k].status = "CHECKED_OUT"]
      /\ Commit(s) /\ UNCHANGED <<isActive, line>>
  BY Serving DEF CommitCheckout, Running
<1>2. TypeOK /\ OneOrderPerCart /\ CartsExist /\ FoundLineStays
  BY DEF IInv
<1>3. k # NoRow /\ k \in CartIds
  BY <1>1 DEF SessionOK, Work
<1>4. HoldsCart(s, k)
  BY <1>1 DEF HoldsCart
<1>5. k \in ActiveCarts(CustomerOf(s)) /\ CartFree(s, k)
  BY <1>2, <1>3, <1>4 DEF TypeOK
<1>6. cart[k] # NoRow /\ cart[k].status = "ACTIVE" /\ cart[k] \in CartRow
  BY <1>2, <1>5 DEF ActiveCarts, TypeOK
<1>7. /\ cart' \in [CartIds -> CartRow \cup {NoRow}]
      /\ cart'[k] # NoRow /\ cart'[k].status = "CHECKED_OUT"
      /\ cart'[k].customer = cart[k].customer
      /\ \A m \in CartIds \ {k} : cart'[m] = cart[m]
  <2> DEFINE closed == [cart[k] EXCEPT !.status = "CHECKED_OUT"]
  <2>1. /\ closed \in CartRow /\ closed.status = "CHECKED_OUT"
        /\ closed.customer = cart[k].customer
    BY <1>6 DEF CartRow
  <2>2. cart' = [cart EXCEPT ![k] = closed]
    BY <1>1
  <2>3. cart'[k] = closed /\ \A m \in CartIds \ {k} : cart'[m] = cart[m]
    BY <1>2, <1>3, <2>2 DEF TypeOK
  <2>4. closed # NoRow
    BY <2>1, NoRowAssumption
  <2> HIDE DEF closed
  <2>5. cart' \in [CartIds -> CartRow \cup {NoRow}]
    BY <1>2, <2>1, <2>2 DEF TypeOK
  <2>6. QED
    BY <2>1, <2>3, <2>4, <2>5
<1>8. sold \in Quantities /\ stock' \in [Products -> Nat]
  <2>1. \A p \in Products : sold[p] \in 0 .. stock[p] /\ stock[p] \in Nat
    BY <1>1, <1>2 DEF Served, TypeOK
  <2>2. \A p \in Products : sold[p] \in Nat /\ stock[p] - sold[p] \in Nat
    BY <2>1
  <2>3. sold = [p \in Products |-> sold[p]]
    BY DEF QuantitiesOf
  <2> HIDE DEF sold
  <2>4. QED
    BY <1>1, <2>2, <2>3 DEF Quantities
<1>9. row \in OrderRow
  BY <1>3, <1>8 DEF OrderRow
<1>10. /\ order' \in [Orders -> OrderRow \cup {NoRow}]
       /\ order'[o] = row /\ row.cart = k
       /\ \A q \in Orders \ {o} : order'[q] = order[q]
  BY <1>1, <1>2, <1>9 DEF TypeOK
<1> HIDE DEF row, sold
<1>11. /\ \A t \in Sessions \ {s} : /\ pc'[t] = pc[t] /\ request'[t] = request[t]
                                    /\ work'[t].cart = work[t].cart
                                    /\ work'[t].item = work[t].item
       /\ pc'[s] = "done" /\ work'[s] = NoWork
       /\ pc' \in [Sessions -> Statement]
       /\ request' \in [Sessions -> Request \cup {NoRow}]
       /\ work' \in [Sessions -> Work]
  BY <1>1, CommitEffect
<1>12. \A t \in Sessions, m \in CartIds :
           HoldsCart(t, m)' => t # s /\ HoldsCart(t, m)
  BY <1>11 DEF HoldsCart
<1>13. TypeOK'
  <2>1. \A c \in Customers : ActiveCarts(c)' \subseteq ActiveCarts(c)
    BY <1>7 DEF ActiveCarts
  <2>2. \A c \in Customers : \A m, n \in ActiveCarts(c)' : m = n
    BY <1>2, <2>1 DEF TypeOK
  <2>3. ASSUME NEW t \in Sessions, NEW m \in CartIds, HoldsCart(t, m)'
        PROVE  m \in ActiveCarts(CustomerOf(t))' /\ CartFree(t, m)'
    <3>1. t # s /\ HoldsCart(t, m)
      BY <1>12, <2>3
    <3>2. m \in ActiveCarts(CustomerOf(t)) /\ CartFree(t, m)
      BY <1>2, <3>1 DEF TypeOK
    <3>3. m # k
      BY <1>4, <3>1, <3>2 DEF CartFree
    <3>4. m \in ActiveCarts(CustomerOf(t))'
      BY <1>7, <1>11, <3>1, <3>2, <3>3 DEF ActiveCarts, CustomerOf
    <3>5. QED
      BY <1>12, <3>2, <3>4 DEF CartFree
  <2>4. QED
    BY <1>1, <1>2, <1>7, <1>8, <1>10, <1>11, <2>2, <2>3 DEF TypeOK
<1>14. \A q \in Orders : order[q] # NoRow =>
           /\ order[q].cart \in CartIds
           /\ order[q].cart # k
           /\ cart[order[q].cart].status = "CHECKED_OUT"
  BY <1>2, <1>6 DEF TypeOK, OrderRow, OneOrderPerCart
<1>15. OneOrderPerCart'
  <2>1. ASSUME NEW q \in Orders, order'[q] # NoRow
        PROVE  /\ cart'[order'[q].cart].status = "CHECKED_OUT"
               /\ \A p \in Orders \ {q} : order'[p] # NoRow => order'[p].cart # order'[q].cart
    <3>1. CASE q = o
      BY <1>7, <1>10, <1>14, <3>1
    <3>2. CASE q # o
      <4>1. order'[q] = order[q] /\ order[q] # NoRow
        BY <1>10, <2>1, <3>2
      <4>2. cart'[order[q].cart].status = "CHECKED_OUT"
        BY <1>7, <1>14, <4>1
      <4>3. ASSUME NEW p \in Orders \ {q}, order'[p] # NoRow
            PROVE  order'[p].cart # order'[q].cart
        BY <1>2, <1>10, <1>14, <4>1, <4>3 DEF OneOrderPerCart
      <4>4. QED
        BY <4>1, <4>2, <4>3
    <3>3. QED
      BY <3>1, <3>2
  <2>2. QED
    BY <2>1 DEF OneOrderPerCart
<1>16. CartsExist'
  <2>1. \A m \in CartIds : cart[m] # NoRow => cart'[m] # NoRow
    BY <1>7
  <2>2. \A i \in ItemIds : line'[i] # NoRow => cart'[line'[i].cart] # NoRow
    BY <1>1, <1>2, <2>1 DEF TypeOK, LineRow, CartsExist
  <2>3. \A q \in Orders : order'[q] # NoRow => cart'[order'[q].cart] # NoRow
    BY <1>2, <1>7, <1>10, <1>14, <2>1 DEF CartsExist
  <2>4. QED
    BY <2>2, <2>3 DEF CartsExist
<1>17. \A t \in Sessions : SessionOK(t)'
  <2>1. \A m \in CartIds : cart[m] # NoRow =>
            cart'[m] # NoRow /\ cart'[m].customer = cart[m].customer
    BY <1>7
  <2>2. QED
    BY <1>1, <2>1, CommitSessions
<1>18. FoundLineStays'
  <2>1. \A t \in Sessions : work'[t].item # NoRow => t # s
    BY <1>11, NoWorkTyped
  <2>2. \A t \in Sessions \ {s} : work'[t].item = work[t].item /\ work'[t].cart = work[t].cart
    BY <1>11
  <2>3. line' = line
    BY <1>1
  <2>4. QED
    BY <1>2, <2>1, <2>2, <2>3 DEF FoundLineStays
<1>19. QED
  BY <1>13, <1>15, <1>16, <1>17, <1>18 DEF IInv

\* An administrator changes a product.
LEMMA ManageStep ==
    ASSUME IInv, Manage
    PROVE  IInv' /\ UNCHANGED line
<1>1. UNCHANGED <<cart, line, order, pc, request, work>>
  BY DEF Manage, SetStock, SetActive
<1>2. stock' \in [Products -> Nat] /\ isActive' \in [Products -> BOOLEAN]
  BY BoundsAssumption DEF Manage, SetStock, SetActive, IInv, TypeOK
<1>3. TypeOK'
  BY <1>1, <1>2 DEF IInv, TypeOK, ActiveCarts, HoldsCart, CartFree, CustomerOf
<1>4. QED
  BY <1>1, <1>3 DEF IInv, OneOrderPerCart, CartsExist, SessionOK, Running, FoundLineStays

-----------------------------------------------------------------------------
LEMMA InitIInv == Init => IInv
<1> SUFFICES ASSUME Init PROVE IInv
  OBVIOUS
<1>1. stock \in [Products -> Nat]
  BY BoundsAssumption DEF Init
<1>2. TypeOK
  BY <1>1, NoWorkTyped DEF Init, TypeOK, Statement, ActiveCarts, HoldsCart
<1>3. QED
  BY <1>2, NoWorkTyped
     DEF Init, IInv, OneOrderPerCart, CartsExist, SessionOK, Running, FoundLineStays

\* Every statement keeps the invariant.
LEMMA StepIInv ==
    ASSUME IInv, [Next]_vars
    PROVE  IInv'
<1>1. ASSUME NEW s \in Sessions, Step(s)
      PROVE  IInv'
  <2>1. CASE Refuse(s)
    BY <2>1, RefuseStep
  <2>2. QED
    BY <1>1, <2>1, BeginStep, ReadProductStep, FindCartStep, MakeCartStep, FindNoCartStep,
       FindItemToAddStep, FindItemToUpdateStep, InsertItemStep, SaveItemStep,
       DeleteItemsStep, ReadItemsStep, CommitCheckoutStep
       DEF Step, MakeCartAgain, RefuseCheckout, Fail
<1>2. CASE UNCHANGED vars
  BY <1>2 DEF vars, IInv, TypeOK, ActiveCarts, HoldsCart, CartFree, CustomerOf,
              OneOrderPerCart, CartsExist, SessionOK, Running, FoundLineStays
<1>3. QED
  BY <1>1, <1>2, ManageStep DEF Next

THEOREM CartInvariance == Spec => []IInv
BY InitIInv, StepIInv, PTL DEF Spec

\* No stock is negative, a customer has one ACTIVE cart at most, and a cart a
\* checkout holds stays ACTIVE and is in no other checkout.
THEOREM CartTypeCorrect == Spec => []TypeOK
<1>1. IInv => TypeOK
  BY DEF IInv
<1>2. QED
  BY <1>1, CartInvariance, PTL

\* A cart is in one order at most, and in one only when it is CHECKED_OUT.
THEOREM CartOrderedOnce == Spec => []OneOrderPerCart
<1>1. IInv => OneOrderPerCart
  BY DEF IInv
<1>2. QED
  BY <1>1, CartInvariance, PTL

\* The statements that write no line.
LEMMA LinesKept ==
    ASSUME NEW s \in Sessions, Step(s)
    PROVE  \/ line' = line
           \/ \E i \in ItemIds : InsertItem(s, i)
           \/ SaveItem(s)
           \/ DeleteItems(s)
<1>1. Refuse(s) => line' = line
  BY DEF Refuse, tables
<1>2. \A l : Goto(s, l) => line' = line
  BY DEF Goto, tables
<1>3. (\E r \in Request : Begin(s, r)) => line' = line
  BY DEF Begin, tables
<1>4. ReadProduct(s) => line' = line
  BY <1>1, <1>2 DEF ReadProduct
<1>5. \A k \in CartIds : FindCart(s, k) => line' = line
  BY <1>1, <1>2 DEF FindCart
<1>6. FindNoCart(s) \/ MakeCartAgain(s) \/ ReadItems(s) \/ RefuseCheckout(s) \/ Fail(s)
      => line' = line
  BY <1>1, <1>2 DEF FindNoCart, MakeCartAgain, ReadItems, RefuseCheckout, Fail
<1>7. FindItemToAdd(s) => line' = line
  BY <1>1, <1>2 DEF FindItemToAdd
<1>8. FindItemToUpdate(s) => line' = line
  BY <1>1, <1>2 DEF FindItemToUpdate
<1>9. /\ \A k \in CartIds : MakeCart(s, k) => line' = line
      /\ \A o \in Orders : CommitCheckout(s, o) => line' = line
  BY DEF MakeCart, CommitCheckout
<1>10. QED
  BY <1>3, <1>4, <1>5, <1>6, <1>7, <1>8, <1>9 DEF Step

\* The lines a step writes are of carts of the customer it serves.
LEMMA LinesOfTheCustomer ==
    ASSUME IInv, [Next]_vars, NEW i \in ItemIds, line'[i] # line[i]
    PROVE  \E s \in Sessions :
               /\ Running(s) /\ pc'[s] = "done"
               /\ \A row \in {line[i], line'[i]} \ {NoRow} :
                     cart[row.cart].customer = CustomerOf(s)
<1>1. PICK s \in Sessions : Step(s)
  BY ManageStep DEF Next, vars
<1>2. /\ Running(s) /\ pc'[s] = "done" /\ work[s].cart # NoRow
      /\ \A row \in {line[i], line'[i]} \ {NoRow} : row.cart = work[s].cart
  <2>1. ASSUME NEW j \in ItemIds, InsertItem(s, j)
        PROVE  /\ Running(s) /\ pc'[s] = "done" /\ work[s].cart # NoRow
               /\ \A row \in {line[i], line'[i]} \ {NoRow} : row.cart = work[s].cart
    BY <2>1, InsertItemStep
  <2>2. CASE SaveItem(s)
    BY <2>2, SaveItemStep
  <2>3. CASE DeleteItems(s)
    BY <2>3, DeleteItemsStep
  <2>4. QED
    BY <1>1, <2>1, <2>2, <2>3, LinesKept
<1>3. cart[work[s].cart].customer = CustomerOf(s)
  BY <1>2, Serving DEF SessionOK, CustomerOf
<1>4. QED
  BY <1>2, <1>3

\* No request writes a line of another customer, whatever line it names and
\* whatever overtakes it.
THEOREM CartOthersUntouched == Spec => OthersUntouched
<1>1. IInv /\ [Next]_vars =>
          [\A i \in ItemIds :
              line'[i] # line[i] =>
                  \E s \in Sessions :
                      /\ Running(s) /\ pc'[s] = "done"
                      /\ \A row \in {line[i], line'[i]} \ {NoRow} :
                            cart[row.cart].customer = CustomerOf(s)]_vars
  BY LinesOfTheCustomer
<1>2. QED
  BY <1>1, CartInvariance, PTL DEF Spec, OthersUntouched

-----------------------------------------------------------------------------
(***************************************************************************)
(* What lines ask for.  The pieces of one line are as many as its          *)
(* quantity, and lines have no piece in common: writing one line changes   *)
(* what all of them ask for by what it asked before and asks now.          *)
(***************************************************************************)

LEMMA LeastNumber ==
    ASSUME NEW S \in SUBSET Nat, S # {}
    PROVE  \E x \in S : \A y \in S : x <= y
<1>1. PICK x \in S : \A y \in S : ~ (<<y, x>> \in OpToRel(<, Nat))
  BY WFMin, NatLessThanWellFounded, Zenon
<1>2. \A y \in S : ~(y < x)
  BY <1>1, Zenon DEF OpToRel
<1>3. QED
  BY <1>2

LEMMA DisjointUnion ==
    ASSUME NEW S, NEW T, IsFiniteSet(S), IsFiniteSet(T), S \cap T = {}
    PROVE  /\ IsFiniteSet(S \cup T) /\ Cardinality(S) \in Nat /\ Cardinality(T) \in Nat
           /\ Cardinality(S \cup T) = Cardinality(S) + Cardinality(T)
<1>1. Cardinality(S) \in Nat /\ Cardinality(T) \in Nat
  BY FS_CardinalityType
<1>2. /\ IsFiniteSet(S \cup T)
      /\ Cardinality(S \cup T) = Cardinality(S) + Cardinality(T) - Cardinality(S \cap T)
  BY FS_Union
<1>3. Cardinality(S \cap T) = 0
  BY FS_EmptySet
<1>4. QED
  BY <1>1, <1>2, <1>3

\* What a row at identifier i asks of product p, and its pieces.
Asked(row, p) == IF row # NoRow /\ row.product = p THEN row.quantity ELSE 0
Block(row, i, p) == IF row # NoRow /\ row.product = p THEN {i} \X (1 .. row.quantity) ELSE {}

LEMMA BlockSize ==
    ASSUME NEW row \in LineRow \cup {NoRow}, NEW i, NEW p
    PROVE  /\ IsFiniteSet(Block(row, i, p))
           /\ Cardinality(Block(row, i, p)) = Asked(row, p)
           /\ Asked(row, p) \in Nat
           /\ \A x \in Block(row, i, p) : x[1] = i
<1>1. CASE row # NoRow /\ row.product = p
  <2>1. row.quantity \in Nat \ {0}
    BY <1>1 DEF LineRow
  <2>2. IsFiniteSet({i}) /\ Cardinality({i}) = 1
    BY FS_Singleton
  <2>3. IsFiniteSet(1 .. row.quantity) /\ Cardinality(1 .. row.quantity) = row.quantity
    BY <2>1, FS_Interval
  <2>4. /\ IsFiniteSet({i} \X (1 .. row.quantity))
        /\ Cardinality({i} \X (1 .. row.quantity)) = 1 * row.quantity
    BY <2>2, <2>3, FS_Product
  <2>5. \A x \in {i} \X (1 .. row.quantity) : x[1] = i
    OBVIOUS
  <2>6. 1 * row.quantity = row.quantity
    BY <2>1
  <2>7. QED
    BY <1>1, <2>1, <2>4, <2>5, <2>6 DEF Block, Asked
<1>2. CASE ~(row # NoRow /\ row.product = p)
  BY <1>2, FS_EmptySet DEF Block, Asked
<1>3. QED
  BY <1>1, <1>2

\* The pieces of lines are those of each line.
LEMMA PieceOfLine ==
    ASSUME NEW lines, NEW p, NEW x
    PROVE  x \in Pieces(lines, p) <=> \E i \in ItemIds : x \in Block(lines[i], i, p)
BY DEF Pieces, Block

LEMMA OneLineChanges ==
    ASSUME NEW lines \in Lines, NEW others \in Lines, NEW i \in ItemIds, NEW p,
           \A j \in ItemIds \ {i} : others[j] = lines[j],
           IsFiniteSet(Pieces(lines, p))
    PROVE  /\ IsFiniteSet(Pieces(others, p))
           /\ Cardinality(Pieces(lines, p)) \in Nat
           /\ Cardinality(Pieces(others, p)) \in Nat
           /\ Cardinality(Pieces(others, p)) =
                  Cardinality(Pieces(lines, p)) - Asked(lines[i], p) + Asked(others[i], p)
<1> DEFINE Old  == Block(lines[i], i, p)
           New  == Block(others[i], i, p)
           Rest == Pieces(lines, p) \ Old
<1>1. /\ IsFiniteSet(Old) /\ Cardinality(Old) = Asked(lines[i], p) /\ Asked(lines[i], p) \in Nat
      /\ IsFiniteSet(New) /\ Cardinality(New) = Asked(others[i], p) /\ Asked(others[i], p) \in Nat
  BY BlockSize DEF Lines
<1>2. \A j \in ItemIds \ {i} : \A x \in Block(lines[j], j, p) : x \notin Old /\ x \notin New
  BY BlockSize DEF Lines
<1>3. Pieces(lines, p) = Rest \cup Old
  BY PieceOfLine
<1>4. Pieces(others, p) = Rest \cup New
  <2>1. ASSUME NEW x PROVE x \in Pieces(others, p) <=> x \in Rest \cup New
    <3>1. x \in Pieces(others, p) <=>
              x \in New \/ \E j \in ItemIds \ {i} : x \in Block(lines[j], j, p)
      BY PieceOfLine
    <3>2. x \in Rest <=> \E j \in ItemIds \ {i} : x \in Block(lines[j], j, p)
      BY <1>2, PieceOfLine
    <3> HIDE DEF Rest, New
    <3>3. QED
      BY <3>1, <3>2
  <2>2. QED
    BY <2>1
<1>5. Rest \cap Old = {} /\ Rest \cap New = {}
  BY <1>2, PieceOfLine
<1>6. IsFiniteSet(Rest)
  BY FS_Difference
<1> HIDE DEF Old, New, Rest
<1>7. /\ IsFiniteSet(Rest \cup New) /\ Cardinality(Rest) \in Nat
      /\ Cardinality(Rest \cup New) = Cardinality(Rest) + Cardinality(New)
  BY <1>1, <1>5, <1>6, DisjointUnion
<1>8. Cardinality(Rest \cup Old) = Cardinality(Rest) + Cardinality(Old)
  BY <1>1, <1>5, <1>6, DisjointUnion
<1>9. QED
  BY <1>1, <1>3, <1>4, <1>7, <1>8

\* No lines ask for nothing, and lines that are lines of others for no more.
LEMMA NoPieces ==
    ASSUME NEW p
    PROVE  Pieces(NoLines, p) = {}
BY DEF Pieces, NoLines

LEMMA FewerPieces ==
    ASSUME NEW lines, NEW others, NEW p, IsFiniteSet(Pieces(lines, p)),
           \A i \in ItemIds : others[i] = lines[i] \/ others[i] = NoRow
    PROVE  IsFiniteSet(Pieces(others, p)) /\ Cardinality(Pieces(others, p)) \in Nat
<1>1. Pieces(others, p) \in SUBSET Pieces(lines, p)
  BY DEF Pieces
<1>2. IsFiniteSet(Pieces(others, p))
  BY <1>1, FS_Subset
<1>3. QED
  BY <1>2, FS_CardinalityType

\* A product that one line names is asked for as often as this line says.
LEMMA OneLineAsks ==
    ASSUME NEW lines \in Lines, NEW i \in ItemIds, NEW p,
           lines[i] # NoRow, lines[i].product = p,
           \A j \in ItemIds \ {i} : ~(lines[j] # NoRow /\ lines[j].product = p)
    PROVE  Cardinality(Pieces(lines, p)) = lines[i].quantity
<1>1. \A x : x \in Pieces(lines, p) <=> x \in Block(lines[i], i, p)
  BY PieceOfLine DEF Block
<1>2. Pieces(lines, p) = Block(lines[i], i, p)
  BY <1>1
<1>3. QED
  BY <1>2, BlockSize DEF Lines, Asked

-----------------------------------------------------------------------------
(***************************************************************************)
(* What a session has read holds until it is overtaken.                    *)
(***************************************************************************)

\* Each statement serves the requests it is of.
KindOK(l, r, w) ==
    /\ l \in {"item", "write"} => r.kind \in {"add", "update"}
    /\ l = "make" => r.kind \in {"add", "get"}
    /\ l = "delete" => r.kind \in {"remove", "clear"}
    /\ l \in {"items", "commit"} => r.kind = "checkout"
    /\ l = "commit" => w.lines # NoLines

LEMMA EffectInvParts ==
    EffectInv <=> /\ \A p \in Products : IsFiniteSet(Pieces(line, p))
                  /\ \A s \in Sessions : /\ KindOK(pc[s], request[s], work[s])
                                         /\ Running(s) /\ ~work[s].overtaken => ReadsHold(s)
BY DEF EffectInv, KindOK

LEMMA InitEffect == Init => EffectInv
<1>1. SUFFICES ASSUME Init PROVE EffectInv
  OBVIOUS
<1>2. line = NoLines /\ \A s \in Sessions : pc[s] = "idle"
  BY <1>1 DEF Init, NoLines
<1>3. \A p \in Products : IsFiniteSet(Pieces(line, p))
  BY <1>2, NoPieces, FS_EmptySet
<1>4. QED
  BY <1>2, <1>3 DEF EffectInv, Running

\* A session goes on, or ends without effect.
LEMMA EffectSession ==
    ASSUME IInv, EffectInv, NEW s \in Sessions, UNCHANGED <<cart, line>>,
           NEW l \in Statement, NEW r \in Request \cup {NoRow}, NEW w \in Work,
           pc' = [pc EXCEPT ![s] = l],
           request' = [request EXCEPT ![s] = r],
           work' = [work EXCEPT ![s] = w],
           KindOK(l, r, w),
           l \notin {"idle", "done"} /\ ~w.overtaken => ReadsHold(s)'
    PROVE  EffectInv'
<1>1. /\ pc'[s] = l /\ request'[s] = r /\ work'[s] = w
      /\ \A t \in Sessions \ {s} :
             pc'[t] = pc[t] /\ request'[t] = request[t] /\ work'[t] = work[t]
  BY Serving
<1>2. /\ \A p \in Products : IsFiniteSet(Pieces(line, p))
      /\ \A t \in Sessions : /\ KindOK(pc[t], request[t], work[t])
                             /\ Running(t) /\ ~work[t].overtaken => ReadsHold(t)
  BY EffectInvParts
<1>3. \A p \in Products : IsFiniteSet(Pieces(line, p))'
  BY <1>2
<1>4. ASSUME NEW t \in Sessions
      PROVE  /\ KindOK(pc[t], request[t], work[t])'
             /\ Running(t)' /\ ~(work'[t].overtaken) => ReadsHold(t)'
  <2>1. CASE t = s
    BY <1>1, <2>1 DEF Running, KindOK
  <2>2. CASE t # s
    <3>1. KindOK(pc[t], request[t], work[t])'
      BY <1>1, <1>2, <2>2 DEF KindOK
    <3>2. Running(t)' /\ ~(work'[t].overtaken) => ReadsHold(t)'
      BY <1>1, <1>2, <2>2 DEF Running, ReadsHold, LinesOf, LinesIn, ItemOfCart
    <3>3. QED
      BY <3>1, <3>2
  <2>3. QED
    BY <2>1, <2>2
<1>5. QED
  BY <1>3, <1>4 DEF EffectInv, KindOK

LEMMA EffectRefuse ==
    ASSUME IInv, EffectInv, NEW s \in Sessions, Refuse(s)
    PROVE  EffectInv'
<1>1. KindOK("idle", NoRow, NoWork)
  BY DEF KindOK
<1>2. QED
  BY <1>1, NoWorkTyped, EffectSession DEF Refuse, End, tables, Statement

LEMMA EffectBegin ==
    ASSUME IInv, EffectInv, NEW s \in Sessions, NEW r \in Request, Begin(s, r)
    PROVE  EffectInv'
<1> DEFINE l == IF r.kind = "add" THEN "product" ELSE "cart"
<1>1. work[s] = NoWork
  BY Serving DEF Begin, SessionOK
<1>2. /\ pc' = [pc EXCEPT ![s] = l]
      /\ request' = [request EXCEPT ![s] = r]
      /\ work' = [work EXCEPT ![s] = NoWork]
      /\ UNCHANGED <<cart, line>>
  BY <1>1, Serving DEF Begin, tables
<1>3. l \in Statement /\ l \in {"product", "cart"}
  BY DEF Statement
<1> HIDE DEF l
<1>4. KindOK(l, r, NoWork)
  BY <1>3 DEF KindOK
<1>5. pc'[s] = l /\ work'[s] = NoWork
  BY <1>2, Serving
<1>6. ReadsHold(s)'
  BY <1>3, <1>5, NoWorkTyped DEF ReadsHold
<1>7. QED
  BY <1>2, <1>3, <1>4, <1>6, NoWorkTyped, EffectSession

\* A running session goes on with the next statement and its request.
LEMMA EffectGoto ==
    ASSUME IInv, EffectInv, NEW s \in Sessions, NEW l \in Statement, Goto(s, l),
           NEW w \in Work, work' = [work EXCEPT ![s] = w],
           KindOK(l, request[s], w),
           ~w.overtaken =>
               /\ w.cart # NoRow => cart[w.cart].status = "ACTIVE"
               /\ l = "product" /\ w.item # NoRow =>
                     w.item = request[s].item /\ line[w.item] # NoRow /\ w.row = line[w.item]
               /\ l = "write" /\ w.item = NoRow => LinesOf(w.cart, request[s].product) = {}
               /\ l = "write" /\ w.item # NoRow =>
                     /\ line[w.item] # NoRow
                     /\ \/ /\ request[s].kind = "add"
                           /\ line[w.item].product = request[s].product
                           /\ w.row = [line[w.item] EXCEPT !.quantity = @ + request[s].quantity]
                        \/ /\ request[s].kind = "update" /\ w.item = request[s].item
                           /\ w.row = [line[w.item] EXCEPT !.quantity = request[s].quantity]
               /\ l = "commit" => w.lines = LinesIn(w.cart)
    PROVE  EffectInv'
<1> DEFINE r == request[s]
<1>1. /\ pc' = [pc EXCEPT ![s] = l]
      /\ request' = [request EXCEPT ![s] = r]
      /\ UNCHANGED <<cart, line>> /\ r \in Request \cup {NoRow}
  BY Serving DEF Goto, tables
<1>2. pc'[s] = l /\ request'[s] = r /\ work'[s] = w
  BY <1>1, Serving
<1>3. ~w.overtaken => ReadsHold(s)'
  BY <1>1, <1>2 DEF ReadsHold, LinesOf, LinesIn, ItemOfCart
<1>4. QED
  BY <1>1, <1>3, EffectSession

LEMMA EffectReadProduct ==
    ASSUME IInv, EffectInv, NEW s \in Sessions, ReadProduct(s)
    PROVE  EffectInv'
<1> DEFINE r == request[s]
           w == work[s]
           p == IF r.kind = "add" THEN r.product ELSE w.row.product
<1>1. pc[s] = "product" /\ Running(s) /\ r \in Request /\ w \in Work /\ SessionOK(s)
  BY Serving DEF ReadProduct, Running
<1>2. IF w.item = NoRow THEN r.kind = "add" ELSE r.kind = "update"
  BY <1>1 DEF SessionOK
<1>3. ~w.overtaken => ReadsHold(s)
  BY <1>1 DEF EffectInv
<1>4. CASE Refuse(s)
  BY <1>4, EffectRefuse
<1>5. CASE r.kind = "add" /\ Goto(s, "cart") /\ work' = [work EXCEPT ![s].stock = stock[p]]
  <2> DEFINE v == [w EXCEPT !.stock = stock[p]]
  <2>1. stock[p] \in Nat
    BY <1>1, <1>5, RequestFields DEF IInv, TypeOK
  <2>2. /\ v \in Work /\ v.cart = w.cart /\ v.overtaken = w.overtaken
        /\ work' = [work EXCEPT ![s] = v]
    BY <1>1, <1>5, <2>1, Serving DEF Work
  <2>3. KindOK("cart", r, v) /\ "cart" \in Statement /\ Goto(s, "cart")
    BY <1>5 DEF KindOK, Statement
  <2>4. ~v.overtaken => (v.cart # NoRow => cart[v.cart].status = "ACTIVE")
    BY <1>3, <2>2 DEF ReadsHold
  <2> HIDE DEF v, w, p
  <2>5. QED
    BY <2>2, <2>3, <2>4, EffectGoto
<1>6. CASE /\ r.kind = "update" /\ Goto(s, "write")
           /\ work' = [work EXCEPT ![s].row.quantity = r.quantity]
  <2> DEFINE row == [w.row EXCEPT !.quantity = r.quantity]
             v   == [w EXCEPT !.row = row]
  <2>1. w.item # NoRow /\ w.row \in LineRow
    BY <1>1, <1>2, <1>6 DEF SessionOK
  <2>2. row \in LineRow
    BY <1>1, <1>6, <2>1, RequestFields DEF LineRow
  <2>3. /\ v \in Work /\ v.cart = w.cart /\ v.item = w.item /\ v.row = row
        /\ v.overtaken = w.overtaken
        /\ work' = [work EXCEPT ![s] = v]
    BY <1>1, <1>6, <2>2, Serving DEF Work
  <2>4. KindOK("write", r, v) /\ "write" \in Statement /\ Goto(s, "write")
    BY <1>6 DEF KindOK, Statement
  <2>5. ~w.overtaken => /\ w.cart # NoRow => cart[w.cart].status = "ACTIVE"
                        /\ w.item = r.item /\ line[w.item] # NoRow
                        /\ row = [line[w.item] EXCEPT !.quantity = r.quantity]
    BY <1>1, <1>3, <2>1 DEF ReadsHold
  <2> HIDE DEF v, w, p, row
  <2>6. QED
    BY <1>6, <2>1, <2>3, <2>4, <2>5, EffectGoto
<1>7. QED
  BY <1>2, <1>4, <1>5, <1>6 DEF ReadProduct

LEMMA EffectFindCart ==
    ASSUME IInv, EffectInv, NEW s \in Sessions, NEW k \in CartIds, FindCart(s, k)
    PROVE  EffectInv'
<1> DEFINE r == request[s]
           w == work[s]
           v == [w EXCEPT !.cart = k]
           l == CASE r.kind \in {"add", "update"}   -> "item"
                  [] r.kind \in {"remove", "clear"} -> "delete"
                  [] r.kind = "checkout"            -> "items"
<1>1. pc[s] = "cart" /\ Running(s) /\ r \in Request /\ w \in Work
  BY Serving DEF FindCart, Running
<1>2. CASE Refuse(s)
  BY <1>2, EffectRefuse
<1>3. CASE r.kind # "get" /\ Goto(s, l) /\ work' = [work EXCEPT ![s].cart = k]
  <2>1. r.kind \in {"add", "update", "remove", "clear", "checkout"}
    BY <1>1, <1>3, RequestFields
  <2>2. l \in {"item", "delete", "items"} /\ KindOK(l, r, v)
    BY <2>1 DEF KindOK
  <2>3. v \in Work /\ v.cart = k /\ work' = [work EXCEPT ![s] = v]
    BY <1>1, <1>3, Serving DEF Work
  <2>4. cart[k].status = "ACTIVE"
    BY DEF FindCart, ActiveCarts
  <2>5. l \in Statement /\ Goto(s, l)
    BY <1>3, <2>2 DEF Statement
  <2> HIDE DEF v, l
  <2>6. QED
    BY <2>2, <2>3, <2>4, <2>5, EffectGoto
<1>4. QED
  BY <1>2, <1>3 DEF FindCart

LEMMA EffectFindNoCart ==
    ASSUME IInv, EffectInv, NEW s \in Sessions, FindNoCart(s)
    PROVE  EffectInv'
<1> DEFINE w == work[s]
<1>1. pc[s] = "cart" /\ Running(s) /\ w \in Work
  BY Serving DEF FindNoCart, Running
<1>2. CASE Refuse(s)
  BY <1>2, EffectRefuse
<1>3. CASE request[s].kind \in {"add", "get"} /\ Goto(s, "make") /\ UNCHANGED work
  <2>1. work' = [work EXCEPT ![s] = w] /\ Goto(s, "make")
    BY <1>3, Serving
  <2>2. "make" \in Statement /\ KindOK("make", request[s], w)
    BY <1>3 DEF Statement, KindOK
  <2>3. ~w.overtaken => (w.cart # NoRow => cart[w.cart].status = "ACTIVE")
    BY <1>1 DEF EffectInv, ReadsHold
  <2> HIDE DEF w
  <2>4. QED
    BY <1>1, <2>1, <2>2, <2>3, EffectGoto
<1>4. QED
  BY <1>2, <1>3 DEF FindNoCart

\* AddItem finds a line of the product if there is one.
LEMMA FirstLineFound ==
    ASSUME NEW k, NEW p, FirstLine(k, p) = {}
    PROVE  LinesOf(k, p) = {}
<1>1. LinesOf(k, p) \in SUBSET Nat
  BY ItemIdsAssumption DEF LinesOf
<1>2. LinesOf(k, p) # {} => \E i \in LinesOf(k, p) : \A j \in LinesOf(k, p) : i <= j
  BY <1>1, LeastNumber
<1>3. QED
  BY <1>2 DEF FirstLine

LEMMA EffectFindItemToAdd ==
    ASSUME IInv, EffectInv, NEW s \in Sessions, FindItemToAdd(s)
    PROVE  EffectInv'
<1> DEFINE w == work[s]
           r == request[s]
<1>1. /\ pc[s] = "item" /\ Running(s) /\ w \in Work /\ SessionOK(s)
      /\ r \in Request /\ r.kind = "add"
  BY Serving DEF FindItemToAdd, Running
<1>2. w.item = NoRow
  BY <1>1 DEF SessionOK
<1>3. \A u : "write" \in Statement /\ KindOK("write", r, u)
  BY <1>1 DEF Statement, KindOK
<1>4. ~w.overtaken => (w.cart # NoRow => cart[w.cart].status = "ACTIVE")
  BY <1>1 DEF EffectInv, ReadsHold
<1>5. CASE FirstLine(w.cart, r.product) = {} /\ Goto(s, "write") /\ UNCHANGED work
  <2>1. work' = [work EXCEPT ![s] = w] /\ Goto(s, "write")
    BY <1>5, Serving
  <2>2. LinesOf(w.cart, r.product) = {}
    BY <1>5, FirstLineFound
  <2> HIDE DEF w
  <2>3. QED
    BY <1>1, <1>2, <1>3, <1>4, <2>1, <2>2, EffectGoto
<1>6. ASSUME NEW i \in FirstLine(w.cart, r.product), NEW row,
             row = [line[i] EXCEPT !.quantity = NewQuantity(line[i], r.quantity)],
             Goto(s, "write"), work' = [work EXCEPT ![s].item = i, ![s].row = row]
      PROVE  EffectInv'
  <2> DEFINE v == [w EXCEPT !.item = i, !.row = row]
  <2>1. i \in ItemIds /\ line[i] \in LineRow /\ line[i] # NoRow /\ line[i].product = r.product
    BY DEF FirstLine, LinesOf, ItemOfCart, IInv, TypeOK
  <2>2. r.quantity \in Nat \ {0} /\ line[i].quantity \in Nat
    BY <1>1, <2>1, RequestFields DEF LineRow
  <2>3. row = [line[i] EXCEPT !.quantity = @ + r.quantity] /\ row \in LineRow
    BY <1>6, <2>1, <2>2 DEF NewQuantity, LineRow
  <2>4. i # NoRow
    BY <2>1, NoRowAssumption
  <2>5. /\ v \in Work /\ v.cart = w.cart /\ v.item = i /\ v.row = row
        /\ v.overtaken = w.overtaken
        /\ work' = [work EXCEPT ![s] = v]
    BY <1>1, <1>6, <2>1, <2>3, Serving DEF Work
  <2>6. Goto(s, "write")
    BY <1>6
  <2> HIDE DEF v, w
  <2>7. QED
    BY <1>1, <1>3, <1>4, <2>1, <2>3, <2>4, <2>5, <2>6, EffectGoto
<1>7. CASE Refuse(s)
  BY <1>7, EffectRefuse
<1>8. QED
  BY <1>5, <1>6, <1>7 DEF FindItemToAdd

LEMMA EffectFindItemToUpdate ==
    ASSUME IInv, EffectInv, NEW s \in Sessions, FindItemToUpdate(s)
    PROVE  EffectInv'
<1> DEFINE w == work[s]
           i == request[s].item
           v == [w EXCEPT !.item = i, !.row = line[i]]
<1>1. /\ pc[s] = "item" /\ Running(s) /\ w \in Work
      /\ request[s] \in Request /\ request[s].kind = "update"
  BY Serving DEF FindItemToUpdate, Running
<1>2. CASE Refuse(s)
  BY <1>2, EffectRefuse
<1>3. CASE /\ ItemOfCart(i, w.cart)
           /\ Goto(s, "product")
           /\ work' = [work EXCEPT ![s].item = i, ![s].row = line[i]]
  <2>1. i \in ItemIds /\ line[i] # NoRow /\ line[i] \in LineRow
    BY <1>1, <1>3, RequestFields DEF ItemOfCart, IInv, TypeOK
  <2>2. /\ v \in Work /\ v.cart = w.cart /\ v.item = i /\ v.row = line[i]
        /\ v.overtaken = w.overtaken
        /\ work' = [work EXCEPT ![s] = v]
    BY <1>1, <1>3, <2>1, Serving DEF Work
  <2>3. "product" \in Statement /\ Goto(s, "product") /\ KindOK("product", request[s], v)
    BY <1>3 DEF Statement, KindOK
  <2>4. ~w.overtaken => (w.cart # NoRow => cart[w.cart].status = "ACTIVE")
    BY <1>1 DEF EffectInv, ReadsHold
  <2> HIDE DEF v, w
  <2>5. QED
    BY <2>1, <2>2, <2>3, <2>4, EffectGoto
<1>4. QED
  BY <1>2, <1>3 DEF FindItemToUpdate

LEMMA EffectReadItems ==
    ASSUME IInv, EffectInv, NEW s \in Sessions, ReadItems(s)
    PROVE  EffectInv'
<1> DEFINE w == work[s]
           v == [w EXCEPT !.lines = LinesIn(w.cart)]
<1>1. pc[s] = "items" /\ Running(s) /\ w \in Work
  BY Serving DEF ReadItems, Running
<1>2. CASE Refuse(s)
  BY <1>2, EffectRefuse
<1>3. CASE /\ LinesIn(w.cart) # NoLines /\ Goto(s, "commit")
           /\ work' = [work EXCEPT ![s].lines = LinesIn(w.cart)]
  <2>1. LinesIn(w.cart) \in Lines
    BY DEF LinesIn, Lines, ItemOfCart, IInv, TypeOK
  <2>2. /\ v \in Work /\ v.cart = w.cart /\ v.lines = LinesIn(w.cart)
        /\ v.overtaken = w.overtaken
        /\ work' = [work EXCEPT ![s] = v]
    BY <1>1, <1>3, <2>1, Serving DEF Work
  <2>3. request[s].kind = "checkout"
    BY <1>1 DEF EffectInv
  <2>4. "commit" \in Statement /\ Goto(s, "commit") /\ KindOK("commit", request[s], v)
    BY <1>3, <2>2, <2>3 DEF Statement, KindOK
  <2>5. ~w.overtaken => (w.cart # NoRow => cart[w.cart].status = "ACTIVE")
    BY <1>1 DEF EffectInv, ReadsHold
  <2> HIDE DEF v, w
  <2>6. QED
    BY <2>2, <2>4, <2>5, EffectGoto
<1>4. QED
  BY <1>2, <1>3 DEF ReadItems

\* A cart that is made is no cart that another session has found.
LEMMA EffectMakeCart ==
    ASSUME IInv, EffectInv, NEW s \in Sessions, NEW k \in CartIds, MakeCart(s, k)
    PROVE  EffectInv'
<1> DEFINE w == IF request[s].kind = "get" THEN NoWork ELSE [work[s] EXCEPT !.cart = k]
           l == IF request[s].kind = "get" THEN "idle" ELSE "item"
           r == IF request[s].kind = "get" THEN NoRow ELSE request[s]
<1>1. /\ pc[s] = "make" /\ Running(s) /\ work[s] \in Work
      /\ cart[k] = NoRow /\ line' = line
      /\ cart' = [cart EXCEPT ![k] = [customer |-> CustomerOf(s), status |-> "ACTIVE"]]
      /\ cart \in [CartIds -> CartRow \cup {NoRow}]
  BY Serving DEF MakeCart, Running, IInv, TypeOK
<1>2. request[s].kind \in {"add", "get"}
  BY <1>1 DEF EffectInv
<1>3. /\ pc' = [pc EXCEPT ![s] = l]
      /\ request' = [request EXCEPT ![s] = r]
      /\ work' = [work EXCEPT ![s] = w]
  BY Serving DEF MakeCart, End
<1>4. /\ pc'[s] = l /\ request'[s] = r /\ work'[s] = w
      /\ \A t \in Sessions \ {s} :
             pc'[t] = pc[t] /\ request'[t] = request[t] /\ work'[t] = work[t]
  BY <1>3, Serving
<1>5. KindOK(l, r, w) /\ (l = "item" => w.cart = k)
  BY <1>1, <1>2 DEF KindOK, Work
<1>6. l \in {"idle", "item"}
  OBVIOUS
<1> HIDE DEF l, r, w
<1>7. cart'[k].status = "ACTIVE" /\ \A m \in CartIds \ {k} : cart'[m] = cart[m]
  BY <1>1
<1>8. ASSUME NEW t \in Sessions
      PROVE  /\ KindOK(pc[t], request[t], work[t])'
             /\ Running(t)' /\ ~(work'[t].overtaken) => ReadsHold(t)'
  <2>1. CASE t = s
    BY <1>4, <1>5, <1>6, <1>7, <2>1 DEF Running, KindOK, ReadsHold
  <2>2. CASE t # s
    <3>1. KindOK(pc[t], request[t], work[t])
      BY EffectInvParts
    <3>2. work[t].cart # NoRow => work[t].cart \in CartIds \ {k}
      BY <1>1, Serving DEF SessionOK, Work
    <3>3. Running(t) /\ ~work[t].overtaken => ReadsHold(t)
      BY DEF EffectInv
    <3>4. Running(t)' /\ ~(work'[t].overtaken) => ReadsHold(t)'
      BY <1>1, <1>4, <1>7, <2>2, <3>2, <3>3
         DEF Running, ReadsHold, LinesOf, LinesIn, ItemOfCart
    <3>5. QED
      BY <1>4, <2>2, <3>1, <3>4 DEF KindOK
  <2>3. QED
    BY <2>1, <2>2
<1>9. (\A p \in Products : IsFiniteSet(Pieces(line, p)))'
  BY <1>1 DEF EffectInv
<1>10. QED
  BY <1>8, <1>9 DEF EffectInv, KindOK

\* What the transaction of s writes is of the cart that s has found; the cart
\* itself only a checkout writes.
Writes(s) ==
    /\ Running(s) /\ Commit(s)
    /\ work[s].cart \in CartIds
    /\ line' \in Lines
    /\ \A i \in ItemIds :
          line'[i] = line[i] \/ \A row \in {line[i], line'[i]} \ {NoRow} : row.cart = work[s].cart
    /\ \A k \in CartIds \ {work[s].cart} : cart'[k] = cart[k]
    /\ request[s].kind = "checkout" \/ cart' = cart
    /\ \A p \in Products : IsFiniteSet(Pieces(line', p))

LEMMA EffectCommit ==
    ASSUME IInv, EffectInv, NEW s \in Sessions, Writes(s)
    PROVE  EffectInv'
<1>1. pc'[s] = "done" /\ work'[s] = NoWork
  BY CommitEffect DEF Writes
<1>2. ASSUME NEW t \in Sessions
      PROVE  /\ KindOK(pc[t], request[t], work[t])'
             /\ Running(t)' /\ ~(work'[t].overtaken) => ReadsHold(t)'
  <2>1. CASE t = s
    BY <1>1, <2>1 DEF Running, KindOK
  <2>2. CASE t # s
    <3>1. /\ pc'[t] = pc[t] /\ request'[t] = request[t]
          /\ work'[t].cart = work[t].cart
          /\ work'[t].item = work[t].item
          /\ work'[t].row = work[t].row
      BY <2>2, CommitEffect DEF Writes
    <3>2. /\ work'[t].lines = work[t].lines
          /\ work'[t].overtaken = (work[t].overtaken \/ OvertakenBy(s, t))
      <4>1. work[t] \in Work
        BY Serving
      <4>2. work'[t] = [work[t] EXCEPT !.overtaken = @ \/ OvertakenBy(s, t)]
        BY <2>2 DEF Writes, Commit
      <4>3. QED
        BY <4>1, <4>2 DEF Work
    <3>3. KindOK(pc[t], request[t], work[t])'
      <4>1. KindOK(pc[t], request[t], work[t])
        BY EffectInvParts
      <4>2. QED
        BY <3>1, <3>2, <4>1 DEF KindOK
    <3>4. ASSUME Running(t)', ~(work'[t].overtaken)
          PROVE  ReadsHold(t)'
      <4>1. Running(t) /\ ReadsHold(t) /\ ~OvertakenBy(s, t) /\ SessionOK(t) /\ SessionOK(s)
        BY <3>1, <3>2, <3>4, Serving DEF EffectInv, Running
      <4>2. CASE CustomerOf(t) = CustomerOf(s)
        <5>1. /\ pc[t] \notin {"write", "commit"} /\ work[t].row = NoRow
              /\ request[s].kind = "checkout" => work[t].cart = NoRow
          BY <4>1, <4>2 DEF OvertakenBy
        <5>2. work[t].item = NoRow
          BY <4>1, <5>1, NoRowAssumption DEF SessionOK
        <5>3. work[t].cart # NoRow => cart'[work[t].cart].status = "ACTIVE"
          BY <4>1, <5>1 DEF Writes, ReadsHold
        <5>4. QED
          BY <3>1, <5>1, <5>2, <5>3 DEF ReadsHold
      <4>3. CASE CustomerOf(t) # CustomerOf(s)
        <5>1. work[t].cart # NoRow => /\ work[t].cart \in CartIds
                                      /\ work[t].cart # work[s].cart
                                      /\ cart'[work[t].cart] = cart[work[t].cart]
          <6>1. work[t].cart # NoRow => work[t].cart \in CartIds
            BY Serving DEF Work
          <6>2. work[s].cart # NoRow
            BY NoRowAssumption DEF Writes
          <6>3. QED
            BY <4>1, <4>3, <6>1, <6>2 DEF SessionOK, CustomerOf, Writes
        <5>2. PICK k, q : k = work[t].cart /\ q = request[t].product
          OBVIOUS
        <5>3. k # NoRow => \A i \in ItemIds :
                  /\ ItemOfCart(i, k)' <=> ItemOfCart(i, k)
                  /\ ItemOfCart(i, k) => line'[i] = line[i]
          BY <5>1, <5>2 DEF ItemOfCart, Writes
        <5>4. /\ pc[t] \in {"write", "commit"} => k # NoRow
              /\ work[t].item # NoRow => k # NoRow /\ work[t].item \in ItemIds
          BY <4>1, <5>2, Serving DEF SessionOK, Work
        <5>5. work[t].item # NoRow /\ line[work[t].item] # NoRow =>
                  line'[work[t].item] = line[work[t].item]
          <6>1. work[t].item # NoRow /\ line[work[t].item] # NoRow =>
                    line[work[t].item].cart = k
            BY <5>2 DEF IInv, FoundLineStays
          <6>2. QED
            BY <5>3, <5>4, <6>1 DEF ItemOfCart
        <5>6. k # NoRow => LinesIn(k)' = LinesIn(k) /\ LinesOf(k, q)' = LinesOf(k, q)
          BY <5>3 DEF LinesIn, LinesOf
        <5>7. /\ k # NoRow => cart'[k].status = "ACTIVE"
              /\ pc[t] = "write" /\ work[t].item = NoRow => LinesOf(k, q)' = {}
              /\ pc[t] = "commit" => work[t].lines = LinesIn(k)'
          BY <4>1, <5>1, <5>2, <5>4, <5>6 DEF ReadsHold
        <5>8. /\ LinesOf(k, q)' = LinesOf(work[t].cart, request[t].product)'
              /\ LinesIn(k)' = LinesIn(work[t].cart)'
          BY <3>1, <5>2 DEF LinesOf, LinesIn, ItemOfCart
        <5>9. QED
          BY <3>1, <3>2, <4>1, <5>2, <5>4, <5>5, <5>7, <5>8 DEF ReadsHold
      <4>4. QED
        BY <4>2, <4>3
    <3>5. QED
      BY <3>3, <3>4
  <2>3. QED
    BY <2>1, <2>2
<1>3. (\A p \in Products : IsFiniteSet(Pieces(line, p)))'
  BY DEF Writes
<1>4. QED
  BY <1>2, <1>3 DEF EffectInv, KindOK

\* One line of the cart that s has found is written.
LEMMA OneLineWritten ==
    ASSUME IInv, EffectInv, NEW s \in Sessions, Running(s), Commit(s),
           NEW i \in ItemIds, NEW row \in LineRow \cup {NoRow},
           line' = [line EXCEPT ![i] = row], cart' = cart,
           work[s].cart # NoRow,
           row # NoRow => row.cart = work[s].cart,
           line[i] # NoRow => line[i].cart = work[s].cart
    PROVE  /\ Writes(s)
           /\ line'[i] = row /\ \A j \in ItemIds \ {i} : line'[j] = line[j]
<1>1. line \in Lines /\ line' \in Lines /\ work[s].cart \in CartIds
  BY Serving DEF IInv, TypeOK, Lines, Work
<1>2. line'[i] = row /\ \A j \in ItemIds \ {i} : line'[j] = line[j]
  BY <1>1 DEF Lines
<1>3. \A p \in Products : IsFiniteSet(Pieces(line', p))
  BY <1>1, <1>2, OneLineChanges DEF EffectInv
<1>4. QED
  BY <1>1, <1>2, <1>3 DEF Writes

\* What AddItem writes when it has found no line.
LEMMA InsertWrites ==
    ASSUME IInv, EffectInv, NEW s \in Sessions, NEW i \in ItemIds, InsertItem(s, i)
    PROVE  /\ Writes(s) /\ UNCHANGED <<cart, order>>
           /\ pc[s] = "write" /\ request[s].kind = "add" /\ work[s].item = NoRow
           /\ line[i] = NoRow /\ line'[i] \in LineRow /\ line'[i] # NoRow
           /\ line'[i].cart = work[s].cart
           /\ line'[i].product = request[s].product
           /\ line'[i].quantity = request[s].quantity
           /\ \A j \in ItemIds \ {i} : line'[j] = line[j]
<1> DEFINE row == [cart |-> work[s].cart, product |-> request[s].product,
                   quantity |-> request[s].quantity]
<1>1. /\ pc[s] = "write" /\ Running(s) /\ work[s].item = NoRow
      /\ SessionOK(s) /\ request[s] \in Request /\ work[s] \in Work
  BY Serving DEF InsertItem, Running
<1>2. work[s].cart \in CartIds /\ work[s].cart # NoRow /\ request[s].kind = "add"
  BY <1>1 DEF SessionOK, Work
<1>3. row \in LineRow /\ row # NoRow /\ row.cart = work[s].cart
      /\ row.product = request[s].product /\ row.quantity = request[s].quantity
  BY <1>1, <1>2, RequestFields, NoRowAssumption DEF LineRow
<1>4. line' = [line EXCEPT ![i] = row] /\ line[i] = NoRow /\ Commit(s)
      /\ UNCHANGED <<cart, order>>
  BY DEF InsertItem
<1> HIDE DEF row
<1>5. Writes(s) /\ line'[i] = row /\ \A j \in ItemIds \ {i} : line'[j] = line[j]
  BY <1>1, <1>2, <1>3, <1>4, OneLineWritten
<1>6. QED
  BY <1>1, <1>2, <1>3, <1>4, <1>5

\* What AddItem and UpdateItem write to the line they have found.
LEMMA SaveWrites ==
    ASSUME IInv, EffectInv, NEW s \in Sessions, SaveItem(s)
    PROVE  /\ Writes(s) /\ UNCHANGED <<cart, order>>
           /\ pc[s] = "write" /\ work[s].item # NoRow /\ work[s].item \in ItemIds
           /\ request[s].kind \in {"add", "update"}
           /\ line'[work[s].item] = work[s].row /\ work[s].row \in LineRow
           /\ work[s].row # NoRow /\ work[s].row.cart = work[s].cart
           /\ line[work[s].item] # NoRow => line[work[s].item].cart = work[s].cart
           /\ \A j \in ItemIds \ {work[s].item} : line'[j] = line[j]
<1> DEFINE i == work[s].item
<1>1. /\ pc[s] = "write" /\ Running(s) /\ i # NoRow
      /\ SessionOK(s) /\ work[s] \in Work
  BY Serving DEF SaveItem, Running
<1>2. /\ i \in ItemIds /\ work[s].cart # NoRow /\ work[s].row \in LineRow
      /\ work[s].row # NoRow /\ work[s].row.cart = work[s].cart
  BY <1>1, NoRowAssumption DEF SessionOK, Work
<1>3. line' = [line EXCEPT ![i] = work[s].row] /\ Commit(s) /\ UNCHANGED <<cart, order>>
  BY DEF SaveItem
<1>4. line[i] # NoRow => line[i].cart = work[s].cart
  BY <1>1 DEF IInv, FoundLineStays
<1>5. request[s].kind \in {"add", "update"}
  BY <1>1 DEF EffectInv
<1>6. Writes(s) /\ line'[i] = work[s].row /\ \A j \in ItemIds \ {i} : line'[j] = line[j]
  BY <1>1, <1>2, <1>3, <1>4, OneLineWritten
<1>7. QED
  BY <1>1, <1>2, <1>3, <1>4, <1>5, <1>6

\* What RemoveItem and Clear delete.
LEMMA DeleteWrites ==
    ASSUME IInv, EffectInv, NEW s \in Sessions, DeleteItems(s), ~Refuse(s)
    PROVE  /\ Writes(s) /\ UNCHANGED <<cart, order>>
           /\ request[s].kind \in {"remove", "clear"}
           /\ request[s].kind = "remove" => Doomed(s) # {}
           /\ line' = [i \in ItemIds |-> IF i \in Doomed(s) THEN NoRow ELSE line[i]]
<1>1. /\ pc[s] = "delete" /\ Running(s) /\ SessionOK(s) /\ work[s] \in Work
      /\ request[s].kind \in {"remove", "clear"}
  BY Serving DEF DeleteItems, Running, EffectInv
<1>2. /\ line' = [i \in ItemIds |-> IF i \in Doomed(s) THEN NoRow ELSE line[i]]
      /\ request[s].kind = "remove" => Doomed(s) # {}
      /\ Commit(s) /\ UNCHANGED <<cart, order>>
  BY DEF DeleteItems
<1>3. work[s].cart \in CartIds
  BY <1>1 DEF SessionOK, Work
<1>4. line' \in Lines
  BY <1>2 DEF IInv, TypeOK, Lines
<1>5. ASSUME NEW i \in ItemIds
      PROVE  /\ line'[i] = line[i] \/ line'[i] = NoRow
             /\ line'[i] = line[i] \/ \A row \in {line[i], line'[i]} \ {NoRow} :
                                          row.cart = work[s].cart
  BY <1>2 DEF Doomed, ItemOfCart
<1>6. \A p \in Products : IsFiniteSet(Pieces(line', p))
  BY <1>5, FewerPieces DEF EffectInv
<1>7. QED
  BY <1>1, <1>2, <1>3, <1>4, <1>5, <1>6 DEF Writes

\* What Checkout writes.
LEMMA CheckoutWrites ==
    ASSUME IInv, EffectInv, NEW s \in Sessions, NEW o \in Orders, CommitCheckout(s, o)
    PROVE  /\ Writes(s) /\ line' = line
           /\ pc[s] = "commit" /\ request[s].kind = "checkout" /\ work[s].lines # NoLines
           /\ work[s].cart \in ActiveCarts(CustomerOf(s))
           /\ cart'[work[s].cart].status = "CHECKED_OUT"
<1> DEFINE k == work[s].cart
<1>1. /\ pc[s] = "commit" /\ Running(s) /\ SessionOK(s) /\ work[s] \in Work
      /\ cart' = [cart EXCEPT ![k].status = "CHECKED_OUT"]
      /\ Commit(s) /\ UNCHANGED line
  BY Serving DEF CommitCheckout, Running
<1>2. request[s].kind = "checkout" /\ work[s].lines # NoLines
  BY <1>1 DEF EffectInv
<1>3. k \in CartIds /\ HoldsCart(s, k)
  BY <1>1 DEF SessionOK, Work, HoldsCart
<1>4. k \in ActiveCarts(CustomerOf(s)) /\ cart \in [CartIds -> CartRow \cup {NoRow}]
      /\ line \in Lines
  BY <1>3 DEF IInv, TypeOK, Lines
<1>5. cart[k] \in CartRow
  BY <1>4 DEF ActiveCarts
<1>6. cart'[k].status = "CHECKED_OUT" /\ \A m \in CartIds \ {k} : cart'[m] = cart[m]
  BY <1>1, <1>3, <1>4, <1>5 DEF CartRow
<1>7. QED
  BY <1>1, <1>2, <1>3, <1>4, <1>6 DEF Writes, EffectInv

\* All other statements write neither lines nor orders, and answer nobody
\* with success.
LEMMA OtherStatements ==
    ASSUME IInv, EffectInv, NEW s \in Sessions, Step(s)
    PROVE  \/ \E i \in ItemIds : InsertItem(s, i)
           \/ SaveItem(s)
           \/ DeleteItems(s) /\ ~Refuse(s)
           \/ \E o \in Orders : CommitCheckout(s, o)
           \/ /\ UNCHANGED <<line, order>> /\ pc'[s] # "done"
              /\ \A t \in Sessions \ {s} : pc'[t] = pc[t]
              /\ cart' = cart \/ \E k \in CartIds : MakeCart(s, k)
<1> DEFINE Quiet == /\ UNCHANGED <<line, order>> /\ pc'[s] # "done"
                    /\ \A t \in Sessions \ {s} : pc'[t] = pc[t]
                    /\ cart' = cart \/ \E k \in CartIds : MakeCart(s, k)
<1>1. pc \in [Sessions -> Statement]
  BY Serving
<1>2. Refuse(s) => Quiet
  BY <1>1 DEF Refuse, End, tables
<1>3. \A l : Goto(s, l) /\ l # "done" => Quiet
  BY <1>1 DEF Goto, tables
<1>4. (\E r \in Request : Begin(s, r)) => Quiet
  BY <1>1 DEF Begin, tables
<1>5. ReadProduct(s) => Quiet
  BY <1>2, <1>3 DEF ReadProduct
<1>6. ASSUME NEW k \in CartIds, FindCart(s, k) PROVE Quiet
  <2>1. CASE Refuse(s)
    BY <1>2, <2>1
  <2>2. CASE request[s].kind # "get"
    <3>1. request[s] \in Request
      BY <1>6, Serving DEF FindCart, Running
    <3>2. request[s].kind \in {"add", "update", "remove", "clear", "checkout"}
      BY <2>2, <3>1, RequestFields
    <3> HIDE DEF Quiet
    <3>3. Goto(s, "item") \/ Goto(s, "delete") \/ Goto(s, "items")
      BY <1>6, <2>2, <3>2 DEF FindCart
    <3>4. QED
      BY <1>3, <3>3
  <2>3. QED
    BY <1>6, <2>1, <2>2 DEF FindCart
<1>7. FindNoCart(s) \/ MakeCartAgain(s) \/ ReadItems(s) \/ RefuseCheckout(s) \/ Fail(s) => Quiet
  BY <1>2, <1>3 DEF FindNoCart, MakeCartAgain, ReadItems, RefuseCheckout, Fail
<1>8. FindItemToAdd(s) => Quiet
  BY <1>2, <1>3 DEF FindItemToAdd
<1>9. FindItemToUpdate(s) => Quiet
  BY <1>2, <1>3 DEF FindItemToUpdate
<1>10. ASSUME NEW k \in CartIds, MakeCart(s, k) PROVE Quiet
  BY <1>1, <1>10 DEF MakeCart, End
<1> HIDE DEF Quiet
<1>11. Quiet \/ \/ \E i \in ItemIds : InsertItem(s, i)
                \/ SaveItem(s)
                \/ DeleteItems(s) /\ ~Refuse(s)
                \/ \E o \in Orders : CommitCheckout(s, o)
  BY <1>2, <1>4, <1>5, <1>6, <1>7, <1>8, <1>9, <1>10 DEF Step
<1>12. QED
  BY <1>11 DEF Quiet

LEMMA StepEffect ==
    ASSUME IInv, EffectInv, [Next]_vars
    PROVE  EffectInv'
<1>1. ASSUME NEW s \in Sessions, Step(s)
      PROVE  EffectInv'
  <2>1. CASE Refuse(s)
    BY <2>1, EffectRefuse
  <2>2. CASE \E i \in ItemIds : InsertItem(s, i)
    BY <2>2, InsertWrites, EffectCommit
  <2>3. CASE SaveItem(s)
    BY <2>3, SaveWrites, EffectCommit
  <2>4. CASE DeleteItems(s)
    BY <2>1, <2>4, DeleteWrites, EffectCommit
  <2>5. CASE \E o \in Orders : CommitCheckout(s, o)
    BY <2>5, CheckoutWrites, EffectCommit
  <2>6. QED
    BY <1>1, <2>1, <2>2, <2>3, <2>4, <2>5, EffectBegin, EffectReadProduct, EffectFindCart,
       EffectMakeCart, EffectFindNoCart, EffectFindItemToAdd, EffectFindItemToUpdate,
       EffectReadItems
       DEF Step, MakeCartAgain, RefuseCheckout, Fail
<1>2. CASE UNCHANGED <<cart, line, pc, request, work>>
  BY <1>2 DEF EffectInv, Running, ReadsHold, LinesOf, LinesIn, ItemOfCart
<1>3. QED
  BY <1>1, <1>2 DEF Next, Manage, SetStock, SetActive, vars

THEOREM CartEffectInvariance == Spec => [](IInv /\ EffectInv)
<1>1. IInv /\ EffectInv /\ [Next]_vars => (IInv /\ EffectInv)'
  BY StepIInv, StepEffect
<1>2. QED
  BY <1>1, InitIInv, InitEffect, PTL DEF Spec

-----------------------------------------------------------------------------
(***************************************************************************)
(* What the requests do to the baskets.                                    *)
(***************************************************************************)
Baskets == [c \in Customers |-> Basket(c)]
Placed == [o \in Orders |-> IF order[o] = NoRow THEN NoRow ELSE order[o].items]

LEMMA BasketTyped ==
    ASSUME IInv, EffectInv, NEW c \in Customers
    PROVE  /\ OpenLines(c) \in Lines
           /\ \A p \in Products : /\ IsFiniteSet(Pieces(OpenLines(c), p))
                                  /\ Basket(c)[p] = Cardinality(Pieces(OpenLines(c), p))
                                  /\ Basket(c)[p] \in Nat
           /\ Basket(c) = [p \in Products |-> Basket(c)[p]]
<1>1. OpenLines(c) \in Lines
  BY DEF IInv, TypeOK, OpenLines, Lines
<1>2. \A i \in ItemIds : OpenLines(c)[i] = line[i] \/ OpenLines(c)[i] = NoRow
  BY DEF OpenLines
<1>3. \A p \in Products : /\ IsFiniteSet(Pieces(OpenLines(c), p))
                          /\ Cardinality(Pieces(OpenLines(c), p)) \in Nat
  BY <1>2, FewerPieces DEF EffectInv
<1>4. QED
  BY <1>1, <1>3 DEF Basket, QuantitiesOf

\* The ACTIVE cart of a customer is one.
LEMMA OpenCart ==
    ASSUME IInv, NEW c \in Customers, NEW k \in ActiveCarts(c)
    PROVE  OpenLines(c) = LinesIn(k)
<1>1. ActiveCarts(c) = {k}
  BY DEF IInv, TypeOK
<1>2. QED
  BY <1>1 DEF OpenLines, LinesIn

\* A request that is not overtaken writes to the ACTIVE cart.
LEMMA StillActive ==
    ASSUME IInv, EffectInv, NEW s \in Sessions, Running(s), ~work[s].overtaken,
           work[s].cart # NoRow
    PROVE  /\ ReadsHold(s)
           /\ CustomerOf(s) \in Customers
           /\ work[s].cart \in ActiveCarts(CustomerOf(s))
<1>1. ReadsHold(s)
  BY DEF EffectInv
<1>2. work[s].cart \in CartIds /\ SessionOK(s) /\ CustomerOf(s) \in Customers
  BY Serving DEF Work
<1>3. QED
  BY <1>1, <1>2 DEF ReadsHold, SessionOK, ActiveCarts, CustomerOf

\* The basket of another customer is as it was.
LEMMA OtherBaskets ==
    ASSUME IInv, EffectInv, NEW s \in Sessions, Writes(s),
           cart' = cart \/ cart'[work[s].cart].status = "CHECKED_OUT",
           NEW d \in Customers, d # CustomerOf(s)
    PROVE  Basket(d)' = Basket(d)
<1>1. work[s].cart # NoRow
  BY NoRowAssumption DEF Writes
<1>2. cart[work[s].cart].customer = CustomerOf(s)
  BY <1>1, Serving DEF SessionOK, CustomerOf
<1>3. ActiveCarts(d)' = ActiveCarts(d) /\ work[s].cart \notin ActiveCarts(d)
  BY <1>2 DEF ActiveCarts, Writes
<1>4. ASSUME NEW i \in ItemIds, NEW k \in ActiveCarts(d)
      PROVE  /\ ItemOfCart(i, k)' <=> ItemOfCart(i, k)
             /\ ItemOfCart(i, k) => line'[i] = line[i]
  BY <1>3 DEF ItemOfCart, Writes
<1>5. OpenLines(d)' = OpenLines(d)
  BY <1>3, <1>4 DEF OpenLines
<1>6. QED
  BY <1>5 DEF Basket

\* The basket of the customer is what the ACTIVE cart holds now.
LEMMA OneLineCounts ==
    ASSUME IInv, EffectInv, NEW s \in Sessions, Writes(s), cart' = cart,
           NEW c \in Customers, c = CustomerOf(s), work[s].cart \in ActiveCarts(c),
           NEW i \in ItemIds, \A j \in ItemIds \ {i} : line'[j] = line[j],
           \A row \in {line[i], line'[i]} \ {NoRow} : row.cart = work[s].cart,
           NEW q \in Products
    PROVE  /\ Basket(c)'[q] = Basket(c)[q] - Asked(line[i], q) + Asked(line'[i], q)
           /\ Asked(line[i], q) \in Nat /\ Asked(line'[i], q) \in Nat
<1>1. ActiveCarts(c)' = ActiveCarts(c)
  BY DEF ActiveCarts
<1>2. OpenLines(c) \in Lines /\ line' \in Lines /\ line \in Lines
  BY BasketTyped DEF Writes, IInv, TypeOK, Lines
<1>3. OpenLines(c)' \in Lines
  BY <1>2 DEF OpenLines, Lines
<1>4. OpenLines(c)[i] = line[i] /\ OpenLines(c)'[i] = line'[i]
  BY <1>1 DEF OpenLines, ItemOfCart
<1>5. \A j \in ItemIds \ {i} : OpenLines(c)'[j] = OpenLines(c)[j]
  BY <1>1 DEF OpenLines, ItemOfCart
<1>6. IsFiniteSet(Pieces(OpenLines(c), q))
  BY BasketTyped
<1>7. Cardinality(Pieces(OpenLines(c)', q)) =
          Cardinality(Pieces(OpenLines(c), q)) - Asked(line[i], q) + Asked(line'[i], q)
  BY <1>2, <1>3, <1>4, <1>5, <1>6, OneLineChanges
<1>8. Basket(c)'[q] = Cardinality(Pieces(OpenLines(c)', q))
  BY DEF Basket, QuantitiesOf
<1>9. Asked(line[i], q) \in Nat /\ Asked(line'[i], q) \in Nat
  BY <1>2, BlockSize DEF Lines
<1>10. QED
  BY <1>7, <1>8, <1>9, BasketTyped

\* One line of one product is written.
LEMMA OneQuantity ==
    ASSUME IInv, EffectInv, NEW s \in Sessions, Writes(s), cart' = cart,
           NEW c \in Customers, c = CustomerOf(s), work[s].cart \in ActiveCarts(c),
           NEW i \in ItemIds, \A j \in ItemIds \ {i} : line'[j] = line[j],
           NEW p \in Products,
           \A row \in {line[i], line'[i]} \ {NoRow} : row.cart = work[s].cart /\ row.product = p,
           NEW n, n = Basket(c)[p] - Asked(line[i], p) + Asked(line'[i], p)
    PROVE  Baskets' = [Baskets EXCEPT ![c][p] = n]
<1>1. \A d \in Customers \ {c} : Basket(d)' = Basket(d)
  BY OtherBaskets
<1>2. Basket(c)'[p] = n
  BY OneLineCounts
<1>3. ASSUME NEW q \in Products \ {p}
      PROVE  Basket(c)'[q] = Basket(c)[q]
  <2>1. Asked(line[i], q) = 0 /\ Asked(line'[i], q) = 0
    BY DEF Asked
  <2>2. Basket(c)'[q] = Basket(c)[q] - 0 + 0 /\ Basket(c)[q] \in Nat
    BY <2>1, OneLineCounts, BasketTyped
  <2>3. QED
    BY <2>2
<1>4. Basket(c)' = [Basket(c) EXCEPT ![p] = n]
  <2>1. /\ Basket(c) = [q \in Products |-> Basket(c)[q]]
        /\ Basket(c)' = [q \in Products |-> Basket(c)'[q]]
    BY DEF Basket, QuantitiesOf
  <2>2. QED
    BY <1>2, <1>3, <2>1
<1>5. QED
  BY <1>1, <1>4 DEF Baskets

\* A product that has one line in the ACTIVE cart is in the basket as often
\* as the line says.
LEMMA OnlyLine ==
    ASSUME IInv, EffectInv, NEW c \in Customers, NEW k \in ActiveCarts(c), ~Doubled(c),
           NEW i \in ItemIds, line[i] # NoRow, line[i].cart = k, NEW p \in Products,
           line[i].product = p
    PROVE  Basket(c)[p] = line[i].quantity
<1>1. LinesOf(k, p) = {i}
  BY DEF Doubled, LinesOf, ItemOfCart
<1>2. OpenLines(c) = LinesIn(k) /\ OpenLines(c) \in Lines
  BY OpenCart, BasketTyped
<1>3. OpenLines(c)[i] = line[i]
  BY <1>2 DEF LinesIn, ItemOfCart
<1>4. \A j \in ItemIds \ {i} : ~(OpenLines(c)[j] # NoRow /\ OpenLines(c)[j].product = p)
  BY <1>1, <1>2 DEF LinesIn, LinesOf
<1>5. Cardinality(Pieces(OpenLines(c), p)) = line[i].quantity
  BY <1>2, <1>3, <1>4, OneLineAsks
<1>6. QED
  BY <1>5, BasketTyped

\* The effects, in the words of the promise.
LEMMA LedgerAdd ==
    ASSUME NEW s \in Sessions, request[s].kind = "add", NEW c, c = request[s].customer,
           Baskets' = [Baskets EXCEPT ![c][request[s].product] = @ + request[s].quantity],
           order' = order
    PROVE  TakesEffect(s)
BY DEF TakesEffect, Ledger!Add, Baskets

LEMMA InsertEffect ==
    ASSUME IInv, EffectInv, NEW s \in Sessions, NEW i \in ItemIds, InsertItem(s, i),
           ~work[s].overtaken
    PROVE  TakesEffect(s)
<1> DEFINE r == request[s]
<1>1. /\ Writes(s) /\ UNCHANGED <<cart, order>> /\ r.kind = "add"
      /\ line[i] = NoRow /\ line'[i] # NoRow
      /\ line'[i].cart = work[s].cart /\ line'[i].product = r.product
      /\ line'[i].quantity = r.quantity
      /\ \A j \in ItemIds \ {i} : line'[j] = line[j]
  BY InsertWrites
<1>2. Running(s) /\ work[s].cart # NoRow
  BY <1>1, NoRowAssumption DEF Writes
<1>3. PICK c \in Customers : c = CustomerOf(s)
  BY <1>2, StillActive
<1>4. work[s].cart \in ActiveCarts(c)
  BY <1>2, <1>3, StillActive
<1>5. PICK p \in Products : p = r.product
  BY <1>1, <1>2, Serving, RequestFields
<1>6. r.quantity \in Nat /\ Basket(c)[p] \in Nat /\ c = r.customer
  BY <1>1, <1>2, <1>3, Serving, RequestFields, BasketTyped DEF CustomerOf
<1>7. Asked(line[i], p) = 0 /\ Asked(line'[i], p) = r.quantity
  BY <1>1, <1>5 DEF Asked
<1>8. Basket(c)[p] + r.quantity = Basket(c)[p] - Asked(line[i], p) + Asked(line'[i], p)
  BY <1>6, <1>7
<1>9. \A row \in {line[i], line'[i]} \ {NoRow} : row.cart = work[s].cart /\ row.product = p
  BY <1>1, <1>5
<1>10. Baskets' = [Baskets EXCEPT ![c][p] = Basket(c)[p] + r.quantity]
  BY <1>1, <1>3, <1>4, <1>8, <1>9, OneQuantity
<1>11. Baskets' = [Baskets EXCEPT ![c][r.product] = @ + r.quantity]
  BY <1>5, <1>10 DEF Baskets
<1>12. QED
  BY <1>1, <1>6, <1>11, LedgerAdd

\* The line that is saved is the one that was found, with a new quantity.
LEMMA SaveEffect ==
    ASSUME IInv, EffectInv, NEW s \in Sessions, SaveItem(s), ~work[s].overtaken
    PROVE  TakesEffect(s) \/ (request[s].kind = "update" /\ Doubled(CustomerOf(s)))
<1>1. PICK i \in ItemIds : i = work[s].item
  BY SaveWrites
<1> DEFINE r == request[s]
<1>2. /\ Writes(s) /\ UNCHANGED <<cart, order>> /\ r.kind \in {"add", "update"}
      /\ pc[s] = "write" /\ work[s].item # NoRow
      /\ line'[i] = work[s].row /\ work[s].row \in LineRow /\ line'[i] # NoRow
      /\ line'[i].cart = work[s].cart
      /\ line[i] # NoRow => line[i].cart = work[s].cart
      /\ \A j \in ItemIds \ {i} : line'[j] = line[j]
  BY <1>1, SaveWrites
<1>3. Running(s) /\ work[s].cart # NoRow /\ line \in Lines
  BY <1>2, NoRowAssumption DEF Writes, IInv, TypeOK, Lines
<1>4. PICK c \in Customers : c = CustomerOf(s)
  BY <1>3, StillActive
<1>5. work[s].cart \in ActiveCarts(c) /\ ReadsHold(s) /\ c = r.customer
  BY <1>3, <1>4, StillActive DEF CustomerOf
<1>6. line[i] # NoRow /\ line[i] \in LineRow /\ line[i].cart = work[s].cart
  BY <1>1, <1>2, <1>3, <1>5 DEF ReadsHold, Lines
<1>7. PICK p \in Products : p = line[i].product
  BY <1>6 DEF LineRow
<1>8. /\ r \in Request /\ r.quantity \in Nat /\ Basket(c)[p] \in Nat
      /\ line[i].quantity \in Nat \ {0}
  BY <1>2, <1>3, <1>6, Serving, RequestFields, BasketTyped DEF LineRow
<1>9. Asked(line[i], p) = line[i].quantity
  BY <1>6, <1>7 DEF Asked
<1>10. /\ Writes(s) /\ cart' = cart
       /\ \A j \in ItemIds \ {i} : line'[j] = line[j]
       /\ c = CustomerOf(s) /\ work[s].cart \in ActiveCarts(c)
  BY <1>2, <1>4, <1>5
<1>11. CASE r.kind = "add"
  <2>1. /\ line[i].product = r.product
        /\ line'[i] = [line[i] EXCEPT !.quantity = line[i].quantity + r.quantity]
    BY <1>1, <1>2, <1>5, <1>11 DEF ReadsHold
  <2>2. line'[i].product = p /\ line'[i].quantity = line[i].quantity + r.quantity
    BY <1>6, <1>7, <2>1 DEF LineRow
  <2>3. Asked(line'[i], p) = line[i].quantity + r.quantity
    BY <1>2, <2>2 DEF Asked
  <2>4. Basket(c)[p] + r.quantity = Basket(c)[p] - Asked(line[i], p) + Asked(line'[i], p)
    BY <1>8, <1>9, <2>3
  <2>5. \A row \in {line[i], line'[i]} \ {NoRow} : row.cart = work[s].cart /\ row.product = p
    BY <1>2, <1>6, <1>7, <2>2
  <2>6. Baskets' = [Baskets EXCEPT ![c][p] = Basket(c)[p] + r.quantity]
    BY <1>10, <2>4, <2>5, OneQuantity
  <2>7. Baskets' = [Baskets EXCEPT ![c][r.product] = @ + r.quantity]
    BY <1>7, <2>1, <2>6 DEF Baskets
  <2>8. QED
    BY <1>2, <1>5, <1>11, <2>7, LedgerAdd
<1>12. CASE r.kind = "update" /\ ~Doubled(c)
  <2>1. i = r.item /\ line'[i] = [line[i] EXCEPT !.quantity = r.quantity]
    BY <1>1, <1>2, <1>5, <1>12 DEF ReadsHold
  <2>2. line'[i].product = p /\ line'[i].quantity = r.quantity
    BY <1>6, <1>7, <2>1 DEF LineRow
  <2>3. Asked(line'[i], p) = r.quantity
    BY <1>2, <2>2 DEF Asked
  <2>4. Basket(c)[p] = line[i].quantity
    BY <1>5, <1>6, <1>7, <1>12, OnlyLine
  <2>5. r.quantity = Basket(c)[p] - Asked(line[i], p) + Asked(line'[i], p)
    BY <1>8, <1>9, <2>3, <2>4
  <2>6. \A row \in {line[i], line'[i]} \ {NoRow} : row.cart = work[s].cart /\ row.product = p
    BY <1>2, <1>6, <1>7, <2>2
  <2>7. Baskets' = [Baskets EXCEPT ![c][p] = r.quantity]
    BY <1>10, <2>5, <2>6, OneQuantity
  <2>8. Baskets[c][p] > 0
    BY <1>8, <2>4 DEF Baskets
  <2>9. Ledger!Put(c, line[r.item].product, r.quantity)
    BY <1>2, <1>7, <2>1, <2>7, <2>8 DEF Ledger!Put, Baskets
  <2>10. QED
    BY <1>5, <1>12, <2>9 DEF TakesEffect
<1>13. QED
  BY <1>2, <1>4, <1>11, <1>12

\* The line that is removed was the only one of its product.
LEMMA RemoveEffect ==
    ASSUME IInv, EffectInv, NEW s \in Sessions, DeleteItems(s), ~Refuse(s),
           request[s].kind = "remove", ~work[s].overtaken, ~Doubled(CustomerOf(s))
    PROVE  TakesEffect(s)
<1> DEFINE r == request[s]
<1>1. /\ Writes(s) /\ UNCHANGED <<cart, order>> /\ Doomed(s) # {}
      /\ line' = [i \in ItemIds |-> IF i \in Doomed(s) THEN NoRow ELSE line[i]]
  BY DeleteWrites
<1>2. Running(s) /\ work[s].cart # NoRow /\ line \in Lines
  BY <1>1, NoRowAssumption DEF Writes, IInv, TypeOK, Lines
<1>3. PICK c \in Customers : c = CustomerOf(s)
  BY <1>2, StillActive
<1>4. work[s].cart \in ActiveCarts(c) /\ c = r.customer
  BY <1>2, <1>3, StillActive DEF CustomerOf
<1>5. PICK i \in ItemIds : i \in Doomed(s) /\ i = r.item
  BY <1>1 DEF Doomed
<1>6. /\ line[i] # NoRow /\ line[i].cart = work[s].cart /\ line[i] \in LineRow
      /\ line'[i] = NoRow /\ \A j \in ItemIds \ {i} : line'[j] = line[j]
  BY <1>1, <1>2, <1>5 DEF Doomed, ItemOfCart, Lines
<1>7. PICK p \in Products : p = line[i].product
  BY <1>6 DEF LineRow
<1>8. Basket(c)[p] = line[i].quantity /\ line[i].quantity \in Nat \ {0}
  BY <1>3, <1>4, <1>6, <1>7, OnlyLine DEF LineRow
<1>9. Asked(line[i], p) = line[i].quantity /\ Asked(line'[i], p) = 0
  BY <1>6, <1>7 DEF Asked
<1>10. 0 = Basket(c)[p] - Asked(line[i], p) + Asked(line'[i], p)
  BY <1>8, <1>9
<1>11. Writes(s) /\ cart' = cart /\ c = CustomerOf(s)
  BY <1>1, <1>3
<1>12. \A row \in {line[i], line'[i]} \ {NoRow} : row.cart = work[s].cart /\ row.product = p
  BY <1>6, <1>7
<1>13. Baskets' = [Baskets EXCEPT ![c][p] = 0]
  BY <1>4, <1>6, <1>10, <1>11, <1>12, OneQuantity
<1>14. Baskets[c][p] > 0
  BY <1>8 DEF Baskets
<1>15. Ledger!Drop(c, line[r.item].product)
  BY <1>1, <1>5, <1>7, <1>13, <1>14 DEF Ledger!Drop, Baskets
<1>16. QED
  BY <1>4, <1>15 DEF TakesEffect

\* A customer without open lines is about to order nothing.
LEMMA EmptyBasket ==
    ASSUME IInv, EffectInv, NEW s \in Sessions, Writes(s),
           cart' = cart \/ cart'[work[s].cart].status = "CHECKED_OUT",
           NEW c \in Customers, c = CustomerOf(s), OpenLines(c)' = NoLines
    PROVE  Baskets' = [Baskets EXCEPT ![c] = Ledger!NoItems]
<1>1. \A d \in Customers \ {c} : Basket(d)' = Basket(d)
  BY OtherBaskets
<1>2. \A p \in Products : Cardinality(Pieces(NoLines, p)) = 0
  BY NoPieces, FS_EmptySet
<1>3. Basket(c)' = [p \in Products |-> Cardinality(Pieces(NoLines, p))]
  BY DEF Basket, QuantitiesOf
<1>4. Basket(c)' = Ledger!NoItems
  BY <1>2, <1>3 DEF Ledger!NoItems
<1>5. QED
  BY <1>1, <1>4 DEF Baskets

LEMMA ClearEffect ==
    ASSUME IInv, EffectInv, NEW s \in Sessions, DeleteItems(s), ~Refuse(s),
           request[s].kind = "clear", ~work[s].overtaken
    PROVE  TakesEffect(s)
<1>1. /\ Writes(s) /\ UNCHANGED <<cart, order>>
      /\ line' = [i \in ItemIds |-> IF i \in Doomed(s) THEN NoRow ELSE line[i]]
  BY DeleteWrites
<1>2. Running(s) /\ work[s].cart # NoRow
  BY <1>1, NoRowAssumption DEF Writes
<1>3. PICK c \in Customers : c = CustomerOf(s)
  BY <1>2, StillActive
<1>4. PICK k \in CartIds : k = work[s].cart
  BY <1>1 DEF Writes
<1>5. k \in ActiveCarts(c) /\ c = request[s].customer
  BY <1>2, <1>3, <1>4, StillActive DEF CustomerOf
<1>6. ActiveCarts(c) = {k} /\ ActiveCarts(c)' = ActiveCarts(c)
  BY <1>1, <1>5 DEF IInv, TypeOK, ActiveCarts
<1>7. \A i \in ItemIds : ~ItemOfCart(i, k)'
  BY <1>1, <1>4 DEF Doomed, ItemOfCart
<1>8. OpenLines(c)' = NoLines
  BY <1>6, <1>7 DEF OpenLines, NoLines
<1>9. Baskets' = [Baskets EXCEPT ![c] = Ledger!NoItems]
  BY <1>1, <1>3, <1>8, EmptyBasket
<1>10. Ledger!Empty(c)
  BY <1>1, <1>9 DEF Ledger!Empty, Baskets
<1>11. QED
  BY <1>5, <1>10 DEF TakesEffect

LEMMA CheckoutEffect ==
    ASSUME IInv, EffectInv, NEW s \in Sessions, NEW o \in Orders, CommitCheckout(s, o),
           ~work[s].overtaken
    PROVE  TakesEffect(s)
<1> DEFINE lines == work[s].lines
<1>1. /\ Writes(s) /\ line' = line /\ pc[s] = "commit" /\ request[s].kind = "checkout"
      /\ lines # NoLines
      /\ work[s].cart \in ActiveCarts(CustomerOf(s))
      /\ cart'[work[s].cart].status = "CHECKED_OUT"
  BY CheckoutWrites
<1>2. Running(s) /\ work[s].cart # NoRow /\ line \in Lines
  BY <1>1, NoRowAssumption DEF Writes, IInv, TypeOK, Lines
<1>3. PICK c \in Customers : c = CustomerOf(s)
  BY <1>2, StillActive
<1>4. PICK k \in CartIds : k = work[s].cart
  BY <1>1 DEF Writes
<1>5. /\ k \in ActiveCarts(c) /\ c = request[s].customer
      /\ lines = LinesIn(k)
  BY <1>1, <1>2, <1>3, <1>4, StillActive DEF CustomerOf, ReadsHold
<1>6. lines = OpenLines(c)
  BY <1>5, OpenCart
<1>7. Basket(c) # Ledger!NoItems
  <2>1. PICK i \in ItemIds : lines[i] # NoRow
    BY <1>1, <1>5 DEF LinesIn, NoLines
  <2>2. lines[i] \in LineRow
    BY <1>6, <2>1, BasketTyped DEF Lines
  <2>3. PICK p \in Products : p = lines[i].product
    BY <2>2 DEF LineRow
  <2>4. lines[i].quantity \in Nat \ {0}
    BY <2>2 DEF LineRow
  <2>5. <<i, 1>> \in Block(lines[i], i, p)
    BY <2>1, <2>3, <2>4 DEF Block
  <2>6. Pieces(lines, p) # {}
    BY <2>5, PieceOfLine
  <2>7. Basket(c)[p] # 0
    BY <1>6, <2>6, BasketTyped, FS_EmptySet
  <2>8. QED
    BY <2>7 DEF Ledger!NoItems
<1>8. /\ order[o] = NoRow
      /\ order' = [order EXCEPT ![o] = [cart |-> k, items |-> Basket(c)]]
  BY <1>4, <1>6 DEF CommitCheckout, Basket
<1>9. Placed' = [Placed EXCEPT ![o] = Basket(c)]
  <2> DEFINE row == [cart |-> k, items |-> Basket(c)]
  <2>1. row \in OrderRow
    BY BasketTyped DEF OrderRow, Quantities
  <2>2. row # NoRow /\ row.items = Basket(c)
    BY <2>1, NoRowAssumption
  <2>3. order \in [Orders -> OrderRow \cup {NoRow}]
    BY DEF IInv, TypeOK
  <2>4. order' = [order EXCEPT ![o] = row]
    BY <1>8
  <2> HIDE DEF row
  <2>5. QED
    BY <2>2, <2>3, <2>4 DEF Placed
<1>10. OpenLines(c)' = NoLines
  <2>1. ActiveCarts(c) = {k}
    BY <1>5 DEF IInv, TypeOK
  <2>2. ActiveCarts(c)' = {}
    BY <1>1, <1>4, <2>1 DEF ActiveCarts, Writes
  <2>3. QED
    BY <2>2 DEF OpenLines, NoLines
<1>11. Baskets' = [Baskets EXCEPT ![c] = Ledger!NoItems]
  BY <1>1, <1>3, <1>10, EmptyBasket
<1>12. Baskets[c] = Basket(c) /\ Placed[o] = NoRow
  BY <1>8 DEF Baskets, Placed
<1>13. Ledger!Order(c, o)
  BY <1>7, <1>9, <1>11, <1>12 DEF Ledger!Order, Baskets, Placed
<1>14. QED
  BY <1>1, <1>5, <1>13 DEF TakesEffect

\* A cart that is made is empty.
LEMMA QuietBaskets ==
    ASSUME IInv, EffectInv, line' = line,
           cart' = cart \/ \E s \in Sessions, k \in CartIds : MakeCart(s, k)
    PROVE  Baskets' = Baskets
<1>1. SUFFICES ASSUME NEW c \in Customers PROVE OpenLines(c)' = OpenLines(c)
  BY DEF Baskets, Basket
<1>2. CASE cart' = cart
  BY <1>2 DEF OpenLines, ActiveCarts, ItemOfCart
<1>3. CASE \E s \in Sessions, k \in CartIds : MakeCart(s, k)
  <2>1. PICK s \in Sessions, k \in CartIds : MakeCart(s, k)
    BY <1>3
  <2>2. cart[k] = NoRow /\ \A m \in CartIds \ {k} : cart'[m] = cart[m]
    BY <2>1 DEF MakeCart, IInv, TypeOK
  <2>3. \A i \in ItemIds : ~ItemOfCart(i, k)
    BY <2>2 DEF IInv, CartsExist, ItemOfCart
  <2>4. \A m \in CartIds \ {k} : m \in ActiveCarts(c)' <=> m \in ActiveCarts(c)
    BY <2>2 DEF ActiveCarts
  <2>5. \A i \in ItemIds, m \in CartIds : ItemOfCart(i, m)' <=> ItemOfCart(i, m)
    BY DEF ItemOfCart
  <2>6. ActiveCarts(c) \subseteq CartIds /\ ActiveCarts(c)' \subseteq CartIds
    BY DEF ActiveCarts
  <2>7. \A i \in ItemIds : (\E m \in ActiveCarts(c)' : ItemOfCart(i, m)') <=>
                           (\E m \in ActiveCarts(c) : ItemOfCart(i, m))
    BY <2>3, <2>4, <2>5, <2>6
  <2>8. QED
    BY <2>7 DEF OpenLines
<1>4. QED
  BY <1>2, <1>3

\* The outcome of a request that writes, of s.
Outcome(s) ==
    /\ Running(s) /\ pc'[s] = "done"
    /\ \/ work[s].overtaken
       \/ request[s].kind \in {"update", "remove"} /\ Doubled(CustomerOf(s))
       \/ TakesEffect(s)

LEMMA StepTakesEffect ==
    ASSUME IInv, EffectInv, [Next]_vars
    PROVE  \/ UNCHANGED vars
           \/ \E s \in Sessions : Outcome(s)
           \/ /\ \A s \in Sessions : ~(Running(s) /\ pc'[s] = "done")
              /\ UNCHANGED <<Baskets, line, order>>
<1>1. ASSUME NEW s \in Sessions, Writes(s),
             ~work[s].overtaken =>
                 \/ TakesEffect(s)
                 \/ request[s].kind \in {"update", "remove"} /\ Doubled(CustomerOf(s))
      PROVE  Outcome(s)
  BY <1>1, CommitEffect DEF Outcome, Writes
<1>2. ASSUME NEW s \in Sessions, Step(s)
      PROVE  \/ Outcome(s)
             \/ /\ \A t \in Sessions : ~(Running(t) /\ pc'[t] = "done")
                /\ UNCHANGED <<Baskets, line, order>>
  <2>1. ASSUME NEW i \in ItemIds, InsertItem(s, i) PROVE Outcome(s)
    BY <1>1, <2>1, InsertWrites, InsertEffect
  <2>2. CASE SaveItem(s)
    BY <1>1, <2>2, SaveWrites, SaveEffect
  <2>3. CASE DeleteItems(s) /\ ~Refuse(s)
    BY <1>1, <2>3, DeleteWrites, RemoveEffect, ClearEffect
  <2>4. ASSUME NEW o \in Orders, CommitCheckout(s, o) PROVE Outcome(s)
    BY <1>1, <2>4, CheckoutWrites, CheckoutEffect
  <2>5. CASE /\ UNCHANGED <<line, order>> /\ pc'[s] # "done"
             /\ \A t \in Sessions \ {s} : pc'[t] = pc[t]
             /\ cart' = cart \/ \E k \in CartIds : MakeCart(s, k)
    <3>1. Baskets' = Baskets
      BY <2>5, QuietBaskets
    <3>2. \A t \in Sessions : ~(Running(t) /\ pc'[t] = "done")
      BY <2>5 DEF Running
    <3>3. QED
      BY <2>5, <3>1, <3>2
  <2>6. QED
    BY <1>2, <2>1, <2>2, <2>3, <2>4, <2>5, OtherStatements
<1>3. CASE Manage
  <2>1. UNCHANGED <<cart, line, order, pc>>
    BY <1>3 DEF Manage, SetStock, SetActive
  <2>2. Baskets' = Baskets
    BY <2>1, QuietBaskets
  <2>3. \A s \in Sessions : ~(Running(s) /\ pc'[s] = "done")
    BY <2>1 DEF Running
  <2>4. QED
    BY <2>1, <2>2, <2>3
<1>4. QED
  BY <1>2, <1>3 DEF Next

\* For any numbers of lines, carts and sessions, a request that succeeds and
\* is not overtaken by another of its customer has done to the basket what it
\* promises, and no other step changes a basket or an order
\* (internal/cart/service.go:50-134, internal/order/service.go:60-122).
THEOREM CartRequestsTakeEffect == Spec => RequestsTakeEffect
<1>1. IInv /\ EffectInv /\ [Next]_vars =>
          [IF \E s \in Sessions : Running(s) /\ pc'[s] = "done"
           THEN \E s \in Sessions :
                    /\ Running(s) /\ pc'[s] = "done"
                    /\ \/ work[s].overtaken
                       \/ request[s].kind \in {"update", "remove"} /\ Doubled(CustomerOf(s))
                       \/ TakesEffect(s)
           ELSE UNCHANGED <<[c \in Customers |-> Basket(c)], line, order>>]_vars
  <2>1. SUFFICES ASSUME IInv, EffectInv, [Next]_vars, ~UNCHANGED vars
                 PROVE  \/ \E s \in Sessions : Outcome(s)
                        \/ /\ \A s \in Sessions : ~(Running(s) /\ pc'[s] = "done")
                           /\ UNCHANGED <<Baskets, line, order>>
    BY DEF Outcome, Baskets
  <2>2. QED
    BY <2>1, StepTakesEffect
<1>2. QED
  BY <1>1, CartEffectInvariance, PTL DEF Spec, RequestsTakeEffect

-----------------------------------------------------------------------------
(***************************************************************************)
(* Doubled lines.                                                          *)
(***************************************************************************)

\* The ACTIVE cart that a session writes to is of its customer.
LEMMA WriterOwnsCart ==
    ASSUME IInv, NEW s \in Sessions, Writes(s), cart' = cart, NEW c \in Customers,
           work[s].cart \in ActiveCarts(c)'
    PROVE  CustomerOf(s) = c
<1>1. work[s].cart # NoRow
  BY NoRowAssumption DEF Writes
<1>2. cart[work[s].cart].customer = CustomerOf(s)
  BY <1>1, Serving DEF SessionOK, CustomerOf
<1>3. QED
  BY <1>2 DEF ActiveCarts

\* Lines are doubled in a cart that s writes to, and s was overtaken.
LEMMA StepDoubles ==
    ASSUME IInv, EffectInv, [Next]_vars, NEW c \in Customers, Doubled(c)', ~Doubled(c)
    PROVE  \E s \in Sessions : /\ Running(s) /\ pc'[s] = "done"
                               /\ CustomerOf(s) = c
                               /\ request[s].kind \in {"add", "update"}
                               /\ work[s].overtaken
<1>1. PICK k \in CartIds, p \in Products, i \in ItemIds, j \in ItemIds :
          /\ k \in ActiveCarts(c)' /\ i # j
          /\ line'[i] # NoRow /\ line'[i].cart = k /\ line'[i].product = p
          /\ line'[j] # NoRow /\ line'[j].cart = k /\ line'[j].product = p
  BY DEF Doubled, LinesOf, ItemOfCart, ActiveCarts
<1>2. k \in ActiveCarts(c) /\ line[i] = line'[i] /\ line[j] = line'[j] => FALSE
  BY <1>1 DEF Doubled, LinesOf, ItemOfCart
<1>3. CASE line' = line
  <2>1. k \notin ActiveCarts(c)
    BY <1>2, <1>3
  <2>2. cart' # cart
    BY <1>1, <2>1 DEF ActiveCarts
  <2>3. PICK s \in Sessions : Step(s)
    BY <2>2 DEF Next, Manage, SetStock, SetActive, vars
  <2>4. ASSUME NEW o \in Orders, CommitCheckout(s, o) PROVE FALSE
    <3>1. /\ cart'[work[s].cart].status = "CHECKED_OUT"
          /\ \A m \in CartIds \ {work[s].cart} : cart'[m] = cart[m]
      BY <2>4, CheckoutWrites DEF Writes
    <3>2. QED
      BY <1>1, <2>1, <3>1 DEF ActiveCarts
  <2>5. ASSUME NEW m \in CartIds, MakeCart(s, m) PROVE FALSE
    <3>1. cart[m] = NoRow /\ \A n \in CartIds \ {m} : cart'[n] = cart[n]
      BY <2>5 DEF MakeCart, IInv, TypeOK
    <3>2. cart[k] # NoRow
      BY <1>1, <1>3 DEF IInv, CartsExist
    <3>3. cart'[k] = cart[k]
      BY <3>1, <3>2
    <3>4. QED
      BY <1>1, <2>1, <3>3 DEF ActiveCarts
  <2>6. QED
    BY <2>2, <2>3, <2>4, <2>5, OtherStatements, InsertWrites, SaveWrites, DeleteWrites
<1>4. CASE line' # line
  <2>1. PICK s \in Sessions : Step(s)
    BY <1>4 DEF Next, Manage, SetStock, SetActive, vars
  <2>2. PICK n \in ItemIds :
            /\ line'[n] # NoRow /\ line'[n].cart = k /\ line'[n].product = p
            /\ line'[n] # line[n] \/ cart' # cart
            /\ \E m \in ItemIds \ {n} :
                  line'[m] # NoRow /\ line'[m].cart = k /\ line'[m].product = p
    BY <1>1, <1>2 DEF ActiveCarts
  <2>3. ASSUME NEW m \in ItemIds, InsertItem(s, m)
        PROVE  /\ Writes(s) /\ CustomerOf(s) = c
               /\ request[s].kind \in {"add", "update"} /\ work[s].overtaken
    <3>1. /\ Writes(s) /\ cart' = cart /\ pc[s] = "write" /\ request[s].kind = "add"
          /\ work[s].item = NoRow
          /\ line'[m].cart = work[s].cart /\ line'[m].product = request[s].product
          /\ \A q \in ItemIds \ {m} : line'[q] = line[q]
      BY <2>3, InsertWrites
    <3>2. n = m /\ k = work[s].cart /\ p = request[s].product
      BY <2>2, <3>1
    <3>3. LinesOf(k, p) # {}
      BY <2>2, <3>1, <3>2 DEF LinesOf, ItemOfCart
    <3>4. work[s].overtaken
      BY <3>1, <3>2, <3>3 DEF Writes, EffectInv, ReadsHold
    <3>5. QED
      BY <1>1, <3>1, <3>2, <3>4, WriterOwnsCart
  <2>4. ASSUME SaveItem(s)
        PROVE  /\ Writes(s) /\ CustomerOf(s) = c
               /\ request[s].kind \in {"add", "update"} /\ work[s].overtaken
    <3> DEFINE m == work[s].item
    <3>1. /\ Writes(s) /\ cart' = cart /\ pc[s] = "write"
          /\ request[s].kind \in {"add", "update"}
          /\ m # NoRow /\ m \in ItemIds
          /\ line'[m] = work[s].row /\ work[s].row.cart = work[s].cart
          /\ line[m] # NoRow => line[m].cart = work[s].cart
          /\ \A q \in ItemIds \ {m} : line'[q] = line[q]
      BY <2>4, SaveWrites
    <3>2. n = m /\ k = work[s].cart
      BY <2>2, <3>1
    <3>3. CASE ~work[s].overtaken
      <4>1. line[m] # NoRow /\ line[m].cart = k /\ work[s].row.product = line[m].product
        <5>1. ReadsHold(s)
          BY <3>1, <3>3 DEF Writes, EffectInv
        <5>2. line[m] # NoRow /\ line[m] \in LineRow
          BY <3>1, <5>1 DEF ReadsHold, IInv, TypeOK
        <5>3. work[s].row.product = line[m].product
          BY <3>1, <5>1, <5>2 DEF ReadsHold, LineRow
        <5>4. QED
          BY <3>1, <3>2, <5>2, <5>3
      <4>2. \A q \in ItemIds : line'[q] # NoRow /\ line'[q].cart = k /\ line'[q].product = p =>
                line[q] # NoRow /\ line[q].cart = k /\ line[q].product = p
        BY <3>1, <4>1
      <4>3. k \in ActiveCarts(c)
        BY <1>1, <3>1 DEF ActiveCarts
      <4>4. Doubled(c)
        BY <1>1, <4>2, <4>3 DEF Doubled, LinesOf, ItemOfCart
      <4>5. QED
        BY <4>4
    <3>4. CASE work[s].overtaken
      BY <1>1, <3>1, <3>2, <3>4, WriterOwnsCart
    <3>5. QED
      BY <3>3, <3>4
  <2>5. ASSUME DeleteItems(s), ~Refuse(s) PROVE FALSE
    <3>1. cart' = cart /\ \A q \in ItemIds : line'[q] # NoRow => line'[q] = line[q]
      BY <2>5, DeleteWrites
    <3>2. QED
      BY <1>1, <1>2, <3>1 DEF ActiveCarts
  <2>6. PICK t \in Sessions : /\ Writes(t) /\ CustomerOf(t) = c
                              /\ request[t].kind \in {"add", "update"} /\ work[t].overtaken
    BY <1>4, <2>1, <2>3, <2>4, <2>5, OtherStatements, CheckoutWrites
  <2>7. pc'[t] = "done"
    BY <2>6, CommitEffect DEF Writes
  <2>8. QED
    BY <2>6, <2>7 DEF Writes
<1>5. QED
  BY <1>3, <1>4

\* Requests served one after the other never make a second line of a product;
\* one comes only from an AddItem or UpdateItem that was overtaken after it had
\* looked for the line (internal/cart/service.go:65-80, :105).
THEOREM CartDoubledByOvertaking == Spec => DoubledOnlyByOvertaking
<1>1. IInv /\ EffectInv /\ [Next]_vars =>
          [\A c \in Customers :
              Doubled(c)' /\ ~Doubled(c) =>
                  \E s \in Sessions : /\ Running(s) /\ pc'[s] = "done"
                                      /\ CustomerOf(s) = c
                                      /\ request[s].kind \in {"add", "update"}
                                      /\ work[s].overtaken]_vars
  BY StepDoubles
<1>2. QED
  BY <1>1, CartEffectInvariance, PTL DEF Spec, DoubledOnlyByOvertaking
=============================================================================
