---------------------------- MODULE CatalogueProofs ----------------------------
(***************************************************************************)
(* Proofs about Catalogue: what requests that overlap can do to products   *)
(* and categories, for any number of rows, slugs and sessions.             *)
(***************************************************************************)
EXTENDS Catalogue, TLAPS

\* What a request carries, by its kind.
LEMMA RequestFields ==
    ASSUME NEW r \in Request
    PROVE  /\ r.kind = "create" => r.slug \in Slugs /\ r.offer \in Offers /\ r.category \in Categories
           /\ r.kind = "update" => /\ r.product \in Products /\ r.slug \in Slugs
                                   /\ r.offer \in Offers /\ r.category \in Categories
           /\ r.kind = "updateCategory" => r.category \in Categories /\ r.slug \in Slugs
BY DEF Request

LEMMA NoWorkType == NoWork \in Work
BY DEF NoWork, Work

LEMMA InitInvariant == Init => IInv
<1>1. SUFFICES ASSUME Init PROVE IInv
    OBVIOUS
<1>2. TypeOK
    BY <1>1, NoWorkType DEF Init, TypeOK, Statement
<1>3. /\ \A p \in Products : product[p] # NoRow => images[p] = product[p].offer
      /\ \A s \in Sessions : ReadsHold(pc[s], request[s], work[s])
      /\ SavedApart
    BY <1>1 DEF Init, ReadsHold, SavedApart
<1>4. QED
    BY <1>2, <1>3 DEF IInv

-----------------------------------------------------------------------------
(***************************************************************************)
(* Steps of one session that write no table.                               *)
(***************************************************************************)

LEMMA SessionStep ==
    ASSUME IInv, NEW s \in Sessions, UNCHANGED tables,
           NEW label \in Statement, NEW r \in Request \cup {NoRow}, NEW w \in Work,
           pc' = [pc EXCEPT ![s] = label],
           request' = [request EXCEPT ![s] = r],
           work' = [work EXCEPT ![s] = w],
           ReadsHold(label, r, w),
           label = "images" => RowFree(Sessions \ {s}, w.product) /\ SlugFree(s, w.row.slug)
    PROVE  IInv'
<1>1. /\ product' = product /\ images' = images /\ category' = category
      /\ pc \in [Sessions -> Statement]
      /\ request \in [Sessions -> Request \cup {NoRow}]
      /\ work \in [Sessions -> Work]
    BY DEF tables, IInv, TypeOK
<1>2. TypeOK'
    BY <1>1 DEF IInv, TypeOK
<1>3. (\A p \in Products : product[p] # NoRow => images[p] = product[p].offer)'
    BY <1>1 DEF IInv
<1>4. \A t \in Sessions : ReadsHold(pc'[t], request'[t], work'[t])
    BY <1>1 DEF IInv
<1>5. (\A t \in Sessions : ReadsHold(pc[t], request[t], work[t]))'
    BY <1>1, <1>4 DEF ReadsHold, SlugTaken, Public, Live, LiveCategory
<1>6. SavedApart'
    <2>1. SUFFICES ASSUME NEW t \in Sessions, NEW u \in Sessions, t # u,
                          pc'[t] = "images", pc'[u] = "images"
                   PROVE  /\ work'[t].product # work'[u].product
                          /\ work'[t].row.slug # work'[u].row.slug
        BY DEF SavedApart
    <2>2. CASE t # s /\ u # s
        BY <1>1, <2>1, <2>2 DEF IInv, SavedApart
    <2>3. CASE t = s \/ u = s
        BY <1>1, <2>1, <2>3 DEF RowFree, SlugFree
    <2>4. QED
        BY <2>2, <2>3
<1>7. QED
    BY <1>2, <1>3, <1>5, <1>6 DEF IInv

LEMMA LeaveStep ==
    ASSUME IInv, NEW s \in Sessions, Leave(s)
    PROVE  IInv'
<1>1. /\ UNCHANGED tables
      /\ pc' = [pc EXCEPT ![s] = "idle"]
      /\ request' = [request EXCEPT ![s] = NoRow]
      /\ work' = [work EXCEPT ![s] = NoWork]
    BY DEF Leave, End
<1>2. "idle" \in Statement /\ ReadsHold("idle", NoRow, NoWork)
    BY DEF Statement, ReadsHold
<1>3. QED
    BY <1>1, <1>2, NoWorkType, SessionStep

LEMMA BeginStep ==
    ASSUME IInv, NEW s \in Sessions, NEW r \in Request, Begin(s, r)
    PROVE  IInv'
<1> DEFINE l == FirstStatement[r.kind]
<1>1. /\ UNCHANGED tables
      /\ pc' = [pc EXCEPT ![s] = l]
      /\ request' = [request EXCEPT ![s] = r]
      /\ work' = [work EXCEPT ![s] = work[s]]
      /\ work[s] \in Work
    BY DEF Begin, IInv, TypeOK
<1>2. /\ l \in {"check", "read", "readCategory", "find"}
      /\ l = "check" => r.kind = "create"
      /\ l = "read" => r.kind = "update"
      /\ l = "readCategory" => r.kind = "updateCategory"
      /\ l = "find" => r.kind = "detail"
    BY DEF FirstStatement, Request
<1> HIDE DEF l
<1>3. l \in Statement /\ ReadsHold(l, r, work[s])
    BY <1>2 DEF Statement, ReadsHold
<1>4. QED
    BY <1>1, <1>2, <1>3, SessionStep

\* A session that goes on with its request as it is.
LEMMA GotoStep ==
    ASSUME IInv, NEW s \in Sessions, UNCHANGED tables,
           NEW label \in Statement, NEW w \in Work,
           Goto(s, label), work' = [work EXCEPT ![s] = w],
           ReadsHold(label, request[s], w),
           label = "images" => RowFree(Sessions \ {s}, w.product) /\ SlugFree(s, w.row.slug)
    PROVE  IInv'
<1>1. /\ pc' = [pc EXCEPT ![s] = label]
      /\ request' = [request EXCEPT ![s] = request[s]]
      /\ request[s] \in Request \cup {NoRow}
    BY DEF Goto, IInv, TypeOK
<1>2. QED
    BY <1>1, SessionStep

LEMMA CheckCategoryStep ==
    ASSUME IInv, NEW s \in Sessions, CheckCategory(s)
    PROVE  IInv'
<1>1. CASE LiveCategory(request[s].category)
    <2>1. /\ Goto(s, "insert") /\ UNCHANGED tables
          /\ work' = [work EXCEPT ![s] = work[s]]
          /\ work[s] \in Work /\ pc[s] = "check"
        BY <1>1 DEF CheckCategory, IInv, TypeOK
    <2>2. "insert" \in Statement /\ ReadsHold("insert", request[s], work[s])
        BY <1>1, <2>1 DEF IInv, ReadsHold, Statement
    <2>3. QED
        BY <2>1, <2>2, GotoStep
<1>2. CASE ~LiveCategory(request[s].category)
    BY <1>2, LeaveStep DEF CheckCategory
<1>3. QED
    BY <1>1, <1>2

LEMMA ReadCategoryStep ==
    ASSUME IInv, NEW s \in Sessions, ReadCategory(s)
    PROVE  IInv'
<1>1. CASE LiveCategory(request[s].category)
    <2>1. /\ Goto(s, "saveCategory") /\ UNCHANGED tables
          /\ work' = [work EXCEPT ![s] = work[s]]
          /\ work[s] \in Work /\ pc[s] = "readCategory"
        BY <1>1 DEF ReadCategory, IInv, TypeOK
    <2>2. "saveCategory" \in Statement /\ ReadsHold("saveCategory", request[s], work[s])
        BY <1>1, <2>1 DEF IInv, ReadsHold, Statement, LiveCategory
    <2>3. QED
        BY <2>1, <2>2, GotoStep
<1>2. CASE ~LiveCategory(request[s].category)
    BY <1>2, LeaveStep DEF ReadCategory
<1>3. QED
    BY <1>1, <1>2

LEMMA ReadProductStep ==
    ASSUME IInv, NEW s \in Sessions, ReadProduct(s)
    PROVE  IInv'
<1> DEFINE r == request[s]
           p == r.product
           row == [slug |-> r.slug, offer |-> r.offer, category |-> r.category,
                   active |-> product[p].active, deleted |-> FALSE]
           w == [work[s] EXCEPT !.product = p, !.row = row]
<1>1. CASE Live(p)
    <2>1. /\ pc[s] = "read" /\ r \in Request /\ r.kind = "update"
          /\ work[s] \in Work /\ work \in [Sessions -> Work]
          /\ product \in [Products -> ProductRow \cup {NoRow}]
        BY DEF ReadProduct, IInv, TypeOK, ReadsHold
    <2>2. /\ p \in Products /\ r.slug \in Slugs /\ r.offer \in Offers /\ r.category \in Categories
        BY <2>1, RequestFields
    <2>3. product[p] # NoRow /\ product[p].active \in BOOLEAN /\ ~product[p].deleted
        BY <1>1, <2>1, <2>2 DEF Live, ProductRow
    <2>4. row \in ProductRow /\ row.slug = r.slug /\ row.active = product[p].active
        BY <2>2, <2>3 DEF ProductRow
    <2>5. /\ Goto(s, "save") /\ UNCHANGED tables
          /\ work' = [work EXCEPT ![s] = w]
        BY <1>1, <2>1 DEF ReadProduct, Work
    <2>6. p \in Public <=> product[p].active
        BY <1>1, <2>2 DEF Public
    <2> HIDE DEF row
    <2>7. w \in Work /\ w.product = p /\ w.row = row
        BY <2>1, <2>2, <2>4 DEF Work
    <2> HIDE DEF w
    <2>8. "save" \in Statement /\ ReadsHold("save", r, w)
        BY <2>1, <2>2, <2>3, <2>4, <2>6, <2>7 DEF ReadsHold, Statement
    <2>9. QED
        BY <2>5, <2>7, <2>8, GotoStep
<1>2. CASE ~Live(p)
    BY <1>2, LeaveStep DEF ReadProduct
<1>3. QED
    BY <1>1, <1>2

LEMMA SaveProductStep ==
    ASSUME IInv, NEW s \in Sessions, SaveProduct(s)
    PROVE  IInv'
<1>1. CASE SlugTaken(work[s].product, request[s].slug) \/ category[request[s].category] = NoRow
    BY <1>1, LeaveStep DEF SaveProduct
<1>2. CASE ~(SlugTaken(work[s].product, request[s].slug) \/ category[request[s].category] = NoRow)
    <2>1. /\ Goto(s, "images") /\ UNCHANGED tables
          /\ work' = [work EXCEPT ![s] = work[s]]
          /\ work[s] \in Work /\ pc[s] = "save"
          /\ RowFree(Sessions \ {s}, work[s].product) /\ SlugFree(s, request[s].slug)
        BY <1>2 DEF SaveProduct, IInv, TypeOK
    <2>2. /\ "images" \in Statement
          /\ ReadsHold("images", request[s], work[s])
          /\ work[s].row.slug = request[s].slug
        BY <1>2, <2>1 DEF IInv, ReadsHold, Statement
    <2>3. QED
        BY <2>1, <2>2, GotoStep
<1>3. QED
    BY <1>1, <1>2

LEMMA FindProductStep ==
    ASSUME IInv, NEW s \in Sessions, NEW p \in Products, FindProduct(s, p)
    PROVE  IInv'
<1> DEFINE w == [work[s] EXCEPT !.product = p, !.row = product[p]]
<1>1. /\ pc[s] = "find" /\ product[p] # NoRow
      /\ product[p] \in ProductRow
      /\ work[s] \in Work /\ work \in [Sessions -> Work]
      /\ images[p] = product[p].offer
    BY DEF FindProduct, IInv, TypeOK, Public, Live
<1>2. w \in Work /\ w.product = p /\ w.row = product[p]
    BY <1>1 DEF Work
<1>3. /\ Goto(s, "pictures") /\ UNCHANGED tables
      /\ work' = [work EXCEPT ![s] = w]
    BY <1>1 DEF FindProduct, Work
<1> HIDE DEF w
<1>4. "pictures" \in Statement /\ ReadsHold("pictures", request[s], w)
    BY <1>1, <1>2 DEF IInv, ReadsHold, Statement
<1>5. QED
    BY <1>2, <1>3, <1>4, GotoStep

LEMMA ReadImagesStep ==
    ASSUME IInv, NEW s \in Sessions, ReadImages(s)
    PROVE  IInv'
<1>1. PICK found \in {images[work[s].product], NoRow} :
          work' = [work EXCEPT ![s].pictures = found, ![s].product = NoRow]
    BY DEF ReadImages
<1> DEFINE w == [work[s] EXCEPT !.pictures = found, !.product = NoRow]
<1>2. /\ pc[s] = "pictures" /\ Goto(s, "page") /\ UNCHANGED tables
      /\ work[s] \in Work /\ work \in [Sessions -> Work]
      /\ images \in [Products -> Offers \cup {NoRow}]
    BY DEF ReadImages, IInv, TypeOK
<1>3. ReadsHold("pictures", request[s], work[s])
    BY <1>2 DEF IInv
<1>4. found \in Offers \cup {NoRow}
    BY <1>2, <1>3 DEF ReadsHold
<1>5. /\ w \in Work /\ w.pictures = found /\ w.row = work[s].row
      /\ w.overtaken = work[s].overtaken
    BY <1>2, <1>4 DEF Work
<1>6. work' = [work EXCEPT ![s] = w]
    BY <1>1, <1>2 DEF Work
<1> HIDE DEF w
<1>7. "page" \in Statement /\ ReadsHold("page", request[s], w)
    BY <1>3, <1>5 DEF ReadsHold, Statement
<1>8. QED
    BY <1>2, <1>5, <1>6, <1>7, GotoStep

\* All sessions end at once.
LEMMA CrashStep ==
    ASSUME IInv, Crash
    PROVE  IInv'
<1>1. \A s \in Sessions : pc'[s] = "idle"
    BY DEF Crash
<1>2. TypeOK'
    BY NoWorkType DEF Crash, tables, IInv, TypeOK, Statement
<1>3. (\A p \in Products : product[p] # NoRow => images[p] = product[p].offer)'
    BY DEF Crash, tables, IInv
<1>4. (\A s \in Sessions : ReadsHold(pc[s], request[s], work[s]))' /\ SavedApart'
    BY <1>1 DEF ReadsHold, SavedApart
<1>5. QED
    BY <1>2, <1>3, <1>4 DEF IInv

-----------------------------------------------------------------------------
(***************************************************************************)
(* Steps that write a row of products, its images with it.                 *)
(***************************************************************************)

\* Every request ends, or goes on as it was; what it read of product p is
\* overtaken, and it has not saved p or a slug like that of the row.
Followed(p, row) ==
    \A t \in Sessions :
        \/ pc'[t] = "idle"
        \/ /\ pc'[t] = pc[t] /\ request'[t] = request[t]
           /\ work'[t].product = work[t].product /\ work'[t].row = work[t].row
           /\ work'[t].pictures = work[t].pictures
           /\ work[t].overtaken => work'[t].overtaken
           /\ work[t].product = p /\ product[p] # NoRow => work'[t].overtaken
           /\ pc[t] = "images" => work[t].product # p /\ work[t].row.slug # row.slug

LEMMA ProductRowStep ==
    ASSUME IInv, NEW p \in Products, NEW row \in ProductRow,
           product' = [product EXCEPT ![p] = row],
           images' = [images EXCEPT ![p] = row.offer],
           category' = category,
           ~SlugTaken(p, row.slug),
           pc' \in [Sessions -> Statement],
           request' \in [Sessions -> Request \cup {NoRow}],
           work' \in [Sessions -> Work],
           Followed(p, row)
    PROVE  IInv'
<1>1. /\ product \in [Products -> ProductRow \cup {NoRow}]
      /\ images \in [Products -> Offers \cup {NoRow}]
      /\ row.slug \in Slugs /\ row.offer \in Offers /\ row # NoRow
    BY NoRowAssumption DEF IInv, TypeOK, ProductRow
<1>2. \A q \in Products : product'[q] = IF q = p THEN row ELSE product[q]
    BY <1>1
<1>3. \A q \in Products : images'[q] = IF q = p THEN row.offer ELSE images[q]
    BY <1>1
<1>4. TypeOK'
    <2>1. \A q, o \in Products :
              product'[q] # NoRow /\ product'[o] # NoRow /\ q # o => product'[q].slug # product'[o].slug
        BY <1>2 DEF IInv, TypeOK, SlugTaken
    <2>2. /\ product' \in [Products -> ProductRow \cup {NoRow}]
          /\ images' \in [Products -> Offers \cup {NoRow}]
        BY <1>1
    <2>3. QED
        BY <2>1, <2>2 DEF IInv, TypeOK
<1>5. (\A q \in Products : product[q] # NoRow => images[q] = product[q].offer)'
    BY <1>2, <1>3 DEF IInv
<1>6. ASSUME NEW t \in Sessions PROVE ReadsHold(pc[t], request[t], work[t])'
    <2>1. CASE pc'[t] = "idle"
        BY <2>1 DEF ReadsHold
    <2>2. CASE pc'[t] # "idle"
        <3>1. PICK w \in Work, v \in Work : w = work[t] /\ v = work'[t]
            BY DEF IInv, TypeOK
        <3>2. /\ pc'[t] = pc[t] /\ request'[t] = request[t]
              /\ v.product = w.product /\ v.row = w.row /\ v.pictures = w.pictures
              /\ w.overtaken => v.overtaken
              /\ w.product = p /\ product[p] # NoRow => v.overtaken
              /\ pc[t] = "images" => w.product # p /\ w.row.slug # row.slug
            BY <2>2, <3>1 DEF Followed
        <3>3. ReadsHold(pc[t], request[t], w)
            BY <3>1 DEF IInv
        <3>4. pc[t] \in {"save", "images", "pictures"} /\ ~v.overtaken =>
                  w.product \in Products /\ w.product # p
            BY <3>2, <3>3 DEF ReadsHold
        <3>5. pc[t] \in {"save", "images", "pictures"} /\ ~v.overtaken =>
                  /\ w.product \in Public <=> w.product \in Public'
                  /\ images'[w.product] = images[w.product]
            BY <1>2, <1>3, <3>4 DEF Public, Live
        <3>6. pc[t] \in {"save", "images", "pictures"} => product'[w.product] # NoRow
            BY <1>1, <1>2, <3>3 DEF ReadsHold
        <3>7. pc[t] = "images" => ~SlugTaken(w.product, w.row.slug)'
            BY <1>2, <3>2, <3>3 DEF ReadsHold, SlugTaken
        <3>8. ReadsHold(pc[t], request[t], v)'
            BY <3>2, <3>3, <3>5, <3>6, <3>7 DEF ReadsHold, LiveCategory
        <3>9. QED
            BY <3>1, <3>8
    <2>3. QED
        BY <2>1, <2>2
<1>7. SavedApart'
    <2>1. SUFFICES ASSUME NEW t \in Sessions, NEW u \in Sessions, t # u,
                          pc'[t] = "images", pc'[u] = "images"
                   PROVE  /\ work'[t].product # work'[u].product
                          /\ work'[t].row.slug # work'[u].row.slug
        BY DEF SavedApart
    <2>2. /\ pc[t] = "images" /\ work'[t].product = work[t].product /\ work'[t].row = work[t].row
          /\ pc[u] = "images" /\ work'[u].product = work[u].product /\ work'[u].row = work[u].row
        BY <2>1 DEF Followed
    <2>3. QED
        BY <2>1, <2>2 DEF IInv, SavedApart
<1>8. QED
    BY <1>4, <1>5, <1>6, <1>7 DEF IInv

LEMMA InsertProductStep ==
    ASSUME IInv, NEW s \in Sessions, NEW p \in Products, InsertProduct(s, p)
    PROVE  IInv'
<1> DEFINE r == request[s]
           row == [slug |-> r.slug, offer |-> r.offer, category |-> r.category,
                   active |-> CreatedInactive, deleted |-> FALSE]
<1>1. /\ pc[s] = "insert" /\ r \in Request /\ r.kind = "create" /\ product[p] = NoRow
      /\ SlugFree(s, r.slug) /\ ~SlugTaken(p, r.slug)
      /\ pc \in [Sessions -> Statement]
      /\ request \in [Sessions -> Request \cup {NoRow}]
      /\ work \in [Sessions -> Work]
    BY DEF InsertProduct, IInv, TypeOK, ReadsHold
<1>2. row \in ProductRow /\ row.slug = r.slug /\ row.offer = r.offer
    BY <1>1, RequestFields DEF ProductRow, CreatedInactive
<1>3. /\ product' = [product EXCEPT ![p] = row]
      /\ images' = [images EXCEPT ![p] = row.offer]
      /\ category' = category
      /\ pc' = [pc EXCEPT ![s] = "idle"]
      /\ request' = [request EXCEPT ![s] = NoRow]
      /\ work' = [work EXCEPT ![s] = NoWork]
    BY DEF InsertProduct, End
<1>4. /\ pc' \in [Sessions -> Statement]
      /\ request' \in [Sessions -> Request \cup {NoRow}]
      /\ work' \in [Sessions -> Work]
    BY <1>1, <1>3, NoWorkType DEF Statement
<1> HIDE DEF row
<1>5. ASSUME NEW t \in Sessions, t # s, pc[t] = "images"
      PROVE  work[t].product # p /\ work[t].row.slug # row.slug
    BY <1>1, <1>2, <1>5 DEF IInv, ReadsHold, SlugFree
<1>6. Followed(p, row)
    BY <1>1, <1>3, <1>5 DEF Followed
<1>7. QED
    BY <1>1, <1>2, <1>3, <1>4, <1>6, ProductRowStep

\* A reader of product p is overtaken; nothing else of it changes.
LEMMA OvertakenReaders ==
    ASSUME IInv, NEW p \in Products, NEW t \in Sessions
    PROVE  LET w == OvertakeReadersOf(p)[t] IN
           /\ w \in Work /\ w.product = work[t].product /\ w.row = work[t].row
           /\ w.pictures = work[t].pictures
           /\ work[t].overtaken => w.overtaken
           /\ work[t].product = p => w.overtaken
BY DEF OvertakeReadersOf, IInv, TypeOK, Work

LEMMA ReplaceImagesStep ==
    ASSUME IInv, NEW s \in Sessions, ReplaceImages(s)
    PROVE  IInv'
<1> DEFINE p == work[s].product
           row == work[s].row
           o == OvertakeReadersOf(p)
<1>1. /\ pc[s] = "images" /\ p \in Products /\ row \in ProductRow
      /\ ~SlugTaken(p, row.slug)
      /\ pc \in [Sessions -> Statement]
      /\ request \in [Sessions -> Request \cup {NoRow}]
    BY DEF ReplaceImages, IInv, TypeOK, ReadsHold
<1>2. /\ product' = [product EXCEPT ![p] = row]
      /\ images' = [images EXCEPT ![p] = row.offer]
      /\ category' = category
      /\ pc' = [pc EXCEPT ![s] = "idle"]
      /\ request' = [request EXCEPT ![s] = NoRow]
      /\ work' = [o EXCEPT ![s] = NoWork]
    BY DEF ReplaceImages, ImagesReplaced, End
<1>3. \A t \in Sessions :
          /\ o[t] \in Work /\ o[t].product = work[t].product /\ o[t].row = work[t].row
          /\ o[t].pictures = work[t].pictures
          /\ work[t].overtaken => o[t].overtaken
          /\ work[t].product = p => o[t].overtaken
    BY <1>1, OvertakenReaders
<1>4. o = [t \in Sessions |-> o[t]]
    BY DEF OvertakeReadersOf
<1>5. \A t \in Sessions :
          t # s /\ pc[t] = "images" => work[t].product # p /\ work[t].row.slug # row.slug
    BY <1>1 DEF IInv, SavedApart
<1> HIDE DEF o, p, row
<1>6. /\ pc' \in [Sessions -> Statement]
      /\ request' \in [Sessions -> Request \cup {NoRow}]
    BY <1>1, <1>2 DEF Statement
<1>7. work' \in [Sessions -> Work]
    BY <1>2, <1>3, <1>4, NoWorkType
<1>8. Followed(p, row)
    <2>1. \A t \in Sessions : t # s => pc'[t] = pc[t] /\ request'[t] = request[t] /\ work'[t] = o[t]
        BY <1>1, <1>2, <1>4
    <2>2. pc'[s] = "idle"
        BY <1>1, <1>2
    <2>3. QED
        BY <1>3, <1>5, <2>1, <2>2 DEF Followed
<1>9. QED
    BY <1>1, <1>2, <1>6, <1>7, <1>8, ProductRowStep

\* A write to the row of p that no transaction holds, its slug and offer
\* left as they are.
LEMMA HideOrShowStep ==
    ASSUME IInv, NEW p \in Products, NEW row \in ProductRow,
           product[p] # NoRow,
           row.slug = product[p].slug, row.offer = product[p].offer,
           RowFree(Sessions, p),
           product' = [product EXCEPT ![p] = row],
           work' = OvertakeReadersOf(p),
           UNCHANGED <<images, category, pc, request>>
    PROVE  IInv'
<1>1. /\ images' = [images EXCEPT ![p] = row.offer]
      /\ category' = category
      /\ pc' \in [Sessions -> Statement]
      /\ request' \in [Sessions -> Request \cup {NoRow}]
    <2>1. images \in [Products -> Offers \cup {NoRow}] /\ images[p] = row.offer
        BY DEF IInv, TypeOK
    <2>2. QED
        BY <2>1 DEF IInv, TypeOK
<1>2. ~SlugTaken(p, row.slug)
    BY DEF SlugTaken, IInv, TypeOK
<1>3. \A t \in Sessions :
          /\ work'[t] \in Work /\ work'[t].product = work[t].product /\ work'[t].row = work[t].row
          /\ work'[t].pictures = work[t].pictures
          /\ work[t].overtaken => work'[t].overtaken
          /\ work[t].product = p => work'[t].overtaken
    BY OvertakenReaders
<1>4. work' \in [Sessions -> Work]
    BY <1>3 DEF OvertakeReadersOf
<1>5. \A t \in Sessions : pc[t] = "images" => work[t].product # p /\ work[t].row.slug # row.slug
    BY DEF RowFree, IInv, ReadsHold, SlugTaken
<1>6. Followed(p, row)
    BY <1>3, <1>5 DEF Followed
<1>7. QED
    BY <1>1, <1>2, <1>4, <1>6, ProductRowStep

LEMMA DeleteProductStep ==
    ASSUME IInv, NEW p \in Products, DeleteProduct(p)
    PROVE  IInv'
<1> DEFINE row == [product[p] EXCEPT !.deleted = TRUE]
<1>1. product[p] # NoRow /\ product[p] \in ProductRow
    BY DEF DeleteProduct, Live, IInv, TypeOK
<1>2. row \in ProductRow /\ row.slug = product[p].slug /\ row.offer = product[p].offer
    BY <1>1 DEF ProductRow
<1>3. /\ product' = [product EXCEPT ![p] = row]
      /\ work' = OvertakeReadersOf(p)
      /\ UNCHANGED <<images, category, pc, request>>
      /\ RowFree(Sessions, p)
    BY DEF DeleteProduct
<1> HIDE DEF row
<1>4. QED
    BY <1>1, <1>2, <1>3, HideOrShowStep

LEMMA SetActiveStep ==
    ASSUME IInv, NEW p \in Products, NEW active \in BOOLEAN, SetActive(p, active)
    PROVE  IInv'
<1> DEFINE row == [product[p] EXCEPT !.active = active]
<1>1. product[p] # NoRow /\ product[p] \in ProductRow
    BY DEF SetActive, Live, IInv, TypeOK
<1>2. row \in ProductRow /\ row.slug = product[p].slug /\ row.offer = product[p].offer
    BY <1>1 DEF ProductRow
<1>3. /\ product' = [product EXCEPT ![p] = row]
      /\ work' = OvertakeReadersOf(p)
      /\ UNCHANGED <<images, category, pc, request>>
      /\ RowFree(Sessions, p)
    BY DEF SetActive
<1> HIDE DEF row
<1>4. QED
    BY <1>1, <1>2, <1>3, HideOrShowStep

-----------------------------------------------------------------------------
(***************************************************************************)
(* Steps that write a row of categories.                                   *)
(***************************************************************************)

\* Every request ends, or goes on as it was; what it knows of a category
\* that is deleted is overtaken.
CategoryFollowed(k, row) ==
    \A t \in Sessions :
        \/ pc'[t] = "idle"
        \/ /\ pc'[t] = pc[t] /\ request'[t] = request[t]
           /\ work'[t].product = work[t].product /\ work'[t].row = work[t].row
           /\ work'[t].pictures = work[t].pictures
           /\ work[t].overtaken => work'[t].overtaken
           /\ row.deleted /\ pc[t] \in {"insert", "saveCategory"} /\ request[t].category = k =>
                 work'[t].overtaken

LEMMA CategoryRowStep ==
    ASSUME IInv, NEW k \in Categories, NEW row \in CategoryRow,
           category' = [category EXCEPT ![k] = row],
           UNCHANGED <<product, images>>,
           ~CategorySlugTaken(k, row.slug),
           pc' \in [Sessions -> Statement],
           request' \in [Sessions -> Request \cup {NoRow}],
           work' \in [Sessions -> Work],
           CategoryFollowed(k, row)
    PROVE  IInv'
<1>1. category \in [Categories -> CategoryRow \cup {NoRow}] /\ row # NoRow
    BY NoRowAssumption DEF IInv, TypeOK
<1>2. \A m \in Categories : category'[m] = IF m = k THEN row ELSE category[m]
    BY <1>1
<1>3. TypeOK'
    <2>1. \A m, n \in Categories :
              category'[m] # NoRow /\ category'[n] # NoRow /\ m # n => category'[m].slug # category'[n].slug
        BY <1>2 DEF IInv, TypeOK, CategorySlugTaken
    <2>2. category' \in [Categories -> CategoryRow \cup {NoRow}]
        BY <1>1
    <2>3. QED
        BY <2>1, <2>2 DEF IInv, TypeOK
<1>4. (\A p \in Products : product[p] # NoRow => images[p] = product[p].offer)'
    BY DEF IInv
<1>5. ASSUME NEW t \in Sessions PROVE ReadsHold(pc[t], request[t], work[t])'
    <2>1. CASE pc'[t] = "idle"
        BY <2>1 DEF ReadsHold
    <2>2. CASE pc'[t] # "idle"
        <3>1. PICK w \in Work, v \in Work : w = work[t] /\ v = work'[t]
            BY DEF IInv, TypeOK
        <3>2. /\ pc'[t] = pc[t] /\ request'[t] = request[t]
              /\ v.product = w.product /\ v.row = w.row /\ v.pictures = w.pictures
              /\ w.overtaken => v.overtaken
              /\ row.deleted /\ pc[t] \in {"insert", "saveCategory"} /\ request[t].category = k =>
                    v.overtaken
            BY <2>2, <3>1 DEF CategoryFollowed
        <3>3. ReadsHold(pc[t], request[t], w)
            BY <3>1 DEF IInv
        <3>4. pc[t] \in {"insert", "saveCategory"} => request[t].category \in Categories
            BY <3>3, RequestFields DEF ReadsHold
        <3>5. pc[t] \in {"insert", "saveCategory"} => v.overtaken \/ LiveCategory(request[t].category)'
            BY <1>1, <1>2, <3>2, <3>3, <3>4 DEF ReadsHold, LiveCategory
        <3>6. pc[t] = "saveCategory" => category'[request[t].category] # NoRow
            BY <1>1, <1>2, <3>3, <3>4 DEF ReadsHold
        <3>7. ReadsHold(pc[t], request[t], v)'
            BY <3>2, <3>3, <3>5, <3>6 DEF ReadsHold, SlugTaken, Public, Live, LiveCategory
        <3>8. QED
            BY <3>1, <3>7
    <2>3. QED
        BY <2>1, <2>2
<1>6. SavedApart'
    <2>1. \A t \in Sessions :
              pc'[t] = "images" =>
                  pc[t] = "images" /\ work'[t].product = work[t].product /\ work'[t].row = work[t].row
        BY DEF CategoryFollowed
    <2>2. QED
        BY <2>1 DEF IInv, SavedApart
<1>7. QED
    BY <1>3, <1>4, <1>5, <1>6 DEF IInv

LEMMA CreateCategoryStep ==
    ASSUME IInv, NEW k \in Categories, NEW slug \in Slugs, CreateCategory(k, slug)
    PROVE  IInv'
<1> DEFINE row == [slug |-> slug, deleted |-> FALSE]
<1>1. row \in CategoryRow /\ row.slug = slug /\ ~row.deleted
    BY DEF CategoryRow
<1>2. /\ category' = [category EXCEPT ![k] = row]
      /\ UNCHANGED <<product, images, pc, request, work>>
      /\ ~CategorySlugTaken(k, slug)
    BY DEF CreateCategory
<1> HIDE DEF row
<1>3. /\ CategoryFollowed(k, row)
      /\ pc' \in [Sessions -> Statement]
      /\ request' \in [Sessions -> Request \cup {NoRow}]
      /\ work' \in [Sessions -> Work]
    BY <1>1, <1>2 DEF CategoryFollowed, IInv, TypeOK
<1>4. QED
    BY <1>1, <1>2, <1>3, CategoryRowStep

LEMMA DeleteCategoryStep ==
    ASSUME IInv, NEW k \in Categories, DeleteCategory(k)
    PROVE  IInv'
<1> DEFINE row == [category[k] EXCEPT !.deleted = TRUE]
<1>1. category[k] # NoRow /\ category[k] \in CategoryRow
    BY DEF DeleteCategory, LiveCategory, IInv, TypeOK
<1>2. row \in CategoryRow /\ row.slug = category[k].slug
    BY <1>1 DEF CategoryRow
<1>3. category' = [category EXCEPT ![k] = row] /\ UNCHANGED <<product, images, pc, request>>
    BY DEF DeleteCategory
<1> HIDE DEF row
<1>4. ~CategorySlugTaken(k, row.slug)
    BY <1>1, <1>2 DEF CategorySlugTaken, IInv, TypeOK
<1>5. \A t \in Sessions :
          /\ work'[t] \in Work /\ work'[t].product = work[t].product /\ work'[t].row = work[t].row
          /\ work'[t].pictures = work[t].pictures
          /\ work[t].overtaken => work'[t].overtaken
          /\ pc[t] \in {"insert", "saveCategory"} /\ request[t].category = k => work'[t].overtaken
    BY DEF DeleteCategory, OvertakeReadersOfCategory, IInv, TypeOK, Work
<1>6. work' \in [Sessions -> Work]
    BY <1>5 DEF DeleteCategory, OvertakeReadersOfCategory
<1>7. /\ CategoryFollowed(k, row)
      /\ pc' \in [Sessions -> Statement]
      /\ request' \in [Sessions -> Request \cup {NoRow}]
    BY <1>3, <1>5 DEF CategoryFollowed, IInv, TypeOK
<1>8. QED
    BY <1>1, <1>2, <1>3, <1>4, <1>6, <1>7, CategoryRowStep

LEMMA SaveCategoryStep ==
    ASSUME IInv, NEW s \in Sessions, SaveCategory(s)
    PROVE  IInv'
<1> DEFINE r == request[s]
           k == r.category
           row == [slug |-> r.slug, deleted |-> FALSE]
<1>1. CASE CategorySlugTaken(k, r.slug)
    BY <1>1, LeaveStep DEF SaveCategory
<1>2. CASE ~CategorySlugTaken(k, r.slug)
    <2>1. r \in Request /\ r.kind = "updateCategory"
        BY DEF SaveCategory, IInv, ReadsHold
    <2>2. k \in Categories /\ row \in CategoryRow /\ row.slug = r.slug /\ ~row.deleted
        BY <2>1, RequestFields DEF CategoryRow
    <2>3. /\ category' = [category EXCEPT ![k] = row]
          /\ UNCHANGED <<product, images>>
          /\ pc' = [pc EXCEPT ![s] = "idle"]
          /\ request' = [request EXCEPT ![s] = NoRow]
          /\ work' = [work EXCEPT ![s] = NoWork]
        BY <1>2 DEF SaveCategory, End
    <2> HIDE DEF row, k
    <2>4. /\ pc' \in [Sessions -> Statement]
          /\ request' \in [Sessions -> Request \cup {NoRow}]
          /\ work' \in [Sessions -> Work]
        BY <2>3, NoWorkType DEF Statement, IInv, TypeOK
    <2>5. CategoryFollowed(k, row)
        BY <2>2, <2>3 DEF CategoryFollowed, IInv, TypeOK
    <2>6. QED
        BY <1>2, <2>2, <2>3, <2>4, <2>5, CategoryRowStep DEF k
<1>3. QED
    BY <1>1, <1>2

-----------------------------------------------------------------------------
(***************************************************************************)
(* The invariant.                                                          *)
(***************************************************************************)

LEMMA SessionSteps ==
    ASSUME IInv, NEW s \in Sessions, Step(s)
    PROVE  IInv'
<1>1. CASE \E r \in Request : Begin(s, r)
    BY <1>1, BeginStep
<1>2. CASE CheckCategory(s)
    BY <1>2, CheckCategoryStep
<1>3. CASE \E p \in Products : InsertProduct(s, p)
    BY <1>3, InsertProductStep
<1>4. CASE \E p \in Products : FindProduct(s, p)
    BY <1>4, FindProductStep
<1>5. CASE ReadProduct(s)
    BY <1>5, ReadProductStep
<1>6. CASE SaveProduct(s)
    BY <1>6, SaveProductStep
<1>7. CASE ReplaceImages(s)
    BY <1>7, ReplaceImagesStep
<1>8. CASE ReadCategory(s)
    BY <1>8, ReadCategoryStep
<1>9. CASE SaveCategory(s)
    BY <1>9, SaveCategoryStep
<1>10. CASE ReadImages(s)
    BY <1>10, ReadImagesStep
<1>11. CASE FindNoProduct(s) \/ ShowPage(s) \/ Fail(s)
    BY <1>11, LeaveStep DEF FindNoProduct, ShowPage, Fail
<1>12. QED
    BY <1>1, <1>2, <1>3, <1>4, <1>5, <1>6, <1>7, <1>8, <1>9, <1>10, <1>11 DEF Step

\* What is so of tables and sessions stays so while none of them changes.
LEMMA StutterStep ==
    ASSUME IInv, UNCHANGED vars
    PROVE  IInv'
<1>1. TypeOK'
    BY DEF IInv, TypeOK, vars
<1>2. (\A p \in Products : product[p] # NoRow => images[p] = product[p].offer)'
    BY DEF IInv, vars
<1>3. (\A s \in Sessions : ReadsHold(pc[s], request[s], work[s]))'
    BY DEF IInv, vars, ReadsHold, SlugTaken, Public, Live, LiveCategory
<1>4. SavedApart'
    BY DEF IInv, SavedApart, vars
<1>5. QED
    BY <1>1, <1>2, <1>3, <1>4 DEF IInv

LEMMA NextInvariant == IInv /\ [Next]_vars => IInv'
<1>1. SUFFICES ASSUME IInv, [Next]_vars PROVE IInv'
    OBVIOUS
<1>2. CASE \E s \in Sessions : Step(s)
    BY <1>1, <1>2, SessionSteps
<1>3. CASE \E p \in Products : DeleteProduct(p)
    BY <1>1, <1>3, DeleteProductStep
<1>4. CASE \E p \in Products, active \in BOOLEAN : SetActive(p, active)
    BY <1>1, <1>4, SetActiveStep
<1>5. CASE \E k \in Categories : DeleteCategory(k)
    BY <1>1, <1>5, DeleteCategoryStep
<1>6. CASE \E k \in Categories, slug \in Slugs : CreateCategory(k, slug)
    BY <1>1, <1>6, CreateCategoryStep
<1>7. CASE Crash
    BY <1>1, <1>7, CrashStep
<1>8. CASE UNCHANGED vars
    BY <1>1, <1>8, StutterStep
<1>9. QED
    BY <1>1, <1>2, <1>3, <1>4, <1>5, <1>6, <1>7, <1>8 DEF Next, Manage

\* In every state the rows, the images and what requests have read of them
\* fit together (internal/product/service.go:75-177,
\* internal/category/service.go:29-76).
THEOREM CatalogueInvariance == Spec => []IInv
    BY InitInvariant, NextInvariant, PTL DEF Spec

\* However requests overlap, no two rows of a table ever have one slug
\* (migrations/000003_ecommerce_schema.up.sql:43, :55).
THEOREM CatalogueTypeCorrect == Spec => []TypeOK
<1>1. IInv => TypeOK
    BY DEF IInv
<1>2. QED
    BY <1>1, CatalogueInvariance, PTL

\* The images of a product are those of its row, and a page of the shop
\* shows both of one request, or no images at all, unless the product changed
\* between its reads.
THEOREM RowsAndImagesAgree == Spec => []RowAndImagesAgree
<1>1. IInv => RowAndImagesAgree
    BY DEF IInv, RowAndImagesAgree, ReadsHold
<1>2. QED
    BY <1>1, CatalogueInvariance, PTL

-----------------------------------------------------------------------------
(***************************************************************************)
(* What a step may not do.                                                 *)
(***************************************************************************)

\* A session changes the tables by three statements only.
LEMMA SessionWrites ==
    ASSUME NEW s \in Sessions, Step(s)
    PROVE  \/ UNCHANGED tables
           \/ \E p \in Products : InsertProduct(s, p)
           \/ ReplaceImages(s)
           \/ /\ SaveCategory(s) /\ End(s) /\ UNCHANGED <<product, images>>
              /\ category' = [category EXCEPT ![request[s].category] =
                                 [slug |-> request[s].slug, deleted |-> FALSE]]
BY DEF Step, Begin, CheckCategory, FindProduct, ReadProduct, SaveProduct, ReadCategory,
       SaveCategory, FindNoProduct, ReadImages, ShowPage, Fail, Leave

\* p is made public by SetActive or by an update that was overtaken.
MadePublicBy(p) ==
    \/ UNCHANGED <<pc, images>> /\ product' = [product EXCEPT ![p].active = TRUE]
    \/ \E s \in Sessions : /\ pc[s] = "images" /\ pc'[s] = "idle"
                           /\ work[s].product = p
                           /\ work[s].overtaken

LEMMA PublicStep ==
    ASSUME IInv, [Next]_vars, NEW p \in Products, p \notin Public, p \in Public'
    PROVE  MadePublicBy(p)
<1>1. /\ product \in [Products -> ProductRow \cup {NoRow}]
      /\ pc \in [Sessions -> Statement]
    BY DEF IInv, TypeOK
<1>2. product' # product
    BY DEF Public, Live
<1>3. CASE \E s \in Sessions, q \in Products : InsertProduct(s, q)
    <2>1. PICK s \in Sessions, q \in Products : InsertProduct(s, q)
        BY <1>3
    <2>2. q # p => product'[p] = product[p]
        BY <1>1, <2>1 DEF InsertProduct
    <2>3. q = p => ~product'[p].active
        BY <1>1, <2>1 DEF InsertProduct, CreatedInactive
    <2>4. QED
        BY <2>2, <2>3 DEF Public, Live
<1>4. CASE \E s \in Sessions : ReplaceImages(s)
    <2>1. PICK s \in Sessions : ReplaceImages(s)
        BY <1>4
    <2>2. /\ pc[s] = "images" /\ pc'[s] = "idle"
          /\ product' = [product EXCEPT ![work[s].product] = work[s].row]
        BY <1>1, <2>1 DEF ReplaceImages, End
    <2>3. work[s].product = p
        BY <1>1, <2>2 DEF Public, Live
    <2>4. work[s].row.active
        BY <1>1, <2>2, <2>3 DEF Public, Live
    <2>5. work[s].overtaken
        BY <2>2, <2>3, <2>4 DEF IInv, ReadsHold
    <2>6. QED
        BY <2>2, <2>3, <2>5 DEF MadePublicBy
<1>5. CASE \E q \in Products : DeleteProduct(q)
    <2>1. PICK q \in Products : DeleteProduct(q)
        BY <1>5
    <2>2. product[q] \in ProductRow /\ product' = [product EXCEPT ![q].deleted = TRUE]
        BY <1>1, <2>1 DEF DeleteProduct, Live
    <2>3. QED
        BY <1>1, <2>2 DEF Public, Live, ProductRow
<1>6. CASE \E q \in Products, active \in BOOLEAN : SetActive(q, active)
    <2>1. PICK q \in Products, active \in BOOLEAN : SetActive(q, active)
        BY <1>6
    <2>2. /\ product[q] \in ProductRow
          /\ product' = [product EXCEPT ![q].active = active]
          /\ UNCHANGED <<pc, images>>
        BY <1>1, <2>1 DEF SetActive, Live
    <2>3. q = p /\ active = TRUE
        BY <1>1, <2>2 DEF Public, Live, ProductRow
    <2>4. QED
        BY <2>2, <2>3 DEF MadePublicBy
<1>7. CASE UNCHANGED product
    BY <1>2, <1>7
<1>8. QED
    BY <1>3, <1>4, <1>5, <1>6, <1>7, SessionWrites
       DEF Next, Manage, CreateCategory, DeleteCategory, Crash, tables, vars

\* A product that was hidden or deleted is public again only by SetActive or
\* by an Update that read it public before; no Create publishes one
\* (internal/product/service.go:114, :128).
THEOREM PublicOnlyIfOvertaken == Spec => PublicAgainOnlyIfOvertaken
<1>1. IInv /\ [Next]_vars =>
          [\A p \in Products :
              p \notin Public /\ p \in Public' =>
                  \/ UNCHANGED <<pc, images>> /\ product' = [product EXCEPT ![p].active = TRUE]
                  \/ \E s \in Sessions : /\ pc[s] = "images" /\ pc'[s] = "idle"
                                         /\ work[s].product = p
                                         /\ work[s].overtaken]_vars
    BY PublicStep DEF MadePublicBy
<1>2. QED
    BY <1>1, CatalogueInvariance, PTL DEF Spec, PublicAgainOnlyIfOvertaken

\* What may be done with a deleted category k.
StaysDeleted(k) ==
    /\ category'[k].deleted
    /\ \A p \in Products :
          product[p] = NoRow /\ product'[p] # NoRow => product'[p].category # k
UsedByOvertaken(k) ==
    \E s \in Sessions : /\ pc[s] \in {"saveCategory", "insert"} /\ pc'[s] = "idle"
                        /\ request[s].category = k
                        /\ work[s].overtaken

LEMMA CategoryStep ==
    ASSUME IInv, [Next]_vars, NEW k \in Categories, category[k] # NoRow, category[k].deleted
    PROVE  StaysDeleted(k) \/ UsedByOvertaken(k)
<1>1. /\ product \in [Products -> ProductRow \cup {NoRow}]
      /\ category \in [Categories -> CategoryRow \cup {NoRow}]
      /\ pc \in [Sessions -> Statement]
    BY DEF IInv, TypeOK
<1>2. CASE \E s \in Sessions, q \in Products : InsertProduct(s, q)
    <2>1. PICK s \in Sessions, q \in Products : InsertProduct(s, q)
        BY <1>2
    <2>2. /\ pc[s] = "insert" /\ pc'[s] = "idle" /\ category' = category
          /\ product'[q].category = request[s].category
          /\ \A p \in Products \ {q} : product'[p] = product[p]
        BY <1>1, <2>1 DEF InsertProduct, End
    <2>3. CASE request[s].category = k
        BY <2>2, <2>3 DEF IInv, ReadsHold, LiveCategory, UsedByOvertaken
    <2>4. CASE request[s].category # k
        BY <2>2, <2>4 DEF StaysDeleted
    <2>5. QED
        BY <2>3, <2>4
<1>3. CASE \E s \in Sessions : ReplaceImages(s)
    <2>1. PICK s \in Sessions : ReplaceImages(s)
        BY <1>3
    <2>2. /\ product' = [product EXCEPT ![work[s].product] = work[s].row]
          /\ category' = category /\ product[work[s].product] # NoRow
        BY <2>1 DEF ReplaceImages, IInv, ReadsHold
    <2>3. QED
        BY <1>1, <2>2 DEF StaysDeleted
<1>4. CASE \E s \in Sessions :
               /\ SaveCategory(s) /\ End(s) /\ UNCHANGED <<product, images>>
               /\ category' = [category EXCEPT ![request[s].category] =
                                 [slug |-> request[s].slug, deleted |-> FALSE]]
    <2>1. PICK s \in Sessions :
               /\ SaveCategory(s) /\ End(s) /\ UNCHANGED <<product, images>>
               /\ category' = [category EXCEPT ![request[s].category] =
                                 [slug |-> request[s].slug, deleted |-> FALSE]]
        BY <1>4
    <2>2. pc[s] = "saveCategory" /\ pc'[s] = "idle"
        BY <1>1, <2>1 DEF SaveCategory, End
    <2>3. CASE request[s].category = k
        BY <2>2, <2>3 DEF IInv, ReadsHold, LiveCategory, UsedByOvertaken
    <2>4. CASE request[s].category # k
        BY <1>1, <2>1, <2>4 DEF StaysDeleted
    <2>5. QED
        BY <2>3, <2>4
<1>5. CASE \E q \in Products :
               DeleteProduct(q) \/ \E active \in BOOLEAN : SetActive(q, active)
    <2>1. PICK q \in Products :
               DeleteProduct(q) \/ \E active \in BOOLEAN : SetActive(q, active)
        BY <1>5
    <2>2. /\ product[q] # NoRow /\ category' = category
          /\ \A p \in Products \ {q} : product'[p] = product[p]
        BY <1>1, <2>1 DEF DeleteProduct, SetActive, Live
    <2>3. QED
        BY <2>2 DEF StaysDeleted
<1>6. CASE \E m \in Categories :
               DeleteCategory(m) \/ \E slug \in Slugs : CreateCategory(m, slug)
    <2>1. PICK m \in Categories :
               DeleteCategory(m) \/ \E slug \in Slugs : CreateCategory(m, slug)
        BY <1>6
    <2>2. m # k /\ category'[k] = category[k] /\ product' = product
        BY <1>1, <2>1 DEF DeleteCategory, CreateCategory, LiveCategory
    <2>3. QED
        BY <2>2 DEF StaysDeleted
<1>7. CASE UNCHANGED tables
    BY <1>7 DEF StaysDeleted, tables
<1>8. QED
    BY <1>2, <1>3, <1>4, <1>5, <1>6, <1>7, SessionWrites
       DEF Next, Manage, Crash, tables, vars

\* A category that was deleted is used only by requests that looked at it
\* before (internal/category/service.go:47-52, internal/product/service.go:80).
THEOREM DeletedCategoriesStay == Spec => DeletedCategoryOnlyUsedIfOvertaken
<1>1. IInv /\ [Next]_vars =>
          [\A k \in Categories :
              category[k] # NoRow /\ category[k].deleted =>
                  \/ /\ category'[k].deleted
                     /\ \A p \in Products :
                           product[p] = NoRow /\ product'[p] # NoRow => product'[p].category # k
                  \/ \E s \in Sessions : /\ pc[s] \in {"saveCategory", "insert"} /\ pc'[s] = "idle"
                                         /\ request[s].category = k
                                         /\ work[s].overtaken]_vars
    BY CategoryStep DEF StaysDeleted, UsedByOvertaken
<1>2. QED
    BY <1>1, CatalogueInvariance, PTL DEF Spec, DeletedCategoryOnlyUsedIfOvertaken
=============================================================================
