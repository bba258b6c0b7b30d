------------------------------- MODULE Catalogue -------------------------------
(***************************************************************************)
(* Products with their images, and categories, as administrators write and *)
(* the public reads them, statement by statement where statements of one   *)
(* request can be told apart: Create looks at the category before its      *)
(* transaction, Update of either table writes back a row it read before,   *)
(* and a page of the shop reads the row first and the images afterwards.   *)
(* Stock is the subject of Commerce.                                       *)
(***************************************************************************)
CONSTANTS
    Products,    \* identifiers a product may get
    Categories,  \* identifiers a category may get
    Slugs,       \* the slugs requests name, in lower case
    Offers,      \* what else a product request writes: name, prices, images
    Sessions,    \* database connections that serve requests
    NoRow

VARIABLES
    product,   \* the products table
    images,    \* the offer whose images are in product_images
    category,  \* the categories table
    pc,        \* the statement a session executes next
    request,   \* the request a session serves
    work       \* what its statements have read

tables == <<product, images, category>>
vars == <<product, images, category, pc, request, work>>

ProductRow ==
    [slug : Slugs, offer : Offers, category : Categories,
     active : BOOLEAN, deleted : BOOLEAN]
CategoryRow == [slug : Slugs, deleted : BOOLEAN]

Request ==
    [kind : {"create"}, slug : Slugs, offer : Offers, category : Categories]
    \cup [kind : {"update"}, product : Products, slug : Slugs, offer : Offers,
          category : Categories]
    \cup [kind : {"updateCategory"}, category : Categories, slug : Slugs]
    \cup [kind : {"detail"}, slug : Slugs]

ASSUME NoRowAssumption ==
    NoRow \notin ProductRow \cup CategoryRow \cup Request \cup Offers \cup Products

\* product, row: the product read, and its row as it is or is to be written;
\* pictures: the offer whose images a page shows, NoRow for none.  overtaken
\* only observes: what was read has been changed since.
Work == [product : Products \cup {NoRow}, row : ProductRow \cup {NoRow},
         pictures : Offers \cup {NoRow}, overtaken : BOOLEAN]
NoWork == [product |-> NoRow, row |-> NoRow, pictures |-> NoRow, overtaken |-> FALSE]

Statement ==
    {"idle", "check", "insert", "read", "save", "images",
     "readCategory", "saveCategory", "find", "pictures", "page"}
FirstStatement ==
    [create |-> "check", update |-> "read", updateCategory |-> "readCategory",
     detail |-> "find"]

-----------------------------------------------------------------------------
Live(p) == product[p] # NoRow /\ ~product[p].deleted
Public == {p \in Products : Live(p) /\ product[p].active}

\* Mutant: the category is found though deleted_at is set.
CategoryThoughDeleted(k) == category[k] # NoRow

LiveCategory(k) == category[k] # NoRow /\ ~category[k].deleted

\* An Update that has saved holds the row to its end; no session of S does.
RowFree(S, p) == \A t \in S : ~(pc[t] = "images" /\ work[t].product = p)

\* Mutant: the column has no unique index.
SlugNeverTaken(p, slug) == FALSE

\* The unique index counts deleted rows too.
SlugTaken(p, slug) ==
    \E q \in Products \ {p} : product[q] # NoRow /\ product[q].slug = slug

\* An Update that has saved takes a slug and gives one up: the next writer
\* of either waits.
SlugFree(s, slug) ==
    \A t \in Sessions \ {s} :
        pc[t] = "images" => slug \notin {work[t].row.slug, product[work[t].product].slug}

CategorySlugTaken(k, slug) ==
    \E m \in Categories \ {k} : category[m] # NoRow /\ category[m].slug = slug

Goto(s, label) ==
    /\ pc' = [pc EXCEPT ![s] = label]
    /\ UNCHANGED request

End(s) ==
    /\ pc' = [pc EXCEPT ![s] = "idle"]
    /\ request' = [request EXCEPT ![s] = NoRow]

\* The request ends and has written nothing.
Leave(s) ==
    /\ End(s)
    /\ work' = [work EXCEPT ![s] = NoWork]
    /\ UNCHANGED tables

Begin(s, r) ==
    /\ pc[s] = "idle"
    /\ pc' = [pc EXCEPT ![s] = FirstStatement[r.kind]]
    /\ request' = [request EXCEPT ![s] = r]
    /\ UNCHANGED <<work, tables>>

\* The requests that have read product p, or category k, are overtaken.
OvertakeReadersOf(p) ==
    [t \in Sessions |-> [work[t] EXCEPT !.overtaken = @ \/ work[t].product = p]]
OvertakeReadersOfCategory(k) ==
    [t \in Sessions |->
        [work[t] EXCEPT !.overtaken =
            @ \/ (pc[t] \in {"insert", "saveCategory"} /\ request[t].category = k)]]

-----------------------------------------------------------------------------
(***************************************************************************)
(* Products: Create.                                                       *)
(***************************************************************************)

\* The category is looked up outside the transaction.
CheckCategory(s) ==
    /\ pc[s] = "check"
    /\ IF LiveCategory(request[s].category)
       THEN Goto(s, "insert") /\ UNCHANGED <<work, tables>>
       ELSE Leave(s)

\* Mutant: a product can be bought as soon as it is made.
CreatedActive == TRUE

\* is_active has the default of the column.
CreatedInactive == FALSE

\* The row and its images become visible together; a slug that is taken
\* fails the request.
InsertProduct(s, p) ==
    LET r == request[s] IN
    /\ pc[s] = "insert"
    /\ product[p] = NoRow
    /\ SlugFree(s, r.slug)
    /\ ~SlugTaken(p, r.slug)
    /\ product' = [product EXCEPT ![p] =
           [slug |-> r.slug, offer |-> r.offer, category |-> r.category,
            active |-> CreatedInactive, deleted |-> FALSE]]
    /\ images' = [images EXCEPT ![p] = r.offer]
    /\ End(s)
    /\ work' = [work EXCEPT ![s] = NoWork]
    /\ UNCHANGED category

-----------------------------------------------------------------------------
(***************************************************************************)
(* Products: Update, Delete, SetActive.                                    *)
(***************************************************************************)

\* The row is read before the transaction; everything but is_active is
\* replaced in memory.
ReadProduct(s) ==
    LET r == request[s] IN
    /\ pc[s] = "read"
    /\ IF Live(r.product)
       THEN /\ Goto(s, "save")
            /\ work' = [work EXCEPT
                   ![s].product = r.product,
                   ![s].row = [slug |-> r.slug, offer |-> r.offer, category |-> r.category,
                               active |-> product[r.product].active, deleted |-> FALSE]]
            /\ UNCHANGED tables
       ELSE Leave(s)

\* Save: the UPDATE waits for the lock of the row and, if another writer has
\* the slug, for its end.  It is refused for a slug of another row or a
\* category that has never been.  What it writes is seen when it commits.
SaveProduct(s) ==
    LET p == work[s].product
        r == request[s]
    IN  /\ pc[s] = "save"
        /\ RowFree(Sessions \ {s}, p)
        /\ SlugFree(s, r.slug)
        /\ IF SlugTaken(p, r.slug) \/ category[r.category] = NoRow
           THEN Leave(s)
           ELSE Goto(s, "images") /\ UNCHANGED <<work, tables>>

\* Mutant: the images of the row are left as they are.
ImagesKept(p, offer) == images

ImagesReplaced(p, offer) == [images EXCEPT ![p] = offer]

\* The images are replaced and the transaction commits.  Save has written
\* the whole row, deleted_at included.
ReplaceImages(s) ==
    LET p == work[s].product IN
    /\ pc[s] = "images"
    /\ product' = [product EXCEPT ![p] = work[s].row]
    /\ images' = ImagesReplaced(p, work[s].row.offer)
    /\ End(s)
    /\ work' = [OvertakeReadersOf(p) EXCEPT ![s] = NoWork]
    /\ UNCHANGED category

DeleteProduct(p) ==
    /\ Live(p)
    /\ RowFree(Sessions, p)
    /\ product' = [product EXCEPT ![p].deleted = TRUE]
    /\ work' = OvertakeReadersOf(p)
    /\ UNCHANGED <<images, category, pc, request>>

SetActive(p, active) ==
    /\ Live(p)
    /\ RowFree(Sessions, p)
    /\ product' = [product EXCEPT ![p].active = active]
    /\ work' = OvertakeReadersOf(p)
    /\ UNCHANGED <<images, category, pc, request>>

-----------------------------------------------------------------------------
(***************************************************************************)
(* Categories.                                                             *)
(***************************************************************************)

CreateCategory(k, slug) ==
    /\ category[k] = NoRow
    /\ ~CategorySlugTaken(k, slug)
    /\ category' = [category EXCEPT ![k] = [slug |-> slug, deleted |-> FALSE]]
    /\ UNCHANGED <<product, images, pc, request, work>>

\* The products of the category keep it.
DeleteCategory(k) ==
    /\ LiveCategory(k)
    /\ category' = [category EXCEPT ![k].deleted = TRUE]
    /\ work' = OvertakeReadersOfCategory(k)
    /\ UNCHANGED <<product, images, pc, request>>

ReadCategory(s) ==
    /\ pc[s] = "readCategory"
    /\ IF LiveCategory(request[s].category)
       THEN Goto(s, "saveCategory") /\ UNCHANGED <<work, tables>>
       ELSE Leave(s)

\* Save writes the whole row that was read, deleted_at included.
SaveCategory(s) ==
    LET r == request[s] IN
    /\ pc[s] = "saveCategory"
    /\ IF CategorySlugTaken(r.category, r.slug)
       THEN Leave(s)
       ELSE /\ category' = [category EXCEPT ![r.category] =
                               [slug |-> r.slug, deleted |-> FALSE]]
            /\ End(s)
            /\ work' = [work EXCEPT ![s] = NoWork]
            /\ UNCHANGED <<product, images>>

-----------------------------------------------------------------------------
(***************************************************************************)
(* What the public reads.                                                  *)
(***************************************************************************)

\* DetailBySlug reads the row, then the images.
FindProduct(s, p) ==
    /\ pc[s] = "find"
    /\ p \in Public
    /\ product[p].slug = request[s].slug
    /\ Goto(s, "pictures")
    /\ work' = [work EXCEPT ![s].product = p, ![s].row = product[p]]
    /\ UNCHANGED tables

FindNoProduct(s) ==
    /\ pc[s] = "find"
    /\ \A p \in Public : product[p].slug # request[s].slug
    /\ Leave(s)

\* The images of the product that was found.  A query that fails is not looked
\* at: the page is shown without images.
ReadImages(s) ==
    /\ pc[s] = "pictures"
    /\ Goto(s, "page")
    /\ \E found \in {images[work[s].product], NoRow} :
           work' = [work EXCEPT ![s].pictures = found, ![s].product = NoRow]
    /\ UNCHANGED tables

ShowPage(s) == pc[s] = "page" /\ Leave(s)

\* A statement of any other request fails, or its connection breaks.
Fail(s) == pc[s] \notin {"idle", "pictures", "page"} /\ Leave(s)

\* The server stops: no request goes on, and none has written anything.
Crash ==
    /\ pc' = [s \in Sessions |-> "idle"]
    /\ request' = [s \in Sessions |-> NoRow]
    /\ work' = [s \in Sessions |-> NoWork]
    /\ UNCHANGED tables

-----------------------------------------------------------------------------
Init ==
    /\ product = [p \in Products |-> NoRow]
    /\ images = [p \in Products |-> NoRow]
    /\ category = [k \in Categories |-> NoRow]
    /\ pc = [s \in Sessions |-> "idle"]
    /\ request = [s \in Sessions |-> NoRow]
    /\ work = [s \in Sessions |-> NoWork]

Step(s) ==
    \/ \E r \in Request : Begin(s, r)
    \/ CheckCategory(s)
    \/ \E p \in Products : InsertProduct(s, p) \/ FindProduct(s, p)
    \/ ReadProduct(s)
    \/ SaveProduct(s)
    \/ ReplaceImages(s)
    \/ ReadCategory(s)
    \/ SaveCategory(s)
    \/ FindNoProduct(s)
    \/ ReadImages(s)
    \/ ShowPage(s)
    \/ Fail(s)

Manage ==
    \/ \E p \in Products : DeleteProduct(p) \/ \E active \in BOOLEAN : SetActive(p, active)
    \/ \E k \in Categories : DeleteCategory(k) \/ \E slug \in Slugs : CreateCategory(k, slug)

Next == (\E s \in Sessions : Step(s)) \/ Manage \/ Crash

Spec == Init /\ [][Next]_vars

-----------------------------------------------------------------------------
(***************************************************************************)
(* Properties.                                                             *)
(***************************************************************************)

\* Rows are rows, and no two of them have a slug in common, deleted rows
\* included: requests that overlap cannot both take it.
TypeOK ==
    /\ product \in [Products -> ProductRow \cup {NoRow}]
    /\ images \in [Products -> Offers \cup {NoRow}]
    /\ category \in [Categories -> CategoryRow \cup {NoRow}]
    /\ pc \in [Sessions -> Statement]
    /\ request \in [Sessions -> Request \cup {NoRow}]
    /\ work \in [Sessions -> Work]
    /\ \A p, q \in Products :
           product[p] # NoRow /\ product[q] # NoRow /\ p # q => product[p].slug # product[q].slug
    /\ \A k, m \in Categories :
           category[k] # NoRow /\ category[m] # NoRow /\ k # m => category[k].slug # category[m].slug

\* The row of a product and its images always come from one request, however
\* many updates overlap, fail or bring the product back; and a page of the
\* shop shows a product with the images of its offer, or with none if their
\* query failed, unless the product changes between the two statements
\* (internal/product/service.go:127-143, :245-251).
RowAndImagesAgree ==
    /\ \A p \in Products : product[p] # NoRow => images[p] = product[p].offer
    /\ \A s \in Sessions :
           pc[s] = "page" /\ ~work[s].overtaken =>
               work[s].pictures \in {work[s].row.offer, NoRow}

\* A product becomes public by SetActive, or by an Update that had read it
\* public before it was hidden or deleted; not by an Update that nothing
\* overtakes, and not by Create (internal/product/service.go:114, :128).
PublicAgainOnlyIfOvertaken ==
    [][\A p \in Products :
          p \notin Public /\ p \in Public' =>
              \/ UNCHANGED <<pc, images>> /\ product' = [product EXCEPT ![p].active = TRUE]
              \/ \E s \in Sessions : /\ pc[s] = "images" /\ pc'[s] = "idle"
                                     /\ work[s].product = p
                                     /\ work[s].overtaken]_vars

\* A deleted category comes back only by an Update that read it before it
\* was deleted, and a product is made in a deleted category only by a Create
\* that looked at the category before (internal/category/service.go:47-52,
\* internal/product/service.go:80).
DeletedCategoryOnlyUsedIfOvertaken ==
    [][\A k \in Categories :
          category[k] # NoRow /\ category[k].deleted =>
              \/ /\ category'[k].deleted
                 /\ \A p \in Products :
                       product[p] = NoRow /\ product'[p] # NoRow => product'[p].category # k
              \/ \E s \in Sessions : /\ pc[s] \in {"saveCategory", "insert"} /\ pc'[s] = "idle"
                                     /\ request[s].category = k
                                     /\ work[s].overtaken]_vars

-----------------------------------------------------------------------------
(***************************************************************************)
(* The inductive invariants that the properties above follow from.         *)
(***************************************************************************)

\* What a request has read was so, and is so still unless it was overtaken.
ReadsHold(label, r, w) ==
    /\ label # "idle" => r \in Request
    /\ label \in {"check", "insert"} => r.kind = "create"
    /\ label \in {"read", "save", "images"} => r.kind = "update"
    /\ label \in {"readCategory", "saveCategory"} => r.kind = "updateCategory"
    /\ label \in {"find", "pictures", "page"} => r.kind = "detail"
    /\ label \in {"save", "images", "pictures"} =>
          w.product \in Products /\ w.row \in ProductRow /\ product[w.product] # NoRow
    /\ label \in {"save", "images"} =>
          /\ w.row.slug = r.slug
          /\ w.overtaken \/ (w.product \in Public <=> w.row.active)
    /\ label = "images" => ~SlugTaken(w.product, w.row.slug)
    /\ label = "pictures" => w.overtaken \/ images[w.product] = w.row.offer
    /\ label = "page" => w.row \in ProductRow
                         /\ (w.overtaken \/ w.pictures \in {w.row.offer, NoRow})
    /\ label \in {"insert", "saveCategory"} => w.overtaken \/ LiveCategory(r.category)
    /\ label = "saveCategory" => category[r.category] # NoRow

\* Updates that have saved hold different rows and different slugs.
SavedApart ==
    \A s, t \in Sessions :
        s # t /\ pc[s] = "images" /\ pc[t] = "images" =>
            /\ work[s].product # work[t].product
            /\ work[s].row.slug # work[t].row.slug

IInv ==
    /\ TypeOK
    /\ \A p \in Products : product[p] # NoRow => images[p] = product[p].offer
    /\ \A s \in Sessions : ReadsHold(pc[s], request[s], work[s])
    /\ SavedApart
=============================================================================
