---------------------------- MODULE CatalogPages ----------------------------
(***************************************************************************)
(* GET /api/v1/categories/{id}/products: keyset pages over the products of *)
(* one category, and a client that follows nextCursor.                     *)
(*                                                                         *)
(* CategoryRepository asks the database twice for a page, first how many   *)
(* products there are and then for those after the cursor; the catalog may *)
(* change in between and between pages.  InMemoryCategoryRepository has    *)
(* the same two steps over a catalog that never changes.                   *)
(***************************************************************************)
EXTENDS Integers, FiniteSets

CONSTANTS
    MaxId,            \* bound on the ids of products
    Limits,           \* values of the "limit" parameter; 0 also when it is absent
    DefaultPageSize,
    MaxPageSize

ASSUME PagesAssumption ==
    /\ MaxId \in Nat
    /\ Limits \subseteq Int
    /\ DefaultPageSize \in Nat \ {0}
    /\ MaxPageSize \in Nat \ {0}

VARIABLES
    products,  \* the ids of the category's products in the database
    stage,     \* of the client's walk and its request
    pageSize,  \* of the request that has been counted
    total,     \* meta.total of the last page asked for
    cursor,    \* nextCursor of the last page; 0 before the first one
    shown,     \* the products of the pages the client got on this walk
    steady,    \* history: the products that were there all the walk long
    calm       \* history: the catalog has not changed on this walk

pagesVars == <<products, stage, pageSize, total, cursor, shown, steady, calm>>

Ids == 1..MaxId  \* an identity column: no product has id 0

(* Bug: no upper limit. *)
PageSizeUnbounded(limit) == IF limit <= 0 THEN DefaultPageSize ELSE limit

PageSize(limit) == IF limit <= 0 THEN DefaultPageSize
                   ELSE IF limit <= MaxPageSize THEN limit ELSE MaxPageSize

(* Bug: the page begins with the cursor's product. *)
FromCursor == {p \in products : p >= cursor}

(* The products the page query may return, and the page itself: the first  *)
(* size of them.  The query takes one more, to tell whether there is more. *)
AfterCursor == {p \in products : p > cursor}
HasMore(size) == Cardinality(AfterCursor) > size
Page(size) == {p \in AfterCursor : Cardinality({q \in AfterCursor : q < p}) < size}

-----------------------------------------------------------------------------
PagesInit ==
    /\ products \in SUBSET Ids
    /\ stage = "between"
    /\ pageSize = DefaultPageSize
    /\ total = 0
    /\ cursor = 0
    /\ shown = {}
    /\ steady = products
    /\ calm = TRUE

(* Bug: the cursor also bounds what is counted. *)
CountAfterCursor(limit) ==
    /\ stage = "between"
    /\ stage' = "counted"
    /\ pageSize' = PageSize(limit)
    /\ total' = Cardinality(AfterCursor)
    /\ UNCHANGED <<products, cursor, shown, steady, calm>>

(* The client asks for a page, and CountAsync returns. *)
Count(limit) ==
    /\ stage = "between"
    /\ stage' = "counted"
    /\ pageSize' = PageSize(limit)
    /\ total' = Cardinality(products)
    /\ UNCHANGED <<products, cursor, shown, steady, calm>>

(* Bug: the cursor is the row that only shows that there is more. *)
ReadPageSkipping ==
    /\ stage = "counted"
    /\ shown' = shown \cup Page(pageSize)
    /\ IF HasMore(pageSize)
       THEN /\ stage' = "between"
            /\ \E last \in Page(pageSize + 1) :
                  /\ \A p \in Page(pageSize + 1) : p <= last
                  /\ cursor' = last
       ELSE stage' = "done" /\ UNCHANGED cursor
    /\ UNCHANGED <<products, pageSize, total, steady, calm>>

(* ToListAsync returns, and the page is answered: its last product is the  *)
(* cursor if there is more.                                                *)
ReadPage ==
    /\ stage = "counted"
    /\ shown' = shown \cup Page(pageSize)
    /\ IF HasMore(pageSize)
       THEN /\ stage' = "between"
            /\ \E last \in Page(pageSize) :
                  /\ \A p \in Page(pageSize) : p <= last
                  /\ cursor' = last
       ELSE stage' = "done" /\ UNCHANGED cursor
    /\ UNCHANGED <<products, pageSize, total, steady, calm>>

(* A query throws or the answer is lost: the client asks for the same page *)
(* again.                                                                  *)
Lose ==
    /\ stage = "counted"
    /\ stage' = "between"
    /\ UNCHANGED <<products, pageSize, total, cursor, shown, steady, calm>>

(* A client begins a walk at the first page, or begins anew. *)
StartOver ==
    /\ stage # "counted"
    /\ stage' = "between"
    /\ cursor' = 0
    /\ shown' = {}
    /\ steady' = products
    /\ calm' = TRUE
    /\ UNCHANGED <<products, pageSize, total>>

(* The catalog is edited in the database. *)
Insert(p) ==
    /\ p \notin products
    /\ products' = products \cup {p}
    /\ calm' = FALSE
    /\ UNCHANGED <<stage, pageSize, total, cursor, shown, steady>>

Delete(p) ==
    /\ p \in products
    /\ products' = products \ {p}
    /\ steady' = steady \ {p}
    /\ calm' = FALSE
    /\ UNCHANGED <<stage, pageSize, total, cursor, shown>>

GoOn == \E limit \in Limits : Count(limit)

PagesNext ==
    \/ GoOn
    \/ ReadPage
    \/ Lose
    \/ StartOver
    \/ \E p \in Ids : Insert(p) \/ Delete(p)

PagesSpec == PagesInit /\ [][PagesNext]_pagesVars

(* The client goes on, and not every query fails. *)
PagesFairness == WF_pagesVars(GoOn) /\ SF_pagesVars(ReadPage)

FairPagesSpec == PagesSpec /\ PagesFairness

-----------------------------------------------------------------------------
PagesTypeOK ==
    /\ products \in SUBSET Ids
    /\ stage \in {"between", "counted", "done"}
    /\ pageSize \in 1..(IF DefaultPageSize < MaxPageSize THEN MaxPageSize ELSE DefaultPageSize)
    /\ total \in Nat
    /\ cursor \in {0} \cup Ids
    /\ shown \in SUBSET Ids
    /\ steady \in SUBSET products
    /\ calm \in BOOLEAN

(* "Results don't shift under concurrent inserts"                          *)
(* (ICategoryRepository.cs 14): a walk that came to the last page has      *)
(* shown every product that was there from its first request to its end,   *)
(* whatever page sizes it asked for, whichever answers it lost and         *)
(* whatever was inserted or deleted on both sides of the cursor.           *)
(* CategoryRepository.cs 38-57.                                            *)
WalkShowsAll == stage = "done" => steady \subseteq shown

(* If nothing was edited meanwhile, the walk showed the whole category and *)
(* nothing else, and as many products as its last page said there were:    *)
(* meta.total does not depend on where the page is.  Lines 28-36.          *)
TotalIsOfTheCategory ==
    calm /\ stage = "done" => shown = products /\ total = Cardinality(shown)

(* Until the last page is there, whatever a query may return next comes    *)
(* after everything the walk has shown: no product comes twice, and none   *)
(* out of order.  Lines 38-46.                                             *)
NothingComesAgain ==
    stage # "done" => \A p \in shown, q \in AfterCursor : p < q

(* A walk past its first page ends or is given up, however many products   *)
(* are inserted in front of it.                                            *)
WalkComesToAnEnd == cursor > 0 /\ stage # "done" ~> (stage = "done" \/ cursor = 0)
=============================================================================
