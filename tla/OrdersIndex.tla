---------------------------- MODULE OrdersIndex ----------------------------
(***************************************************************************)
(* The orders index and its two users: OrdersRepository.create, which      *)
(* stamps an order and waits until searches see it, and the pages of       *)
(* GET /api/v1/orders (OrdersController.getOrders, OrdersService.          *)
(* getOrdersPage, OrdersRepository.findPage), read one after the other by  *)
(* a client that follows nextCursor while orders keep arriving.            *)
(*                                                                         *)
(* Elasticsearch is external: a document that is indexed is found by       *)
(* searches only after the next refresh, and an index call with            *)
(* refresh: 'wait_for' is answered after it.                               *)
(***************************************************************************)
EXTENDS Integers, FiniteSets, Sequences

CONSTANTS
    Ids,              \* the UUIDs orders get: compared as strings, in no
                      \* relation to the order in which they are drawn
    MaxClock,         \* bound on the clock (milliseconds)
    Limits,           \* values of the limit parameter, counted in halves:
                      \* Number("2.5") is a limit as good as Number("2")
    DefaultPageSize,
    MaxPageSize,
    NoCursor,         \* the cursor parameter is absent; nextCursor is null
    NotBase64Json,    \* a cursor decodeCursor throws on
    WrongTypes        \* a two-element array of what no search takes as sort values

ASSUME IndexAssumption ==
    /\ Ids \subseteq Nat
    /\ IsFiniteSet(Ids)
    /\ MaxClock \in Nat
    /\ Limits \subseteq Int
    /\ DefaultPageSize \in Nat \ {0}
    /\ MaxPageSize \in Nat \ {0}
    /\ DefaultPageSize <= MaxPageSize
    /\ NoCursor \notin Nat \X Nat
    /\ {NotBase64Json, WrongTypes} \cap ((Nat \X Nat) \cup {NoCursor}) = {}

VARIABLES
    clock,       \* Date.now() of the process
    create,      \* create[i]: how far the create that drew the UUID i is
    createdAt,   \* createdAt[i]: the timestamp of order i
    searchable,  \* what a search sees
    seen,        \* the ids on the pages of the walk so far, in order
    cursor,      \* the nextCursor of the last page; the walk ends without one
    walk,        \* "off", "on" or "done"
    expected     \* history: what a search saw when the walk began

createVars == <<clock, create, createdAt>>
walkVars == <<seen, cursor, walk, expected>>
indexVars == <<createVars, searchable, walkVars>>

-----------------------------------------------------------------------------
(* sort: [{ createdAt: 'desc' }, { id: 'desc' }].  A key is what the       *)
(* cursor holds of an order.                                               *)
Key(i) == <<createdAt[i], i>>

Newer(k, l) == k[1] > l[1] \/ (k[1] = l[1] /\ k[2] > l[2])

Keys == (0..MaxClock) \X Ids

Min2(a, b) == IF a <= b THEN a ELSE b

(* The first size hits in sort order of the orders S strictly after the    *)
(* sort values after.                                                      *)
Hits(S, after, size) ==
    LET matching == {i \in S : after = NoCursor \/ Newer(after, Key(i))}
        rank(i) == Cardinality({j \in matching : Newer(Key(j), Key(i))})
    IN  [n \in 1..Min2(size, Cardinality(matching)) |->
            CHOOSE i \in matching : rank(i) = n - 1]

(* !limit || limit <= 0 ? DEFAULT_PAGE_SIZE : Math.min(limit, MAX_PAGE_SIZE) *)
PageSize(limit) ==
    IF limit <= 0 THEN 2 * DefaultPageSize ELSE Min2(limit, 2 * MaxPageSize)

Page(items, next) == [status |-> 200, items |-> items, next |-> next]
NoPage(status) == [status |-> status, items |-> <<>>, next |-> NoCursor]

(* Bugs: the cursor of the first hit, of the hit past the page, and its    *)
(* halves swapped.                                                         *)
FirstAsCursor(hits, pageHits) == Key(pageHits[1])
LastHitAsCursor(hits, pageHits) == Key(hits[Len(hits)])
SwappedCursor(hits, pageHits) ==
    <<pageHits[Len(pageHits)], createdAt[pageHits[Len(pageHits)]]>>

(* nextCursorValues: the sort values of the last hit of the page. *)
NextCursor(hits, pageHits) == Key(pageHits[Len(pageHits)])

(* findPage with a page size of halves.  Elasticsearch and slice() both    *)
(* round a fraction down; the comparison with the number of hits does not. *)
(* The sort values of the last hit of an empty slice are a TypeError.      *)
FindPage(S, after, halves) ==
    LET hits == Hits(S, after, (halves + 2) \div 2)
        hasMore == 2 * Len(hits) > halves
        pageHits == IF hasMore THEN SubSeq(hits, 1, halves \div 2) ELSE hits
    IN  CASE ~ hasMore -> Page(pageHits, NoCursor)
          [] hasMore /\ pageHits # <<>> -> Page(pageHits, NextCursor(hits, pageHits))
          [] OTHER -> NoPage(500)

(* Bug: decodeCursor wants two strings, as the type SortValues says, but    *)
(* the first sort value of a hit is a number.                              *)
StringTuplesOnly(S, cursorParam, limit) ==
    IF cursorParam = NoCursor THEN FindPage(S, NoCursor, PageSize(limit)) ELSE NoPage(400)

(* decodeCursor accepts every JSON array of two elements. *)
DecodeCursorThrows(cursorParam) == cursorParam = NotBase64Json

(* What decodeCursor throws is a 400.  A search refuses two elements that  *)
(* are no sort values, with an error that is no HttpException.             *)
GetOrdersPage(S, cursorParam, limit) ==
    CASE DecodeCursorThrows(cursorParam) -> NoPage(400)
      [] cursorParam = WrongTypes -> NoPage(500)
      [] OTHER -> FindPage(S, cursorParam, PageSize(limit))

-----------------------------------------------------------------------------
IndexInit ==
    /\ clock = 0
    /\ create = [i \in Ids |-> "new"]
    /\ createdAt = [i \in Ids |-> 0]
    /\ searchable = {}
    /\ seen = <<>>
    /\ cursor = NoCursor
    /\ walk = "off"
    /\ expected = {}

Tick ==
    /\ clock < MaxClock
    /\ clock' = clock + 1
    /\ UNCHANGED <<create, createdAt, searchable, walkVars>>

(* OrdersRepository.create: the order is stamped before the index call. *)
Create(i) ==
    /\ create[i] = "new"
    /\ create' = [create EXCEPT ![i] = "sent"]
    /\ createdAt' = [createdAt EXCEPT ![i] = clock]
    /\ UNCHANGED <<clock, searchable, walkVars>>

(* Elasticsearch takes the document.  The client's retries carry the same  *)
(* id and overwrite it with itself.                                        *)
Index(i) ==
    /\ create[i] = "sent"
    /\ create' = [create EXCEPT ![i] = "indexed"]
    /\ UNCHANGED <<clock, createdAt, searchable, walkVars>>

Refresh ==
    /\ searchable' = {i \in Ids : create[i] \in {"indexed", "answered"}}
    /\ UNCHANGED <<createVars, walkVars>>

(* Bug: without refresh: 'wait_for'. *)
AnsweredAtOnce(i) ==
    /\ create[i] = "indexed"
    /\ create' = [create EXCEPT ![i] = "answered"]
    /\ UNCHANGED <<clock, createdAt, searchable, walkVars>>

(* wait_for: the create returns, and the client gets its 201. *)
Answered(i) ==
    /\ create[i] = "indexed"
    /\ i \in searchable
    /\ create' = [create EXCEPT ![i] = "answered"]
    /\ UNCHANGED <<clock, createdAt, searchable, walkVars>>

StartWalk ==
    /\ walk = "off"
    /\ walk' = "on"
    /\ expected' = searchable
    /\ UNCHANGED <<createVars, searchable, seen, cursor>>

(* GET /api/v1/orders?cursor=<the last nextCursor>&limit=<any>.  A page    *)
(* that is refused leaves the walk where it is.                            *)
ReadPage(limit) ==
    LET response == GetOrdersPage(searchable, cursor, limit)
    IN  /\ walk = "on"
        /\ response.status = 200
        /\ seen' = seen \o response.items
        /\ cursor' = response.next
        /\ walk' = IF response.next = NoCursor THEN "done" ELSE "on"
        /\ UNCHANGED <<createVars, searchable, expected>>

IndexNext ==
    \/ Tick
    \/ \E i \in Ids : Create(i) \/ Index(i) \/ Answered(i)
    \/ Refresh
    \/ StartWalk
    \/ \E limit \in Limits : ReadPage(limit)

IndexSpec == IndexInit /\ [][IndexNext]_indexVars

(* A client that has begun reads on, now and then with a whole limit. *)
WalkFairness == \A limit \in {l \in Limits : l >= 2} : WF_indexVars(ReadPage(limit))

FairIndexSpec == IndexSpec /\ WalkFairness

-----------------------------------------------------------------------------
IndexTypeOK ==
    /\ clock \in 0..MaxClock
    /\ create \in [Ids -> {"new", "sent", "indexed", "answered"}]
    /\ createdAt \in [Ids -> 0..MaxClock]
    /\ searchable \subseteq Ids
    /\ seen \in Seq(Ids)
    /\ cursor \in Keys \cup {NoCursor}
    /\ walk \in {"off", "on", "done"}
    /\ expected \subseteq Ids

(* The pages of a walk list orders newest first and none twice, across the *)
(* page boundaries, however many orders become searchable between two      *)
(* pages, also with the timestamp of the cursor.                           *)
WalkIsOrdered ==
    \A m, n \in 1..Len(seen) : m < n => Newer(Key(seen[m]), Key(seen[n]))

(* A walk that has ended has shown every order that was searchable when it *)
(* began: none falls between two pages.                                    *)
WalkIsComplete ==
    walk = "done" => \A i \in expected : \E n \in 1..Len(seen) : seen[n] = i

(* An order whose create was answered with 201 is on the pages of every    *)
(* walk that begins afterwards (orders.repository.ts 149-152).             *)
AnsweredIsListed == \A i \in Ids : create[i] = "answered" => i \in searchable

(* A walk ends, although orders keep arriving: no page gives a cursor that *)
(* leads back to itself.                                                   *)
WalkEnds == walk = "on" ~> walk = "done"

-----------------------------------------------------------------------------
(* A claim the code does not keep: orders.e2e-spec.ts 177 and              *)
(* orders.service.spec.ts 64 say that a malformed cursor is rejected with  *)
(* 400 instead of reaching Elasticsearch.                                  *)
MalformedCursorIsRejected ==
    \A c \in {NotBase64Json, WrongTypes}, limit \in Limits :
        GetOrdersPage(searchable, c, limit).status = 400
=============================================================================
