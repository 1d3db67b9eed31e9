------------------------- MODULE CatalogReads_proofs -------------------------
(***************************************************************************)
(* The two reads of the catalog API, for any number of calls, any time to  *)
(* live and any time a query takes, and for any number of products, any    *)
(* limits and page sizes: how old an answer of the cached categories may   *)
(* be, and what a walk over the pages of a category shows.                 *)
(***************************************************************************)
EXTENDS CatalogCache, CatalogPages, FiniteSetTheorems, TLAPS

(* The catalog that is in the database, and those to come, have not been   *)
(* replaced.                                                               *)
CurrentIsNew == \A v \in Catalogs : v >= catalog => age[v] = 0

(* What is in the cache will have expired by the time it is too old.       *)
EntryExpires == entry # NoEntry => age[entry.catalog] + entry.left <= TooOld

(* What a call has read was current when it asked, or later.               *)
ReadsAreFresh ==
    \A r \in Calls : call[r].stage = "read" => age[call[r].catalog] <= call[r].waited

CacheInv == CacheTypeOK /\ CurrentIsNew /\ EntryExpires /\ ReadsAreFresh

-----------------------------------------------------------------------------
(* The cache begins empty. *)
LEMMA CacheInitInv == CacheInit => CacheInv
  BY CacheAssumption
  DEF CacheInit, CacheInv, CacheTypeOK, CurrentIsNew, EntryExpires, ReadsAreFresh,
      Idle, CallStates, Catalogs, TooOld

(* A record of Entries differs from NoEntry and has its fields in range. *)
LEMMA EntryFields ==
    ASSUME CacheTypeOK
    PROVE  /\ catalog \in Catalogs
           /\ \A v \in Catalogs : age[v] \in 0..TooOld
           /\ entry # NoEntry => entry.catalog \in Catalogs /\ entry.left \in 1..Ttl
           /\ \A r \in Calls : /\ call[r].stage \in {"idle", "asked", "read", "answered"}
                               /\ call[r].catalog \in Catalogs
                               /\ call[r].waited \in 0..QueryTime
  BY DEF CacheTypeOK, Entries, CallStates

(* A hit leaves the entry, and a miss, an error and a next request change  *)
(* only how far a call is: none has read anything by them.                 *)
LEMMA CallMovesInv ==
    ASSUME CacheInv, NEW r \in Calls, Hit(r) \/ Miss(r) \/ Throw(r) \/ Done(r)
    PROVE  CacheInv'
  <1> USE DEF CacheInv
  <1>1. UNCHANGED <<catalog, age, entry>>
    BY DEF Hit, Miss, Throw, Done
  <1>2. PICK s \in CallStates : call' = [call EXCEPT ![r] = s] /\ s.stage # "read"
    <2>1. CASE Hit(r)
      <3> DEFINE s == AnsweredWith(entry.catalog)
      <3>1. s \in CallStates /\ s.stage # "read"
        BY <2>1, CacheAssumption, EntryFields DEF Hit, AnsweredWith, CallStates
      <3>2. call' = [call EXCEPT ![r] = s]
        BY <2>1 DEF Hit
      <3> QED BY <3>1, <3>2
    <2>2. CASE Miss(r)
      <3> DEFINE s == [call[r] EXCEPT !.stage = "asked"]
      <3>1. call[r] \in CallStates
        BY DEF CacheTypeOK
      <3>2. s \in CallStates /\ s.stage # "read"
        BY <3>1 DEF CallStates
      <3>3. call' = [call EXCEPT ![r] = s]
        BY <2>2 DEF Miss
      <3> QED BY <3>2, <3>3
    <2>3. CASE Throw(r) \/ Done(r)
      <3>1. Idle \in CallStates /\ Idle.stage # "read"
        BY CacheAssumption DEF Idle, CallStates, Catalogs
      <3>2. call' = [call EXCEPT ![r] = Idle]
        BY <2>3 DEF Throw, Done
      <3> QED BY <3>1, <3>2
    <2> QED BY <2>1, <2>2, <2>3
  <1>3. CacheTypeOK'
    BY <1>1, <1>2 DEF CacheTypeOK
  <1>4. ReadsAreFresh'
    BY <1>1, <1>2 DEF CacheTypeOK, ReadsAreFresh
  <1>5. CurrentIsNew' /\ EntryExpires'
    BY <1>1 DEF CurrentIsNew, EntryExpires
  <1> QED BY <1>3, <1>4, <1>5

(* The snapshot of a query is the catalog of its moment. *)
LEMMA ReadInv ==
    ASSUME CacheInv, NEW r \in Calls, Read(r)
    PROVE  CacheInv'
  <1> USE DEF CacheInv
  <1> DEFINE s == [call[r] EXCEPT !.stage = "read", !.catalog = catalog]
  <1>1. UNCHANGED <<catalog, age, entry>> /\ call' = [call EXCEPT ![r] = s]
    BY DEF Read
  <1>2. call[r] \in CallStates /\ catalog \in Catalogs
    BY DEF CacheTypeOK
  <1>3. s \in CallStates /\ s.catalog = catalog /\ s.waited = call[r].waited
    BY <1>2 DEF CallStates
  <1> HIDE DEF s
  <1>4. CacheTypeOK'
    BY <1>1, <1>3 DEF CacheTypeOK
  <1>5. age[catalog] = 0
    BY <1>2 DEF CurrentIsNew, Catalogs
  <1>6. age[s.catalog] <= s.waited
    BY <1>2, <1>3, <1>5, EntryFields
  <1>7. ReadsAreFresh'
    BY <1>1, <1>6 DEF CacheTypeOK, ReadsAreFresh
  <1>8. CurrentIsNew' /\ EntryExpires'
    BY <1>1 DEF CurrentIsNew, EntryExpires
  <1> QED BY <1>4, <1>7, <1>8

(* What is written is no older than its query took. *)
LEMMA SetInv ==
    ASSUME CacheInv, NEW r \in Calls, Set(r)
    PROVE  CacheInv'
  <1> USE DEF CacheInv
  <1> DEFINE v == call[r].catalog
  <1>1. /\ UNCHANGED <<catalog, age>>
        /\ entry' = [catalog |-> v, left |-> Ttl]
        /\ call' = [call EXCEPT ![r] = AnsweredWith(v)]
    BY DEF Set
  <1>2. v \in Catalogs /\ age[v] <= QueryTime /\ age[v] \in Int
    BY CacheAssumption, EntryFields DEF Set, ReadsAreFresh, TooOld
  <1> HIDE DEF v
  <1>3. AnsweredWith(v) \in CallStates /\ AnsweredWith(v).stage # "read"
    BY <1>2, CacheAssumption DEF AnsweredWith, CallStates
  <1>4. entry' \in Entries
    BY <1>1, <1>2, CacheAssumption DEF Entries
  <1>5. CacheTypeOK'
    BY <1>1, <1>3, <1>4 DEF CacheTypeOK
  <1>6. EntryExpires'
    BY <1>1, <1>2, CacheAssumption DEF EntryExpires, TooOld
  <1>7. ReadsAreFresh' /\ CurrentIsNew'
    BY <1>1, <1>3 DEF CacheTypeOK, ReadsAreFresh, CurrentIsNew
  <1> QED BY <1>5, <1>6, <1>7

(* An edit replaces a catalog, which is then 0 seconds old. *)
LEMMA EditInv ==
    ASSUME CacheInv, Edit
    PROVE  CacheInv'
  <1>1. CacheTypeOK'
    BY CacheAssumption DEF CacheInv, CacheTypeOK, Edit, Catalogs
  <1>2. CurrentIsNew'
    BY CacheAssumption DEF CacheInv, CacheTypeOK, CurrentIsNew, Edit, Catalogs
  <1>3. EntryExpires' /\ ReadsAreFresh'
    BY DEF CacheInv, EntryExpires, ReadsAreFresh, Edit
  <1> QED BY <1>1, <1>2, <1>3 DEF CacheInv

(* A restart forgets the entry and the calls. *)
LEMMA RestartInv ==
    ASSUME CacheInv, Restart
    PROVE  CacheInv'
  BY CacheAssumption
  DEF CacheInv, CacheTypeOK, CurrentIsNew, EntryExpires, ReadsAreFresh, Restart,
      Idle, CallStates, Catalogs

(* With every second an old catalog gets older, the entry's time shorter   *)
(* and the await longer.                                                   *)
LEMMA TickInv ==
    ASSUME CacheInv, Tick
    PROVE  CacheInv'
  <1> USE DEF CacheInv
  <1>1. /\ catalog' = catalog
        /\ \A v \in Catalogs :
              age'[v] = IF v < catalog /\ age[v] < TooOld THEN age[v] + 1 ELSE age[v]
    BY DEF Tick
  <1>2. \A v \in Catalogs : age'[v] \in 0..TooOld /\ age'[v] <= age[v] + 1
    BY <1>1, CacheAssumption, EntryFields DEF TooOld
  <1>3. \A r \in Calls :
           /\ call'[r].stage = call[r].stage
           /\ call'[r].catalog = call[r].catalog
           /\ call'[r] \in CallStates
           /\ call[r].stage = "read" => call'[r].waited = call[r].waited + 1
    <2>1. TAKE r \in Calls
    <2>2. call[r] \in CallStates
      BY DEF CacheTypeOK
    <2>3. CASE r \in Querying
      <3>1. call'[r] = [call[r] EXCEPT !.waited = @ + 1] /\ call[r].waited < QueryTime
        BY <2>3 DEF Tick
      <3> QED BY <2>2, <3>1, CacheAssumption DEF CallStates
    <2>4. CASE r \notin Querying
      <3>1. call'[r] = call[r] /\ call[r].stage # "read"
        BY <2>4 DEF Tick, Querying
      <3> QED BY <2>2, <3>1
    <2> QED BY <2>3, <2>4
  <1>4. entry' # NoEntry => /\ entry # NoEntry
                            /\ entry' \in Entries
                            /\ entry'.catalog = entry.catalog
                            /\ entry'.left = entry.left - 1
    <2>1. SUFFICES ASSUME entry' # NoEntry
                   PROVE  /\ entry # NoEntry
                          /\ entry' \in Entries
                          /\ entry'.catalog = entry.catalog
                          /\ entry'.left = entry.left - 1
      OBVIOUS
    <2>2. entry # NoEntry /\ entry.left # 1 /\ entry' = [entry EXCEPT !.left = @ - 1]
      BY <2>1 DEF Tick
    <2>3. entry \in Entries
      BY <2>2 DEF CacheTypeOK
    <2> QED BY <2>2, <2>3, CacheAssumption DEF Entries
  <1>5. CacheTypeOK'
    <2>1. age' \in [Catalogs -> 0..TooOld]
      BY <1>2 DEF Tick
    <2>2. call' \in [Calls -> CallStates]
      BY <1>3 DEF Tick
    <2> QED BY <1>1, <1>4, <2>1, <2>2 DEF CacheTypeOK
  <1>6. CurrentIsNew'
    BY <1>1, EntryFields DEF CurrentIsNew, Catalogs
  <1>7. EntryExpires'
    <2>1. SUFFICES ASSUME entry' # NoEntry
                   PROVE  age'[entry'.catalog] + entry'.left <= TooOld
      BY DEF EntryExpires, TooOld
    <2>2. entry.catalog \in Catalogs /\ entry.left \in Int /\ age[entry.catalog] \in Int
      BY <1>4, <2>1, EntryFields
    <2>3. age'[entry.catalog] \in Int /\ age'[entry.catalog] <= age[entry.catalog] + 1
      BY <1>2, <2>2
    <2>4. age[entry.catalog] + entry.left <= TooOld /\ TooOld \in Int
      BY <1>4, <2>1, CacheAssumption DEF EntryExpires, TooOld
    <2> QED BY <1>4, <2>1, <2>2, <2>3, <2>4
  <1>8. ReadsAreFresh'
    <2>1. SUFFICES ASSUME NEW r \in Calls, call'[r].stage = "read"
                   PROVE  age'[call'[r].catalog] <= call'[r].waited
      BY DEF ReadsAreFresh
    <2>2. call[r].stage = "read" /\ call'[r].catalog = call[r].catalog
      BY <1>3, <2>1
    <2>3. call[r].catalog \in Catalogs /\ age[call[r].catalog] \in Int /\ call[r].waited \in Int
      BY EntryFields
    <2>4. age'[call[r].catalog] \in Int /\ age'[call[r].catalog] <= age[call[r].catalog] + 1
      BY <1>2, <2>3
    <2>5. age[call[r].catalog] <= call[r].waited
      BY <2>2 DEF ReadsAreFresh
    <2>6. call'[r].waited = call[r].waited + 1
      BY <1>3, <2>2
    <2> QED BY <2>2, <2>3, <2>4, <2>5, <2>6
  <1> QED BY <1>5, <1>6, <1>7, <1>8

(* Every step preserves the invariant. *)
LEMMA CacheStepInv == CacheInv /\ [CacheNext]_cacheVars => CacheInv'
  <1> SUFFICES ASSUME CacheInv, [CacheNext]_cacheVars PROVE CacheInv'
    OBVIOUS
  <1>1. ASSUME NEW r \in Calls, Hit(r) \/ Miss(r) \/ Throw(r) \/ Done(r) PROVE CacheInv'
    BY <1>1, CallMovesInv
  <1>2. ASSUME NEW r \in Calls, Read(r) PROVE CacheInv'
    BY <1>2, ReadInv
  <1>3. ASSUME NEW r \in Calls, Set(r) PROVE CacheInv'
    BY <1>3, SetInv
  <1>4. CASE Edit
    BY <1>4, EditInv
  <1>5. CASE Restart
    BY <1>5, RestartInv
  <1>6. CASE Tick
    BY <1>6, TickInv
  <1>7. CASE UNCHANGED cacheVars
    BY <1>7 DEF CacheInv, CacheTypeOK, CurrentIsNew, EntryExpires, ReadsAreFresh, cacheVars
  <1> QED BY <1>1, <1>2, <1>3, <1>4, <1>5, <1>6, <1>7 DEF CacheNext, Resume

(* The invariant holds for ever. *)
LEMMA CacheInvAlways == CacheSpec => []CacheInv
  BY CacheInitInv, CacheStepInv, PTL DEF CacheSpec

-----------------------------------------------------------------------------
(* Type correctness of the cached categories. *)
THEOREM CacheTypes == CacheSpec => []CacheTypeOK
  BY CacheInvAlways, PTL DEF CacheInv

(* An answer is given by a hit or after a query, and is recent by what     *)
(* these know of what they return.                                         *)
LEMMA RecentStep ==
    ASSUME CacheInv, CacheNext, NEW r \in Calls,
           call[r].stage # "answered", call'[r].stage = "answered"
    PROVE  age[call'[r].catalog] < TooOld
  <1> USE DEF CacheInv
  <1>1. ASSUME Hit(r) PROVE age[call'[r].catalog] < TooOld
    <2>1. entry # NoEntry /\ call'[r].catalog = entry.catalog
      BY <1>1 DEF CacheTypeOK, Hit, AnsweredWith
    <2> QED BY <2>1, CacheAssumption, EntryFields DEF EntryExpires, TooOld
  <1>2. ASSUME Set(r) PROVE age[call'[r].catalog] < TooOld
    <2>1. call[r].stage = "read" /\ call'[r].catalog = call[r].catalog
      BY <1>2 DEF CacheTypeOK, Set, AnsweredWith
    <2> QED BY <2>1, CacheAssumption, EntryFields DEF ReadsAreFresh, TooOld
  <1>3. Hit(r) \/ Set(r)
    <2>1. ASSUME NEW q \in Calls,
                 Hit(q) \/ Miss(q) \/ Read(q) \/ Resume(q) \/ Done(q)
          PROVE  Hit(r) \/ Set(r)
      <3>1. call \in [Calls -> CallStates] /\ call[r] \in CallStates
        BY DEF CacheTypeOK
      <3>2. ~ Miss(q)
        <4>1. ASSUME Miss(q) PROVE call'[r].stage = call[r].stage \/ call'[r].stage = "asked"
          BY <3>1, <4>1 DEF Miss, CallStates
        <4> QED BY <4>1
      <3>3. ~ Read(q)
        <4>1. ASSUME Read(q) PROVE call'[r].stage = call[r].stage \/ call'[r].stage = "read"
          BY <3>1, <4>1 DEF Read, CallStates
        <4> QED BY <4>1
      <3>4. ~ Throw(q) /\ ~ Done(q)
        BY <3>1 DEF Throw, Done, Idle
      <3>5. (Hit(q) \/ Set(q)) => q = r
        BY <3>1 DEF Hit, Set
      <3> QED BY <2>1, <3>2, <3>3, <3>4, <3>5 DEF Resume
    <2>2. ~ Edit /\ ~ Restart
      BY DEF Edit, Restart, Idle
    <2>3. ~ Tick
      <3>1. ASSUME Tick PROVE call'[r].stage = call[r].stage
        BY <3>1 DEF CacheTypeOK, CallStates, Tick
      <3> QED BY <3>1
    <2> QED BY <2>1, <2>2, <2>3 DEF CacheNext
  <1> QED BY <1>1, <1>2, <1>3

(* Every answer was the catalog less than Ttl + QueryTime seconds ago      *)
(* (CachingCategoryRepository.cs 33-45).                                   *)
THEOREM AnswersRecent == CacheSpec => AnswersAreRecent
  <1>1. CacheInv /\ [CacheNext]_cacheVars
        => [\A r \in Calls :
               call[r].stage # "answered" /\ call'[r].stage = "answered"
               => age[call'[r].catalog] < TooOld]_cacheVars
    BY RecentStep
  <1> QED BY <1>1, CacheInvAlways, PTL DEF CacheSpec, AnswersAreRecent

-----------------------------------------------------------------------------
(* The product pages. *)

(* The walk so far has shown the ids up to the cursor and no others: all   *)
(* that were there all along, and exactly the category if it is calm.      *)
ShownUpToCursor ==
    stage # "done" =>
        /\ \A p \in shown : p <= cursor
        /\ \A p \in steady : p <= cursor => p \in shown

CalmWalk ==
    calm =>
        /\ steady = products
        /\ stage = "counted" => total = Cardinality(products)
        /\ stage # "done" => shown \subseteq products

PagesInv ==
    PagesTypeOK /\ ShownUpToCursor /\ CalmWalk /\ WalkShowsAll /\ TotalIsOfTheCategory

(* The clamp of the limit (CategoriesController.cs 61) gives a page size. *)
LEMMA PageSizeType ==
    ASSUME NEW limit \in Limits
    PROVE  PageSize(limit) \in 1..(IF DefaultPageSize < MaxPageSize THEN MaxPageSize ELSE DefaultPageSize)
  BY PagesAssumption DEF PageSize

(* The products after the cursor, and any part of them, are finitely many. *)
LEMMA AfterCursorFinite ==
    ASSUME PagesTypeOK
    PROVE  IsFiniteSet(AfterCursor) /\ IsFiniteSet(products)
  <1>1. IsFiniteSet(Ids)
    BY PagesAssumption, FS_Interval DEF Ids
  <1>2. products \subseteq Ids /\ AfterCursor \subseteq Ids
    BY DEF PagesTypeOK, AfterCursor
  <1> QED BY <1>1, <1>2, FS_Subset

(* The last page is all that is left. *)
LEMMA LastPage ==
    ASSUME PagesTypeOK, ~ HasMore(pageSize)
    PROVE  Page(pageSize) = AfterCursor
  <1>1. IsFiniteSet(AfterCursor) /\ Cardinality(AfterCursor) \in Nat
    BY AfterCursorFinite, FS_CardinalityType
  <1>2. Cardinality(AfterCursor) <= pageSize /\ pageSize \in Nat
    BY <1>1, PagesAssumption DEF HasMore, PagesTypeOK
  <1>3. SUFFICES ASSUME NEW p \in AfterCursor
                 PROVE  Cardinality({q \in AfterCursor : q < p}) < pageSize
    BY DEF Page
  <1> DEFINE Before == {q \in AfterCursor : q < p}
  <1>4. p \in Int
    BY DEF AfterCursor, PagesTypeOK, Ids
  <1>5. Before \subseteq AfterCursor /\ Before # AfterCursor
    BY <1>3, <1>4
  <1>6. /\ IsFiniteSet(Before)
        /\ Cardinality(Before) <= Cardinality(AfterCursor)
        /\ Cardinality(Before) = Cardinality(AfterCursor) => Before = AfterCursor
    BY <1>1, <1>5, FS_Subset
  <1>7. Cardinality(Before) \in Nat
    BY <1>6, FS_CardinalityType
  <1> HIDE DEF Before
  <1>8. Cardinality(Before) < pageSize
    BY <1>1, <1>2, <1>5, <1>6, <1>7
  <1> QED BY <1>8 DEF Before

(* Any other page is the products up to its last one: no product in front  *)
(* of the next cursor is left out.                                         *)
LEMMA FullPage ==
    ASSUME PagesTypeOK,
           NEW last \in Page(pageSize), \A p \in Page(pageSize) : p <= last
    PROVE  Page(pageSize) = {p \in AfterCursor : p <= last}
  <1>1. IsFiniteSet(AfterCursor) /\ Page(pageSize) \subseteq AfterCursor
    BY AfterCursorFinite DEF Page
  <1>2. \A p \in AfterCursor : p \in Int
    BY PagesAssumption DEF AfterCursor, PagesTypeOK, Ids
  <1> pageSize \in Int
    BY PagesAssumption DEF PagesTypeOK
  <1>3. SUFFICES ASSUME NEW p \in AfterCursor, p <= last
                 PROVE  Cardinality({q \in AfterCursor : q < p}) < pageSize
    BY <1>1 DEF Page
  <1> DEFINE Before(b) == {q \in AfterCursor : q < b}
  <1>4. last \in AfterCursor /\ Cardinality(Before(last)) < pageSize
    BY DEF Page
  <1>5. Before(p) \subseteq Before(last) /\ Before(last) \subseteq AfterCursor
    <2>1. p \in Int /\ last \in Int
      BY <1>2, <1>3, <1>4
    <2>2. ASSUME NEW q \in AfterCursor, q < p PROVE q < last
      BY <1>2, <1>3, <2>1, <2>2
    <2> QED BY <2>2
  <1>6. IsFiniteSet(Before(last))
    BY <1>1, <1>5, FS_Subset
  <1>7. IsFiniteSet(Before(p)) /\ Cardinality(Before(p)) <= Cardinality(Before(last))
    BY <1>5, <1>6, FS_Subset
  <1>8. Cardinality(Before(p)) \in Nat /\ Cardinality(Before(last)) \in Nat
    BY <1>6, <1>7, FS_CardinalityType
  <1> HIDE DEF Before
  <1>9. Cardinality(Before(p)) < pageSize
    BY <1>2, <1>4, <1>7, <1>8
  <1> QED BY <1>9 DEF Before

-----------------------------------------------------------------------------
(* A walk that begins satisfies the invariant. *)
LEMMA PagesInitInv == PagesInit => PagesInv
  BY PagesAssumption
  DEF PagesInit, PagesInv, PagesTypeOK, ShownUpToCursor, CalmWalk, WalkShowsAll,
      TotalIsOfTheCategory, Ids

(* CountAsync: the total is the category's. *)
LEMMA CountInv ==
    ASSUME PagesInv, NEW limit \in Limits, Count(limit)
    PROVE  PagesInv'
  <1>1. Cardinality(products) \in Nat
    BY AfterCursorFinite, FS_CardinalityType DEF PagesInv
  <1>2. PagesTypeOK'
    BY <1>1, PageSizeType DEF PagesInv, PagesTypeOK, Count
  <1> QED
    BY <1>2 DEF PagesInv, ShownUpToCursor, CalmWalk, WalkShowsAll, TotalIsOfTheCategory, Count

(* The page query: the cursor moves to the last product of a full page, or *)
(* the walk is done with all that is left.                                 *)
LEMMA ReadPageInv ==
    ASSUME PagesInv, ReadPage
    PROVE  PagesInv'
  <1> USE DEF PagesInv
  <1>1. Page(pageSize) \subseteq AfterCursor /\ AfterCursor \subseteq products /\ products \subseteq Ids
    BY DEF Page, AfterCursor, PagesTypeOK
  <1>2. cursor \in Int /\ Ids \subseteq Int /\ steady \subseteq products /\ shown \subseteq Ids
    BY DEF PagesTypeOK, Ids
  <1>3. CASE HasMore(pageSize)
    <2>1. PICK last \in Page(pageSize) : (\A p \in Page(pageSize) : p <= last) /\ cursor' = last
      BY <1>3 DEF ReadPage
    <2>2. Page(pageSize) = {p \in AfterCursor : p <= last}
      BY <2>1, FullPage
    <2>3. /\ stage' = "between" /\ shown' = shown \cup Page(pageSize)
          /\ UNCHANGED <<products, pageSize, total, steady, calm>>
          /\ stage = "counted"
      BY <1>3 DEF ReadPage
    <2>4. PagesTypeOK'
      BY <1>1, <2>1, <2>3 DEF PagesTypeOK
    <2>5. cursor < last /\ last \in Int
      BY <1>1, <1>2 DEF AfterCursor
    <2>6. ShownUpToCursor'
      <3>1. \A p \in shown' : p <= cursor'
        BY <1>2, <2>1, <2>3, <2>5 DEF ShownUpToCursor
      <3>2. ASSUME NEW p \in steady, p <= last PROVE p \in shown'
        BY <1>1, <1>2, <2>2, <2>3, <3>2 DEF ShownUpToCursor, AfterCursor
      <3> QED BY <2>1, <2>3, <3>1, <3>2 DEF ShownUpToCursor
    <2>7. CalmWalk' /\ WalkShowsAll' /\ TotalIsOfTheCategory'
      BY <1>1, <2>3 DEF CalmWalk, WalkShowsAll, TotalIsOfTheCategory
    <2> QED BY <2>4, <2>6, <2>7
  <1>4. CASE ~ HasMore(pageSize)
    <2>1. Page(pageSize) = AfterCursor
      BY <1>4, LastPage
    <2>2. /\ stage' = "done" /\ shown' = shown \cup AfterCursor
          /\ UNCHANGED <<products, pageSize, total, cursor, steady, calm>>
          /\ stage = "counted"
      BY <1>4, <2>1 DEF ReadPage
    <2>3. PagesTypeOK'
      BY <1>1, <2>2 DEF PagesTypeOK
    <2>4. steady \subseteq shown'
      BY <1>1, <1>2, <2>2 DEF ShownUpToCursor, AfterCursor
    <2>5. calm => shown' = products /\ total = Cardinality(products)
      BY <1>1, <2>2, <2>4 DEF CalmWalk
    <2> QED
      BY <2>2, <2>3, <2>4, <2>5 DEF ShownUpToCursor, CalmWalk, WalkShowsAll, TotalIsOfTheCategory
  <1> QED BY <1>3, <1>4

(* A new walk has shown nothing, and ids are above its cursor. *)
LEMMA StartOverInv ==
    ASSUME PagesInv, StartOver
    PROVE  PagesInv'
  <1>1. PagesTypeOK'
    BY DEF PagesInv, PagesTypeOK, StartOver
  <1>2. \A p \in products : ~ (p <= 0)
    BY DEF PagesInv, PagesTypeOK, Ids
  <1> QED
    BY <1>1, <1>2 DEF PagesInv, ShownUpToCursor, CalmWalk, WalkShowsAll, TotalIsOfTheCategory, StartOver

(* Every step, an edit of the catalog between the two queries included. *)
LEMMA PagesStepInv == PagesInv /\ [PagesNext]_pagesVars => PagesInv'
  <1> SUFFICES ASSUME PagesInv, [PagesNext]_pagesVars PROVE PagesInv'
    OBVIOUS
  <1>1. CASE GoOn
    BY <1>1, CountInv DEF GoOn
  <1>2. CASE ReadPage
    BY <1>2, ReadPageInv
  <1>3. CASE Lose
    BY <1>3 DEF PagesInv, PagesTypeOK, ShownUpToCursor, CalmWalk, WalkShowsAll,
                TotalIsOfTheCategory, Lose
  <1>4. CASE StartOver
    BY <1>4, StartOverInv
  <1>5. ASSUME NEW p \in Ids, Insert(p) PROVE PagesInv'
    BY <1>5 DEF PagesInv, PagesTypeOK, ShownUpToCursor, CalmWalk, WalkShowsAll,
                TotalIsOfTheCategory, Insert
  <1>6. ASSUME NEW p \in Ids, Delete(p) PROVE PagesInv'
    BY <1>6 DEF PagesInv, PagesTypeOK, ShownUpToCursor, CalmWalk, WalkShowsAll,
                TotalIsOfTheCategory, Delete
  <1>7. CASE UNCHANGED pagesVars
    BY <1>7 DEF PagesInv, PagesTypeOK, ShownUpToCursor, CalmWalk, WalkShowsAll,
                TotalIsOfTheCategory, pagesVars
  <1> QED BY <1>1, <1>2, <1>3, <1>4, <1>5, <1>6, <1>7 DEF PagesNext

(* The invariant holds for ever. *)
LEMMA PagesInvAlways == PagesSpec => []PagesInv
  BY PagesInitInv, PagesStepInv, PTL DEF PagesSpec

-----------------------------------------------------------------------------
(* Types: in particular the cursor is 0 or an id and the page size never   *)
(* exceeds its limit (CategoriesController.cs 61).                         *)
THEOREM PagesTypes == PagesSpec => []PagesTypeOK
  BY PagesInvAlways, PTL DEF PagesInv

(* A finished walk has shown every product that was there all along        *)
(* (CategoryRepository.cs 40-56).                                          *)
THEOREM WalkIsWhole == PagesSpec => []WalkShowsAll
  BY PagesInvAlways, PTL DEF PagesInv

(* On a catalog that is not edited, meta.total is the number of products   *)
(* on all pages together (CategoryRepository.cs 32-36).                    *)
THEOREM TotalIsRight == PagesSpec => []TotalIsOfTheCategory
  BY PagesInvAlways, PTL DEF PagesInv

(* What the walk has not shown yet is after all it has shown: no product   *)
(* comes twice (CategoryRepository.cs 38-46).                              *)
THEOREM NothingTwice == PagesSpec => []NothingComesAgain
  <1>1. PagesInv => NothingComesAgain
    BY DEF PagesInv, ShownUpToCursor, NothingComesAgain, AfterCursor, PagesTypeOK, Ids
  <1> QED BY <1>1, PagesInvAlways, PTL
(* No page leads back to itself (CategoryRepository.cs 38-57): a page that *)
(* is not the last moves the cursor on to a product shown only now.        *)
THEOREM CursorAdvances ==
  PagesSpec => [][ReadPage => \/ stage' = "done"
                              \/ cursor' > cursor /\ cursor' \in shown' \ shown]_pagesVars
  <1> DEFINE Advances == \/ stage' = "done"
                         \/ cursor' > cursor /\ cursor' \in shown' \ shown
  <1>1. ASSUME PagesInv, ReadPage, HasMore(pageSize) PROVE Advances
    <2>1. /\ stage = "counted" /\ cursor' \in Page(pageSize)
          /\ shown' = shown \cup Page(pageSize)
      BY <1>1 DEF ReadPage
    <2>2. cursor' > cursor /\ cursor' \in Ids
      BY <1>1, <2>1 DEF Page, AfterCursor, PagesInv, PagesTypeOK
    <2>3. cursor' \notin shown
      BY <1>1, <2>1, <2>2 DEF PagesInv, ShownUpToCursor, PagesTypeOK, Ids
    <2> QED BY <2>1, <2>2, <2>3
  <1>2. ASSUME ReadPage, ~ HasMore(pageSize) PROVE Advances
    BY <1>2 DEF ReadPage
  <1>3. PagesInv /\ [PagesNext]_pagesVars => [ReadPage => Advances]_pagesVars
    BY <1>1, <1>2
  <1> HIDE DEF Advances
  <1> QED BY <1>3, PagesInvAlways, PTL DEF PagesSpec, Advances
=============================================================================
