---------------------------- MODULE CatalogCache ----------------------------
(***************************************************************************)
(* GET /api/v1/categories: the catalog as CachingCategoryRepository serves *)
(* it, from one entry of an in-process memory cache or, when that is       *)
(* absent or expired, from the database.  Nothing keeps concurrent misses  *)
(* from querying together, and each writes the entry when it resumes.      *)
(*                                                                         *)
(* The database is external.  Of a catalog the model keeps its number in   *)
(* the order in which catalogs replaced one another there.  Time passes in *)
(* seconds, and is kept as how long things have lasted.                    *)
(***************************************************************************)
EXTENDS Integers

CONSTANTS
    Calls,       \* calls of GetAllWithProductsAsync, one at a time each
    MaxCatalog,  \* bound on the changes of the catalog
    Ttl,         \* CategoriesTtlSeconds
    QueryTime,   \* the most seconds a call awaits its query (the command timeout)
    NoEntry      \* the cache has no entry, or an expired one

VARIABLES
    catalog,  \* the catalog in the database
    age,      \* age[v]: seconds since catalog v was replaced, up to TooOld
    entry,    \* the value under "categories:all" and the seconds it has left
    call      \* call[r]: how far call r is, what it read, how long it has awaited

cacheVars == <<catalog, age, entry, call>>

Catalogs == 0..MaxCatalog
TooOld == Ttl + QueryTime

Entries == [catalog : Catalogs, left : 1..Ttl]
CallStates == [stage : {"idle", "asked", "read", "answered"},
               catalog : Catalogs, waited : 0..QueryTime]

ASSUME CacheAssumption ==
    /\ MaxCatalog \in Nat
    /\ Ttl \in Nat \ {0}
    /\ QueryTime \in Nat
    /\ NoEntry \notin Entries

Idle == [stage |-> "idle", catalog |-> 0, waited |-> 0]
AnsweredWith(v) == [stage |-> "answered", catalog |-> v, waited |-> 0]

Querying == {r \in Calls : call[r].stage \in {"asked", "read"}}

-----------------------------------------------------------------------------
CacheInit ==
    /\ catalog = 0
    /\ age = [v \in Catalogs |-> 0]
    /\ entry = NoEntry
    /\ call = [r \in Calls |-> Idle]

(* Bug: the entry lives on for as long as it is used. *)
RenewingHit(r) ==
    /\ call[r].stage = "idle"
    /\ entry # NoEntry
    /\ call' = [call EXCEPT ![r] = AnsweredWith(entry.catalog)]
    /\ entry' = [entry EXCEPT !.left = Ttl]
    /\ UNCHANGED <<catalog, age>>

Hit(r) ==
    /\ call[r].stage = "idle"
    /\ entry # NoEntry
    /\ call' = [call EXCEPT ![r] = AnsweredWith(entry.catalog)]
    /\ UNCHANGED <<catalog, age, entry>>

Miss(r) ==
    /\ call[r].stage = "idle"
    /\ entry = NoEntry
    /\ call' = [call EXCEPT ![r].stage = "asked"]
    /\ UNCHANGED <<catalog, age, entry>>

(* The database takes the query's snapshot. *)
Read(r) ==
    /\ call[r].stage = "asked"
    /\ call' = [call EXCEPT ![r].stage = "read", ![r].catalog = catalog]
    /\ UNCHANGED <<catalog, age, entry>>

(* Bug: minutes for seconds. *)
SetForMinutes(r) ==
    /\ call[r].stage = "read"
    /\ entry' = [catalog |-> call[r].catalog, left |-> 60 * Ttl]
    /\ call' = [call EXCEPT ![r] = AnsweredWith(call[r].catalog)]
    /\ UNCHANGED <<catalog, age>>

(* After the await: the entry is written, whatever it holds by now. *)
Set(r) ==
    /\ call[r].stage = "read"
    /\ entry' = [catalog |-> call[r].catalog, left |-> Ttl]
    /\ call' = [call EXCEPT ![r] = AnsweredWith(call[r].catalog)]
    /\ UNCHANGED <<catalog, age>>

(* The query fails, or its request is cancelled: the await throws. *)
Throw(r) ==
    /\ r \in Querying
    /\ call' = [call EXCEPT ![r] = Idle]
    /\ UNCHANGED <<catalog, age, entry>>

(* The client has its answer and may ask again. *)
Done(r) ==
    /\ call[r].stage = "answered"
    /\ call' = [call EXCEPT ![r] = Idle]
    /\ UNCHANGED <<catalog, age, entry>>

(* The catalog is edited in the database. *)
Edit ==
    /\ catalog < MaxCatalog
    /\ catalog' = catalog + 1
    /\ UNCHANGED <<age, entry, call>>

(* The process restarts: its memory cache and its calls are gone. *)
Restart ==
    /\ entry' = NoEntry
    /\ call' = [r \in Calls |-> Idle]
    /\ UNCHANGED <<catalog, age>>

(* A second passes.  An expired entry is not found any more. *)
Tick ==
    /\ \A r \in Querying : call[r].waited < QueryTime
    /\ age' = [v \in Catalogs |-> IF v < catalog /\ age[v] < TooOld THEN age[v] + 1 ELSE age[v]]
    /\ entry' = IF entry = NoEntry \/ entry.left = 1
                THEN NoEntry
                ELSE [entry EXCEPT !.left = @ - 1]
    /\ call' = [r \in Calls |-> IF r \in Querying THEN [call[r] EXCEPT !.waited = @ + 1]
                                                  ELSE call[r]]
    /\ UNCHANGED catalog

Resume(r) == Set(r) \/ Throw(r)

CacheNext ==
    \/ \E r \in Calls : Hit(r) \/ Miss(r) \/ Read(r) \/ Resume(r) \/ Done(r)
    \/ Edit
    \/ Restart
    \/ Tick

CacheSpec == CacheInit /\ [][CacheNext]_cacheVars

(* Time passes, and every await ends. *)
CacheFairness == WF_cacheVars(Tick) /\ \A r \in Calls : WF_cacheVars(Resume(r))

FairCacheSpec == CacheSpec /\ CacheFairness

-----------------------------------------------------------------------------
CacheTypeOK ==
    /\ catalog \in Catalogs
    /\ age \in [Catalogs -> 0..TooOld]
    /\ entry \in Entries \cup {NoEntry}
    /\ call \in [Calls -> CallStates]

(* What a call is answered with was the catalog of the database less than  *)
(* Ttl + QueryTime seconds ago, however many misses query together, change *)
(* places and write the entry late; a late write prolongs an old catalog   *)
(* by no more than its own query took.  Lines 33-45.                       *)
AnswersAreRecent ==
    [][\A r \in Calls :
          call[r].stage # "answered" /\ call'[r].stage = "answered"
          => age[call'[r].catalog] < TooOld]_cacheVars

(* A catalog that is not edited any more is what the cache has in the end, *)
(* however busy the API is: no late write and no traffic keeps an old one. *)
CacheCatchesUp == <>[](entry # NoEntry => entry.catalog = catalog)
=============================================================================
