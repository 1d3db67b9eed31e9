--------------------------- MODULE MCCatalogReads ---------------------------
(***************************************************************************)
(* The two reads of the catalog API, for TLC.  They share nothing that     *)
(* changes, so a behaviour of the run is one of CatalogCache or one of     *)
(* CatalogPages, as part says, while the other stays as it began.          *)
(***************************************************************************)
EXTENDS CatalogCache, CatalogPages, TLC

VARIABLE part

ReadsInit ==
    /\ part \in {"cache", "pages"}
    /\ CacheInit
    /\ PagesInit
    /\ part = "cache" => products = {}

ReadsNext ==
    \/ part = "cache" /\ CacheNext /\ UNCHANGED <<part, pagesVars>>
    \/ part = "pages" /\ PagesNext /\ UNCHANGED <<part, cacheVars>>

(* The fairness of each, while it runs. *)
ReadsFairness ==
    /\ WF_cacheVars(part = "cache" /\ Tick)
    /\ \A r \in Calls : WF_cacheVars(part = "cache" /\ Resume(r))
    /\ WF_pagesVars(part = "pages" /\ GoOn)
    /\ SF_pagesVars(part = "pages" /\ ReadPage)

ReadsSpec == ReadsInit /\ [][ReadsNext]_<<part, cacheVars, pagesVars>> /\ ReadsFairness
=============================================================================
