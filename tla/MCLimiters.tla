----------------------------- MODULE MCLimiters -----------------------------
(***************************************************************************)
(* The limiters of both services, for TLC: a behaviour of the run is one   *)
(* of OrdersApi or one of CatalogLimits, as part says, while the other     *)
(* stays as it began.                                                      *)
(***************************************************************************)
EXTENDS OrdersApi, CatalogLimits, TLC

VARIABLE part

LimitersInit ==
    /\ part \in {"orders", "catalog"}
    /\ ApiInit
    /\ LimitsInit
    /\ part = "orders" => \A q, r \in Requests : client[q] = client[r]

LimitersNext ==
    \/ part = "orders" /\ ApiNext /\ UNCHANGED <<part, limitsVars>>
    \/ part = "catalog" /\ LimitsNext /\ UNCHANGED <<part, apiVars>>

(* The service that does not run has only idle requests, of which neither *)
(* fairness asks anything.                                                 *)
LimitersSpec ==
    /\ LimitersInit
    /\ [][LimitersNext]_<<part, apiVars, limitsVars>>
    /\ ApiFairness
    /\ LimitsFairness
=============================================================================
