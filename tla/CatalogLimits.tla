--------------------------- MODULE CatalogLimits ---------------------------
(***************************************************************************)
(* The way of a request through the rate limiting of the catalog API: one  *)
(* of ConcurrencyPermitLimit permits of the global limiter first, then,    *)
(* for CategoriesController, one of the PermitLimit permits of the sliding *)
(* window of its client, then the handler, which awaits the database.      *)
(*                                                                         *)
(* The limiters are the framework's.  Both queues have the length 0, as in *)
(* RateLimitingOptions and appsettings.json, so nobody waits for a permit. *)
(* Before a refusal both limiters are asked a second time; here that is    *)
(* the only time.  /health, the images and Swagger are outside of both.    *)
(***************************************************************************)
EXTENDS Integers, FiniteSets

CONSTANTS
    Requests,                \* requests; one that is over may be made again
    Clients,                 \* remote addresses
    ConcurrencyPermitLimit,
    PermitLimit,
    SegmentsPerWindow

ASSUME LimitsAssumption ==
    /\ IsFiniteSet(Requests)
    /\ ConcurrencyPermitLimit \in Nat \ {0}
    /\ PermitLimit \in Nat \ {0}
    /\ SegmentsPerWindow \in Nat \ {0}

VARIABLES
    at,       \* at[r]: how far r is
    client,   \* client[r]: who makes it
    lease,    \* the requests whose permit of the global limiter is not disposed of
    free,     \* the permits the global limiter has
    left,     \* left[k]: the permits the window of client k has
    spent,    \* spent[k][i]: the permits k got i - 1 segments ago
    aborted   \* the requests whose client has disconnected

limitsVars == <<at, client, lease, free, left, spent, aborted>>

Segments == 1..SegmentsPerWindow
Places == {"idle", "full", "limited", "permitted", "working", "answered"}

Working == {r \in Requests : at[r] = "working"}
RefusedAtOnce == {r \in Requests : at[r] = "full"}

-----------------------------------------------------------------------------
LimitsInit ==
    /\ at = [r \in Requests |-> "idle"]
    /\ client \in [Requests -> Clients]
    /\ lease = {}
    /\ free = ConcurrencyPermitLimit
    /\ left = [k \in Clients |-> PermitLimit]
    /\ spent = [k \in Clients |-> [i \in Segments |-> 0]]
    /\ aborted = {}

(* The global limiter has no permit: 429. *)
RefuseAtOnce(r) ==
    /\ at[r] = "idle"
    /\ free = 0
    /\ at' = [at EXCEPT ![r] = "full"]
    /\ aborted' = aborted \ {r}
    /\ UNCHANGED <<client, lease, free, left, spent>>

Permit(r) ==
    /\ at[r] = "idle"
    /\ free > 0
    /\ at' = [at EXCEPT ![r] = "permitted"]
    /\ lease' = lease \cup {r}
    /\ free' = free - 1
    /\ aborted' = aborted \ {r}
    /\ UNCHANGED <<client, left, spent>>

(* Bug: the permit in hand is forgotten when the window has none. *)
LimitKeepingPermit(r) ==
    /\ at[r] = "permitted"
    /\ left[client[r]] = 0
    /\ at' = [at EXCEPT ![r] = "limited"]
    /\ lease' = lease \ {r}
    /\ UNCHANGED <<client, free, left, spent, aborted>>

(* The window of the client has no permit: the global one goes back, 429. *)
Limit(r) ==
    /\ at[r] = "permitted"
    /\ left[client[r]] = 0
    /\ at' = [at EXCEPT ![r] = "limited"]
    /\ lease' = lease \ {r}
    /\ free' = free + 1
    /\ UNCHANGED <<client, left, spent, aborted>>

Charge(r) ==
    /\ at[r] = "permitted"
    /\ left[client[r]] > 0
    /\ at' = [at EXCEPT ![r] = "working"]
    /\ left' = [left EXCEPT ![client[r]] = @ - 1]
    /\ spent' = [spent EXCEPT ![client[r]][1] = @ + 1]
    /\ UNCHANGED <<client, lease, free, aborted>>

(* A route that is none of the controller's has no window. *)
Unmatched(r) ==
    /\ at[r] = "permitted"
    /\ at' = [at EXCEPT ![r] = "working"]
    /\ UNCHANGED <<client, lease, free, left, spent, aborted>>

(* Bug: the permit goes back when the connection ends. *)
DisconnectReleasing(r) ==
    /\ at[r] = "working" /\ r \in lease
    /\ aborted' = aborted \cup {r}
    /\ lease' = lease \ {r}
    /\ free' = free + 1
    /\ UNCHANGED <<at, client, left, spent>>

(* The client goes away, which cancels the handler's awaits; the handler   *)
(* has yet to notice.                                                      *)
Disconnect(r) ==
    /\ at[r] = "working"
    /\ aborted' = aborted \cup {r}
    /\ UNCHANGED <<at, client, lease, free, left, spent>>

(* Bug: only a handler that returns gives its permit back. *)
EndUnlessThrown(r) ==
    /\ at[r] = "working"
    /\ at' = [at EXCEPT ![r] = "answered"]
    /\ IF r \in aborted
       THEN UNCHANGED <<lease, free>>
       ELSE lease' = lease \ {r} /\ free' = free + 1
    /\ UNCHANGED <<client, left, spent, aborted>>

(* The handler returns or throws, and the lease is disposed of; only then  *)
(* ExceptionHandlingMiddleware, further out, writes its 500.               *)
End(r) ==
    /\ at[r] = "working"
    /\ at' = [at EXCEPT ![r] = "answered"]
    /\ lease' = lease \ {r}
    /\ free' = IF r \in lease THEN free + 1 ELSE free
    /\ UNCHANGED <<client, left, spent, aborted>>

(* The response is out, and another request may be made, by anybody. *)
Leave(r) ==
    /\ at[r] \in {"full", "limited", "answered"}
    /\ at' = [at EXCEPT ![r] = "idle"]
    /\ \E k \in Clients : client' = [client EXCEPT ![r] = k]
    /\ UNCHANGED <<lease, free, left, spent, aborted>>

(* The window of client k moves on by one segment. *)
Slide(k) ==
    /\ left' = [left EXCEPT ![k] = @ + spent[k][SegmentsPerWindow]]
    /\ spent' = [spent EXCEPT ![k] = [i \in Segments |-> IF i = 1 THEN 0 ELSE @[i - 1]]]
    /\ UNCHANGED <<at, client, lease, free, aborted>>

AskWindow(r) == Limit(r) \/ Charge(r) \/ Unmatched(r)

LimitsNext ==
    \/ \E r \in Requests : \/ RefuseAtOnce(r) \/ Permit(r)
                           \/ AskWindow(r)
                           \/ Disconnect(r) \/ End(r)
                           \/ Leave(r)
    \/ \E k \in Clients : Slide(k)

LimitsSpec == LimitsInit /\ [][LimitsNext]_limitsVars

(* Nothing waits for a window, and every query ends (the command timeout). *)
LimitsFairness ==
    \A r \in Requests : WF_limitsVars(AskWindow(r)) /\ WF_limitsVars(End(r))

FairLimitsSpec == LimitsSpec /\ LimitsFairness

-----------------------------------------------------------------------------
(* Types; the global limiter never has more permits than its limit. *)
LimitsTypeOK ==
    /\ at \in [Requests -> Places]
    /\ client \in [Requests -> Clients]
    /\ lease \in SUBSET Requests
    /\ free \in 0..ConcurrencyPermitLimit
    /\ left \in [Clients -> Nat]
    /\ spent \in [Clients -> [Segments -> Nat]]
    /\ aborted \in SUBSET Requests

(* "Caps how many requests are being processed at once, across every       *)
(* client" (RateLimitingExtensions.cs 12-16): also the handlers whose      *)
(* client is gone and that still hold a database connection.               *)
HandlersAreCapped == Cardinality(Working) <= ConcurrencyPermitLimit

(* The global limiter is a pool of slots: no permit is lost or made up on  *)
(* any way a request may take, and 429 without a look at the window is     *)
(* only given while all of them are held (lines 46-65).                    *)
Permits == INSTANCE SlotPool WITH
    Users <- Requests, Size <- ConcurrencyPermitLimit,
    holders <- lease, refused <- RefusedAtOnce

ImplementsPermitPool == Permits!PoolSpec

(* No request keeps its permit for ever, whether the window refuses it, it *)
(* throws, or its client is gone.                                          *)
PermitsReturn == \A r \in Requests : r \in lease ~> r \notin lease
=============================================================================
