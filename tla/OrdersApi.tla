------------------------------ MODULE OrdersApi ------------------------------
(***************************************************************************)
(* The way of a request to OrdersController through one server-orders      *)
(* process: ConcurrencyLimitMiddleware, then the global ThrottlerGuard and *)
(* ValidationPipe, then the handler, which awaits Elasticsearch.           *)
(*                                                                         *)
(* The middleware releases its slot on the response's 'finish' and 'close' *)
(* events.  'close' comes when the response is done or the client's        *)
(* connection is gone, whichever is first; nothing tells the handler.      *)
(***************************************************************************)
EXTENDS Integers, FiniteSets

CONSTANTS
    Calls,         \* requests; a call that is over may be made again
    MaxConcurrent  \* concurrency.maxConcurrentRequests

ASSUME ApiAssumption == MaxConcurrent \in Nat /\ IsFiniteSet(Calls)

VARIABLES
    inFlight,  \* the middleware's counter
    stage,     \* stage[c]: how far c is
    released,  \* released[c]: the flag of the closure use() made for c
    fired      \* fired[c]: the events c's response has emitted

apiVars == <<inFlight, stage, released, fired>>

Events == {"finish", "close"}

(* Calls the middleware let in and that hold its slot. *)
Admitted == {c \in Calls : stage[c] \in {"admitted", "working", "answered"}}
Holders == {c \in Admitted : ~ released[c]}
Refused == {c \in Calls : stage[c] = "refused"}

-----------------------------------------------------------------------------
ApiInit ==
    /\ inFlight = 0
    /\ stage = [c \in Calls |-> "idle"]
    /\ released = [c \in Calls |-> FALSE]
    /\ fired = [c \in Calls |-> {}]

(* use(): 503, or count the request and listen for its end. *)
Reject(c) ==
    /\ stage[c] = "idle"
    /\ inFlight >= MaxConcurrent
    /\ stage' = [stage EXCEPT ![c] = "refused"]
    /\ UNCHANGED <<inFlight, released, fired>>

(* Bug: one slot too many. *)
AdmitOneMore(c) ==
    /\ stage[c] = "idle"
    /\ inFlight <= MaxConcurrent
    /\ inFlight' = inFlight + 1
    /\ stage' = [stage EXCEPT ![c] = "admitted"]
    /\ released' = [released EXCEPT ![c] = FALSE]
    /\ fired' = [fired EXCEPT ![c] = {}]

Admit(c) ==
    /\ stage[c] = "idle"
    /\ inFlight < MaxConcurrent
    /\ inFlight' = inFlight + 1
    /\ stage' = [stage EXCEPT ![c] = "admitted"]
    /\ released' = [released EXCEPT ![c] = FALSE]
    /\ fired' = [fired EXCEPT ![c] = {}]

(* The throttler (429) or the validation pipe (400) throws, and the        *)
(* exception filter answers.                                               *)
TurnAway(c) ==
    /\ stage[c] = "admitted"
    /\ stage' = [stage EXCEPT ![c] = "answered"]
    /\ UNCHANGED <<inFlight, released, fired>>

(* The handler's call of the Elasticsearch client. *)
Begin(c) ==
    /\ stage[c] = "admitted"
    /\ stage' = [stage EXCEPT ![c] = "working"]
    /\ UNCHANGED <<inFlight, released, fired>>

(* Elasticsearch answered, failed or timed out; the response is written,   *)
(* whether or not anybody is still connected.                              *)
Complete(c) ==
    /\ stage[c] = "working"
    /\ stage' = [stage EXCEPT ![c] = "answered"]
    /\ UNCHANGED <<inFlight, released, fired>>

(* Bug: no guard against the second event. *)
OnEventUnguarded(c, e) ==
    /\ e \notin fired[c]
    /\ fired' = [fired EXCEPT ![c] = @ \cup {e}]
    /\ released' = [released EXCEPT ![c] = TRUE]
    /\ inFlight' = inFlight - 1
    /\ UNCHANGED stage

(* The release closure, run by each event. *)
OnEvent(c, e) ==
    /\ e \notin fired[c]
    /\ fired' = [fired EXCEPT ![c] = @ \cup {e}]
    /\ released' = [released EXCEPT ![c] = TRUE]
    /\ inFlight' = IF released[c] THEN inFlight ELSE inFlight - 1
    /\ UNCHANGED stage

Finish(c) == stage[c] = "answered" /\ OnEvent(c, "finish")

(* Bug: nothing listens for 'close'. *)
CloseUnheard(c) ==
    /\ c \in Admitted /\ "close" \notin fired[c]
    /\ fired' = [fired EXCEPT ![c] = @ \cup {"close"}]
    /\ UNCHANGED <<inFlight, stage, released>>

Close(c) == c \in Admitted /\ OnEvent(c, "close")

(* The call is over, and its client may make another. *)
Over(c) ==
    /\ stage[c] = "refused" \/ (stage[c] = "answered" /\ "close" \in fired[c])
    /\ stage' = [stage EXCEPT ![c] = "idle"]
    /\ UNCHANGED <<inFlight, released, fired>>

Process(c) == TurnAway(c) \/ Begin(c) \/ Complete(c)

ApiNext ==
    \E c \in Calls : \/ Reject(c) \/ Admit(c)
                     \/ Process(c)
                     \/ Finish(c) \/ Close(c)
                     \/ Over(c)

ApiSpec == ApiInit /\ [][ApiNext]_apiVars

(* The guard and the pipe end, the Elasticsearch client gives every call   *)
(* an answer, an error or a timeout, and Node emits 'close' for every      *)
(* response that is done.  Clients need not call, nor disconnect.          *)
ApiFairness ==
    \A c \in Calls : WF_apiVars(Process(c)) /\ WF_apiVars(stage[c] = "answered" /\ Close(c))

FairApiSpec == ApiSpec /\ ApiFairness

-----------------------------------------------------------------------------
(* Types; the counter never leaves 0..MaxConcurrent. *)
ApiTypeOK ==
    /\ inFlight \in 0..MaxConcurrent
    /\ stage \in [Calls -> {"idle", "refused", "admitted", "working", "answered"}]
    /\ released \in [Calls -> BOOLEAN]
    /\ fired \in [Calls -> SUBSET Events]

(* The counter is the number of requests let in whose response has neither *)
(* finished nor lost its connection, although both events may fire for one *)
(* response and in either order: it never drifts, up (slots that are never *)
(* given back) or down (more requests than slots).  Lines 39-50.           *)
InFlightCountsHolders == inFlight = Cardinality(Holders)

(* The middleware is a pool of MaxConcurrent slots: at most so many        *)
(* responses are open, and a 503 is only given when they are.              *)
Slots == INSTANCE SlotPool WITH
    Users <- Calls, Size <- MaxConcurrent, holders <- Holders, refused <- Refused

ImplementsSlotPool == Slots!PoolSpec

(* No slot is held for ever. *)
SlotsReturn == \A c \in Calls : c \in Holders ~> c \notin Holders

-----------------------------------------------------------------------------
(* A claim the code does not keep: concurrency-limit.middleware.ts 6-15    *)
(* says the middleware caps the work this process holds at once.  A client *)
(* that goes away frees its slot while its Elasticsearch call goes on.     *)
WorkIsCapped == Cardinality({c \in Calls : stage[c] = "working"}) <= MaxConcurrent
=============================================================================
