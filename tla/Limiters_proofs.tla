-------------------------- MODULE Limiters_proofs --------------------------
(***************************************************************************)
(* For every number of requests and of slots: the counter of               *)
(* ConcurrencyLimitMiddleware is the number of slots that are held, the    *)
(* global limiter of the catalog API loses and makes up no permit, and     *)
(* both implement SlotPool.                                                *)
(***************************************************************************)
EXTENDS OrdersApi, CatalogLimits, FiniteSetTheorems, TLAPS

(* server-orders. *)

(* An event has set the flag of its closure.  Without this, a request that *)
(* is over could take a held slot with it. *)
EventsRelease == \A c \in Calls : fired[c] # {} => released[c]

ApiInv == ApiTypeOK /\ InFlightCountsHolders /\ EventsRelease

-----------------------------------------------------------------------------
(* The set of holders is finite. *)
LEMMA HoldersFinite == IsFiniteSet(Holders)
  BY ApiAssumption, FS_Subset DEF Holders, Admitted

(* The initial state satisfies the invariant. *)
LEMMA ApiInitInv == ApiInit => ApiInv
  <1>1. SUFFICES ASSUME ApiInit PROVE ApiInv
    OBVIOUS
  <1>2. ApiTypeOK /\ EventsRelease
    BY <1>1, ApiAssumption DEF ApiInit, ApiTypeOK, EventsRelease, Events
  <1>3. Holders = {}
    BY <1>1 DEF ApiInit, Holders, Admitted
  <1>4. InFlightCountsHolders
    BY <1>1, <1>3, FS_EmptySet DEF ApiInit, InFlightCountsHolders
  <1>5. QED
    BY <1>2, <1>4 DEF ApiInv

(* use(): the request becomes a holder and is counted. *)
LEMMA AdmitInv ==
  ASSUME ApiInv, NEW c \in Calls, Admit(c)
  PROVE  ApiInv' /\ c \notin Holders /\ Holders' = Holders \cup {c}
  <1>1. ApiTypeOK' /\ EventsRelease'
    BY ApiAssumption DEF ApiInv, ApiTypeOK, EventsRelease, Admit, Events
  <1>2. c \notin Holders /\ Holders' = Holders \cup {c}
    BY DEF ApiInv, ApiTypeOK, Admit, Holders, Admitted
  <1>3. Cardinality(Holders') = Cardinality(Holders) + 1
    BY <1>2, HoldersFinite, FS_AddElement
  <1>4. InFlightCountsHolders'
    BY <1>3 DEF ApiInv, InFlightCountsHolders, Admit
  <1>5. QED
    BY <1>1, <1>2, <1>4 DEF ApiInv

(* The first event of a response takes its request off the holders, and    *)
(* the counter down; a second one changes neither.                         *)
LEMMA OnEventInv ==
  ASSUME ApiInv, NEW c \in Calls, NEW e \in Events, c \in Admitted, OnEvent(c, e)
  PROVE  /\ ApiInv'
         /\ released[c] => Holders' = Holders
         /\ ~ released[c] => c \in Holders /\ Holders' = Holders \ {c}
  <1>1. EventsRelease'
    BY DEF ApiInv, ApiTypeOK, EventsRelease, OnEvent
  <1>2. CASE released[c]
    <2>1. released' = released
      BY <1>2 DEF ApiInv, ApiTypeOK, OnEvent
    <2>2. Holders' = Holders
      BY <2>1 DEF OnEvent, Holders, Admitted
    <2>3. ApiTypeOK' /\ inFlight' = inFlight
      BY <1>2, <2>1 DEF ApiInv, ApiTypeOK, OnEvent
    <2>4. QED
      BY <1>1, <1>2, <2>2, <2>3 DEF ApiInv, InFlightCountsHolders
  <1>3. CASE ~ released[c]
    <2>1. c \in Holders /\ Holders' = Holders \ {c}
      BY <1>3 DEF ApiInv, ApiTypeOK, OnEvent, Holders, Admitted
    <2>2. Cardinality(Holders') = Cardinality(Holders) - 1
      BY <2>1, HoldersFinite, FS_RemoveElement
    <2>3. Cardinality(Holders') \in Nat
      BY <2>1, HoldersFinite, FS_Subset, FS_CardinalityType
    <2>4. inFlight' = inFlight - 1
      BY <1>3 DEF OnEvent
    <2>5. InFlightCountsHolders' /\ inFlight' \in 0..MaxConcurrent
      BY <2>2, <2>3, <2>4, ApiAssumption DEF ApiInv, ApiTypeOK, InFlightCountsHolders
    <2>6. ApiTypeOK'
      BY <2>5 DEF ApiInv, ApiTypeOK, OnEvent
    <2>7. QED
      BY <1>1, <1>3, <2>1, <2>5, <2>6 DEF ApiInv
  <1>4. QED
    BY <1>2, <1>3

(* Every other action leaves the holders and the counter alone. *)
LEMMA QuietInv ==
  ASSUME ApiInv, NEW c \in Calls, Reject(c) \/ Process(c) \/ Over(c)
  PROVE  ApiInv' /\ Holders' = Holders
  <1>1. ApiTypeOK' /\ EventsRelease' /\ inFlight' = inFlight
    BY DEF ApiInv, ApiTypeOK, EventsRelease, Reject, Process, TurnAway, Begin, Complete, Over
  <1>2. Holders' = Holders
    <2>1. CASE Reject(c) \/ Process(c)
      BY <2>1 DEF ApiInv, ApiTypeOK, Reject, Process, TurnAway, Begin, Complete,
                  Holders, Admitted
    <2>2. CASE Over(c)
      BY <2>2 DEF ApiInv, ApiTypeOK, EventsRelease, Over, Holders, Admitted
    <2>3. QED
      BY <2>1, <2>2
  <1>3. QED
    BY <1>1, <1>2 DEF ApiInv, InFlightCountsHolders

(* The invariant is inductive. *)
LEMMA ApiNextInv == ApiInv /\ [ApiNext]_apiVars => ApiInv'
  <1>1. SUFFICES ASSUME ApiInv, [ApiNext]_apiVars PROVE ApiInv'
    OBVIOUS
  <1>2. CASE UNCHANGED apiVars
    BY <1>1, <1>2 DEF apiVars, ApiInv, ApiTypeOK, InFlightCountsHolders, EventsRelease,
                      Holders, Admitted
  <1>3. ASSUME NEW c \in Calls, Admit(c) PROVE ApiInv'
    BY <1>1, <1>3, AdmitInv
  <1>4. ASSUME NEW c \in Calls, Reject(c) \/ Process(c) \/ Over(c) PROVE ApiInv'
    BY <1>1, <1>4, QuietInv
  <1>5. ASSUME NEW c \in Calls, Finish(c) \/ Close(c) PROVE ApiInv'
    BY <1>1, <1>5, OnEventInv DEF Finish, Close, Admitted, Events
  <1>6. QED
    BY <1>1, <1>2, <1>3, <1>4, <1>5 DEF ApiNext

(* Types: in particular the counter stays in 0..MaxConcurrent, however     *)
(* many requests there are and in whatever order their events fire.        *)
THEOREM ApiTypes == ApiSpec => []ApiTypeOK
  <1>1. ApiInv => ApiTypeOK
    BY DEF ApiInv
  <1>2. QED
    BY <1>1, ApiInitInv, ApiNextInv, PTL DEF ApiSpec

(* The counter never drifts from the number of responses that have neither *)
(* finished nor lost their connection.                                     *)
THEOREM CounterIsExact == ApiSpec => []InFlightCountsHolders
  <1>1. ApiInv => InFlightCountsHolders
    BY DEF ApiInv
  <1>2. QED
    BY <1>1, ApiInitInv, ApiNextInv, PTL DEF ApiSpec

(* What is left of the cap on the work (WorkIsCapped, which the run        *)
(* orders_api_work refutes): the calls Elasticsearch works on for clients  *)
(* that are still there never exceed the slots.                            *)
ConnectedWorkIsCapped ==
    Cardinality({c \in Calls : stage[c] = "working" /\ "close" \notin fired[c]})
        <= MaxConcurrent

(* Nothing finishes before it is answered, and only an event releases.     *)
EventsComeInTime ==
    \A c \in Calls : /\ stage[c] \in {"admitted", "working"} => "finish" \notin fired[c]
                     /\ released[c] => fired[c] # {}

LEMMA EventsComeInTimeInv ==
  /\ ApiInit => EventsComeInTime
  /\ ApiInv /\ EventsComeInTime /\ [ApiNext]_apiVars => EventsComeInTime'
  <1>1. ApiInit => EventsComeInTime
    BY DEF ApiInit, EventsComeInTime
  <1>2. ASSUME ApiTypeOK, EventsComeInTime, [ApiNext]_apiVars
        PROVE  EventsComeInTime'
    <2>1. ASSUME NEW c \in Calls, NEW e \in Events, OnEvent(c, e),
                 e = "finish" => stage[c] = "answered"
          PROVE  EventsComeInTime'
      BY <1>2, <2>1 DEF ApiTypeOK, EventsComeInTime, OnEvent
    <2>2. ASSUME NEW c \in Calls, Finish(c) \/ Close(c) PROVE EventsComeInTime'
      BY <2>1, <2>2 DEF Finish, Close, Events
    <2>3. ASSUME NEW c \in Calls, Reject(c) \/ Admit(c) \/ Process(c) \/ Over(c)
          PROVE  EventsComeInTime'
      BY <1>2, <2>3 DEF ApiTypeOK, EventsComeInTime, Reject, Admit, Process, TurnAway, Begin,
                        Complete, Over
    <2>4. CASE UNCHANGED apiVars
      BY <1>2, <2>4 DEF EventsComeInTime, apiVars
    <2>5. QED
      BY <1>2, <2>2, <2>3, <2>4 DEF ApiNext
  <1>3. QED
    BY <1>1, <1>2 DEF ApiInv

(* A client that stays keeps its slot as long as it is worked for. *)
THEOREM WorkOfTheConnectedIsCapped == ApiSpec => []ConnectedWorkIsCapped
  <1>1. ApiInv /\ EventsComeInTime => ConnectedWorkIsCapped
    <2> DEFINE Served == {c \in Calls : stage[c] = "working" /\ "close" \notin fired[c]}
    <2>1. SUFFICES ASSUME ApiInv, EventsComeInTime PROVE Cardinality(Served) <= MaxConcurrent
      BY DEF ConnectedWorkIsCapped
    <2>2. \A c \in Served : fired[c] = {}
      BY <2>1 DEF EventsComeInTime, ApiInv, ApiTypeOK, Events
    <2>3. Served \subseteq Holders
      BY <2>1, <2>2 DEF EventsComeInTime, ApiInv, ApiTypeOK, Holders, Admitted
    <2>4. IsFiniteSet(Served) /\ Cardinality(Served) <= Cardinality(Holders)
      BY <2>3, HoldersFinite, FS_Subset
    <2>5. Cardinality(Served) \in Nat /\ Cardinality(Holders) <= MaxConcurrent
      BY <2>1, <2>4, FS_CardinalityType DEF ApiInv, InFlightCountsHolders, ApiTypeOK
    <2>6. Cardinality(Holders) \in Nat
      BY HoldersFinite, FS_CardinalityType
    <2> HIDE DEF Served
    <2>7. QED
      BY <2>4, <2>5, <2>6, ApiAssumption
  <1>2. QED
    BY <1>1, ApiInitInv, ApiNextInv, EventsComeInTimeInv, PTL DEF ApiSpec

-----------------------------------------------------------------------------
(* The middleware implements the pool. *)

(* The pool counts its holders as FiniteSets does. *)
LEMMA PoolCardinality == Slots!Cardinality(Holders) = Cardinality(Holders)
  BY DEF Slots!Cardinality, Cardinality

(* Every step is a step of the pool, or changes nothing of it. *)
LEMMA PoolStep == ApiInv /\ [ApiNext]_apiVars => [Slots!PoolNext]_(Slots!poolVars)
  <1>1. SUFFICES ASSUME ApiInv, [ApiNext]_apiVars
                 PROVE  [Slots!PoolNext]_(Slots!poolVars)
    OBVIOUS
  <1> USE DEF Slots!poolVars
  <1>2. CASE UNCHANGED apiVars
    BY <1>2 DEF apiVars, Holders, Admitted, Refused
  <1>3. ASSUME NEW c \in Calls, Admit(c) PROVE Slots!PoolNext
    <2>1. c \notin Holders /\ Holders' = Holders \cup {c}
      BY <1>1, <1>3, AdmitInv
    <2>2. c \notin Refused /\ Refused' = Refused
      BY <1>1, <1>3 DEF ApiInv, ApiTypeOK, Admit, Refused
    <2>3. Cardinality(Holders) < MaxConcurrent
      BY <1>1, <1>3 DEF ApiInv, InFlightCountsHolders, Admit
    <2>4. Slots!Acquire(c)
      BY <2>1, <2>2, <2>3, PoolCardinality DEF Slots!Acquire
    <2>5. QED
      BY <2>4 DEF Slots!PoolNext
  <1>4. ASSUME NEW c \in Calls, Reject(c) PROVE Slots!PoolNext
    <2>1. Holders' = Holders
      BY <1>1, <1>4, QuietInv
    <2>2. c \notin Holders \cup Refused /\ Refused' = Refused \cup {c}
      BY <1>1, <1>4 DEF ApiInv, ApiTypeOK, Reject, Refused, Holders, Admitted
    <2>3. Cardinality(Holders) >= MaxConcurrent
      BY <1>1, <1>4 DEF ApiInv, InFlightCountsHolders, Reject
    <2>4. Slots!Refuse(c)
      BY <2>1, <2>2, <2>3, PoolCardinality DEF Slots!Refuse
    <2>5. QED
      BY <2>4 DEF Slots!PoolNext
  <1>5. ASSUME NEW c \in Calls, Process(c) PROVE UNCHANGED <<Holders, Refused>>
    <2>1. Refused' = Refused
      BY <1>1, <1>5 DEF ApiInv, ApiTypeOK, Process, TurnAway, Begin, Complete, Refused
    <2>2. QED
      BY <1>1, <1>5, <2>1, QuietInv
  <1>6. ASSUME NEW c \in Calls, NEW e \in Events, c \in Admitted, OnEvent(c, e)
        PROVE  Slots!PoolNext \/ UNCHANGED <<Holders, Refused>>
    <2>1. Refused' = Refused
      BY <1>6 DEF OnEvent, Refused
    <2>2. CASE released[c]
      BY <1>1, <1>6, <2>1, <2>2, OnEventInv
    <2>3. CASE ~ released[c]
      <3>1. Slots!Release(c)
        BY <1>1, <1>6, <2>1, <2>3, OnEventInv DEF Slots!Release
      <3>2. QED
        BY <3>1 DEF Slots!PoolNext
    <2>4. QED
      BY <2>2, <2>3
  <1>7. ASSUME NEW c \in Calls, Over(c)
        PROVE  Slots!PoolNext \/ UNCHANGED <<Holders, Refused>>
    <2>1. Holders' = Holders
      BY <1>1, <1>7, QuietInv
    <2>2. CASE c \in Refused
      <3>1. Refused' = Refused \ {c}
        BY <1>1, <1>7, <2>2 DEF ApiInv, ApiTypeOK, Over, Refused
      <3>2. Slots!GoAway(c)
        BY <2>1, <2>2, <3>1 DEF Slots!GoAway
      <3>3. QED
        BY <3>2 DEF Slots!PoolNext
    <2>3. CASE c \notin Refused
      <3>1. Refused' = Refused
        BY <1>1, <1>7, <2>3 DEF ApiInv, ApiTypeOK, Over, Refused
      <3>2. QED
        BY <2>1, <3>1
    <2>4. QED
      BY <2>2, <2>3
  <1>8. ASSUME NEW c \in Calls, Finish(c) \/ Close(c)
        PROVE  Slots!PoolNext \/ UNCHANGED <<Holders, Refused>>
    BY <1>6, <1>8 DEF Finish, Close, Admitted, Events
  <1>9. QED
    BY <1>1, <1>2, <1>3, <1>4, <1>5, <1>7, <1>8 DEF ApiNext

(* However many requests there are: at most MaxConcurrent responses are    *)
(* open, and a request is answered 503 only when so many are.              *)
THEOREM ApiImplementsPool == ApiSpec => ImplementsSlotPool
  <1>1. ApiInit => Slots!PoolInit
    BY DEF ApiInit, Slots!PoolInit, Holders, Admitted, Refused
  <1>2. QED
    BY <1>1, ApiInitInv, ApiNextInv, PoolStep, PTL
       DEF ApiSpec, ImplementsSlotPool, Slots!PoolSpec

-----------------------------------------------------------------------------
(* The catalog API. *)

(* A lease is held from the global limiter's permit to the end of the      *)
(* handler, or to the refusal of the window, and by nobody else.           *)
LeasesAreUsed == \A r \in Requests : r \in lease <=> at[r] \in {"permitted", "working"}

(* No permit is lost or made up. *)
PermitsAdd == free = ConcurrencyPermitLimit - Cardinality(lease)

LimitsInv == LimitsTypeOK /\ LeasesAreUsed /\ PermitsAdd

-----------------------------------------------------------------------------
LEMMA LeaseFinite == LimitsTypeOK => IsFiniteSet(lease) /\ Cardinality(lease) \in Nat
  BY LimitsAssumption, FS_Subset, FS_CardinalityType DEF LimitsTypeOK

LEMMA LimitsInitInv == LimitsInit => LimitsInv
  <1>1. SUFFICES ASSUME LimitsInit PROVE LimitsInv
    OBVIOUS
  <1>2. LimitsTypeOK /\ LeasesAreUsed
    BY <1>1, LimitsAssumption
       DEF LimitsInit, LimitsTypeOK, LeasesAreUsed, Places, Segments
  <1>3. PermitsAdd
    BY <1>1, FS_EmptySet, LimitsAssumption DEF LimitsInit, PermitsAdd
  <1>4. QED
    BY <1>2, <1>3 DEF LimitsInv

(* The global limiter gives a permit. *)
LEMMA PermitInv ==
  ASSUME LimitsInv, NEW r \in Requests, Permit(r)
  PROVE  LimitsInv' /\ r \notin lease /\ lease' = lease \cup {r}
  <1>1. r \notin lease /\ lease' = lease \cup {r} /\ free' = free - 1
    BY DEF LimitsInv, LeasesAreUsed, Permit
  <1>2. Cardinality(lease') = Cardinality(lease) + 1
    BY <1>1, LeaseFinite, FS_AddElement DEF LimitsInv
  <1>3. LimitsTypeOK' /\ LeasesAreUsed'
    BY <1>1, LimitsAssumption DEF LimitsInv, LimitsTypeOK, LeasesAreUsed, Permit, Places
  <1>4. PermitsAdd'
    BY <1>1, <1>2, LeaseFinite, LimitsAssumption DEF LimitsInv, LimitsTypeOK, PermitsAdd
  <1>5. QED
    BY <1>1, <1>3, <1>4 DEF LimitsInv

(* It gets one back, from a refusal or at the end of the handler. *)
LEMMA GiveBackInv ==
  ASSUME LimitsInv, NEW r \in Requests, Limit(r) \/ End(r)
  PROVE  LimitsInv' /\ r \in lease /\ lease' = lease \ {r}
  <1>1. r \in lease /\ lease' = lease \ {r} /\ free' = free + 1
    BY DEF LimitsInv, LeasesAreUsed, Limit, End
  <1>2. Cardinality(lease') = Cardinality(lease) - 1
    BY <1>1, LeaseFinite, FS_RemoveElement DEF LimitsInv
  <1>3. Cardinality(lease') \in Nat
    BY <1>1, LeaseFinite, FS_RemoveElement, FS_CardinalityType DEF LimitsInv
  <1>4. PermitsAdd' /\ free' \in 0..ConcurrencyPermitLimit
    BY <1>1, <1>2, <1>3, LeaseFinite, LimitsAssumption DEF LimitsInv, LimitsTypeOK, PermitsAdd
  <1>5. LimitsTypeOK' /\ LeasesAreUsed'
    BY <1>1, <1>4 DEF LimitsInv, LimitsTypeOK, LeasesAreUsed, Limit, End, Places
  <1>6. QED
    BY <1>1, <1>4, <1>5 DEF LimitsInv

(* The other steps of a request leave the global limiter alone. *)
LEMMA OtherInv ==
  ASSUME LimitsInv, NEW r \in Requests,
         RefuseAtOnce(r) \/ Charge(r) \/ Unmatched(r) \/ Disconnect(r) \/ Leave(r)
  PROVE  LimitsInv' /\ lease' = lease
  <1>1. lease' = lease /\ free' = free
    BY DEF RefuseAtOnce, Charge, Unmatched, Disconnect, Leave
  <1>2. /\ left' \in [Clients -> Nat] /\ spent' \in [Clients -> [Segments -> Nat]]
        /\ client' \in [Requests -> Clients] /\ aborted' \in SUBSET Requests
    <2>1. CASE Charge(r)
      <3> DEFINE k == client[r]
      <3>1. k \in Clients /\ left[k] \in Nat /\ left[k] > 0 /\ spent[k] \in [Segments -> Nat]
        BY <2>1 DEF LimitsInv, LimitsTypeOK, Charge
      <3>2. [spent[k] EXCEPT ![1] = @ + 1] \in [Segments -> Nat]
        BY <3>1, LimitsAssumption DEF Segments
      <3>3. QED
        BY <2>1, <3>1, <3>2 DEF LimitsInv, LimitsTypeOK, Charge
    <2>2. CASE Leave(r)
      BY <2>2 DEF LimitsInv, LimitsTypeOK, Leave
    <2>3. CASE RefuseAtOnce(r) \/ Unmatched(r) \/ Disconnect(r)
      BY <2>3 DEF LimitsInv, LimitsTypeOK, RefuseAtOnce, Unmatched, Disconnect
    <2>4. QED
      BY <2>1, <2>2, <2>3
  <1>3. at' \in [Requests -> Places] /\ LeasesAreUsed'
    BY <1>1 DEF LimitsInv, LimitsTypeOK, LeasesAreUsed, Places,
                RefuseAtOnce, Charge, Unmatched, Disconnect, Leave
  <1>4. QED
    BY <1>1, <1>2, <1>3 DEF LimitsInv, LimitsTypeOK, PermitsAdd

(* A window slides. *)
LEMMA SlideInv ==
  ASSUME LimitsInv, NEW k \in Clients, Slide(k)
  PROVE  LimitsInv' /\ lease' = lease /\ at' = at
  <1> DEFINE moved == [i \in Segments |-> IF i = 1 THEN 0 ELSE spent[k][i - 1]]
  <1>1. spent[k] \in [Segments -> Nat] /\ left[k] \in Nat
    BY DEF LimitsInv, LimitsTypeOK
  <1>2. spent[k][SegmentsPerWindow] \in Nat
    BY <1>1, LimitsAssumption DEF Segments
  <1>3. moved \in [Segments -> Nat]
    BY <1>1, LimitsAssumption DEF Segments
  <1>4. left' \in [Clients -> Nat] /\ spent' \in [Clients -> [Segments -> Nat]]
    BY <1>1, <1>2, <1>3 DEF LimitsInv, LimitsTypeOK, Slide
  <1>5. QED
    BY <1>4 DEF LimitsInv, LimitsTypeOK, LeasesAreUsed, PermitsAdd, Slide

LEMMA LimitsNextInv == LimitsInv /\ [LimitsNext]_limitsVars => LimitsInv'
  <1>1. SUFFICES ASSUME LimitsInv, [LimitsNext]_limitsVars PROVE LimitsInv'
    OBVIOUS
  <1>2. CASE UNCHANGED limitsVars
    BY <1>1, <1>2 DEF limitsVars, LimitsInv, LimitsTypeOK, LeasesAreUsed, PermitsAdd
  <1>3. ASSUME NEW r \in Requests, Permit(r) PROVE LimitsInv'
    BY <1>1, <1>3, PermitInv
  <1>4. ASSUME NEW r \in Requests, Limit(r) \/ End(r) PROVE LimitsInv'
    BY <1>1, <1>4, GiveBackInv
  <1>5. ASSUME NEW r \in Requests,
               RefuseAtOnce(r) \/ Charge(r) \/ Unmatched(r) \/ Disconnect(r) \/ Leave(r)
        PROVE  LimitsInv'
    BY <1>1, <1>5, OtherInv
  <1>6. ASSUME NEW k \in Clients, Slide(k) PROVE LimitsInv'
    BY <1>1, <1>6, SlideInv
  <1>7. QED
    BY <1>1, <1>2, <1>3, <1>4, <1>5, <1>6 DEF LimitsNext, AskWindow

(* Types: in particular the global limiter has between none and all of its *)
(* permits, however many requests there are.                               *)
THEOREM LimitsTypes == LimitsSpec => []LimitsTypeOK
  <1>1. LimitsInv => LimitsTypeOK
    BY DEF LimitsInv
  <1>2. QED
    BY <1>1, LimitsInitInv, LimitsNextInv, PTL DEF LimitsSpec

(* No more handlers run than the global limiter permits, those included    *)
(* whose client is gone.                                                   *)
THEOREM HandlersStayCapped == LimitsSpec => []HandlersAreCapped
  <1>1. LimitsInv => HandlersAreCapped
    <2>1. SUFFICES ASSUME LimitsInv PROVE HandlersAreCapped
      OBVIOUS
    <2>2. Working \subseteq lease
      BY <2>1 DEF LimitsInv, LeasesAreUsed, Working
    <2>3. Cardinality(Working) \in Nat /\ Cardinality(Working) <= Cardinality(lease)
      BY <2>1, <2>2, LeaseFinite, FS_Subset, FS_CardinalityType DEF LimitsInv
    <2>4. Cardinality(lease) <= ConcurrencyPermitLimit
      BY <2>1, LeaseFinite, LimitsAssumption DEF LimitsInv, LimitsTypeOK, PermitsAdd
    <2>5. QED
      BY <2>1, <2>3, <2>4, LeaseFinite, LimitsAssumption DEF LimitsInv, HandlersAreCapped
  <1>2. QED
    BY <1>1, LimitsInitInv, LimitsNextInv, PTL DEF LimitsSpec

-----------------------------------------------------------------------------
(* The global limiter implements the pool, on every way a request takes    *)
(* through it.                                                             *)

LEMMA PermitsCardinality == Permits!Cardinality(lease) = Cardinality(lease)
  BY DEF Permits!Cardinality, Cardinality

LEMMA PermitsStep == LimitsInv /\ [LimitsNext]_limitsVars => [Permits!PoolNext]_(Permits!poolVars)
  <1>1. SUFFICES ASSUME LimitsInv, [LimitsNext]_limitsVars
                 PROVE  [Permits!PoolNext]_(Permits!poolVars)
    OBVIOUS
  <1> USE DEF Permits!poolVars
  <1>2. CASE UNCHANGED limitsVars
    BY <1>2 DEF limitsVars, RefusedAtOnce
  <1>3. ASSUME NEW r \in Requests, Permit(r) PROVE Permits!PoolNext
    <2>1. r \notin lease /\ lease' = lease \cup {r}
      BY <1>1, <1>3, PermitInv
    <2>2. r \notin RefusedAtOnce /\ RefusedAtOnce' = RefusedAtOnce
      BY <1>1, <1>3 DEF LimitsInv, LimitsTypeOK, Permit, RefusedAtOnce
    <2>3. Cardinality(lease) < ConcurrencyPermitLimit
      BY <1>1, <1>3, LeaseFinite, LimitsAssumption DEF LimitsInv, PermitsAdd, Permit
    <2>4. Permits!Acquire(r)
      BY <2>1, <2>2, <2>3, PermitsCardinality DEF Permits!Acquire
    <2>5. QED
      BY <2>4 DEF Permits!PoolNext
  <1>4. ASSUME NEW r \in Requests, RefuseAtOnce(r) PROVE Permits!PoolNext
    <2>1. lease' = lease
      BY <1>1, <1>4, OtherInv
    <2>2. r \notin lease \cup RefusedAtOnce /\ RefusedAtOnce' = RefusedAtOnce \cup {r}
      BY <1>1, <1>4 DEF LimitsInv, LimitsTypeOK, LeasesAreUsed, RefuseAtOnce, RefusedAtOnce
    <2>3. Cardinality(lease) >= ConcurrencyPermitLimit
      BY <1>1, <1>4, LeaseFinite, LimitsAssumption DEF LimitsInv, PermitsAdd, RefuseAtOnce
    <2>4. Permits!Refuse(r)
      BY <2>1, <2>2, <2>3, PermitsCardinality DEF Permits!Refuse
    <2>5. QED
      BY <2>4 DEF Permits!PoolNext
  <1>5. ASSUME NEW r \in Requests, Limit(r) \/ End(r) PROVE Permits!PoolNext
    <2>1. r \in lease /\ lease' = lease \ {r}
      BY <1>1, <1>5, GiveBackInv
    <2>2. RefusedAtOnce' = RefusedAtOnce
      BY <1>1, <1>5 DEF LimitsInv, LimitsTypeOK, Limit, End, RefusedAtOnce
    <2>3. Permits!Release(r)
      BY <2>1, <2>2 DEF Permits!Release
    <2>4. QED
      BY <2>3 DEF Permits!PoolNext
  <1>6. ASSUME NEW r \in Requests, Charge(r) \/ Unmatched(r) \/ Disconnect(r)
        PROVE  UNCHANGED <<lease, RefusedAtOnce>>
    <2>1. lease' = lease
      BY <1>1, <1>6, OtherInv
    <2>2. RefusedAtOnce' = RefusedAtOnce
      BY <1>1, <1>6 DEF LimitsInv, LimitsTypeOK, Charge, Unmatched, Disconnect, RefusedAtOnce
    <2>3. QED
      BY <2>1, <2>2
  <1>7. ASSUME NEW r \in Requests, Leave(r)
        PROVE  Permits!PoolNext \/ UNCHANGED <<lease, RefusedAtOnce>>
    <2>1. lease' = lease
      BY <1>1, <1>7, OtherInv
    <2>2. CASE r \in RefusedAtOnce
      <3>1. RefusedAtOnce' = RefusedAtOnce \ {r}
        BY <1>1, <1>7, <2>2 DEF LimitsInv, LimitsTypeOK, Leave, RefusedAtOnce
      <3>2. Permits!GoAway(r)
        BY <2>1, <2>2, <3>1 DEF Permits!GoAway
      <3>3. QED
        BY <3>2 DEF Permits!PoolNext
    <2>3. CASE r \notin RefusedAtOnce
      <3>1. RefusedAtOnce' = RefusedAtOnce
        BY <1>1, <1>7, <2>3 DEF LimitsInv, LimitsTypeOK, Leave, RefusedAtOnce
      <3>2. QED
        BY <2>1, <3>1
    <2>4. QED
      BY <2>2, <2>3
  <1>8. ASSUME NEW k \in Clients, Slide(k) PROVE UNCHANGED <<lease, RefusedAtOnce>>
    BY <1>1, <1>8, SlideInv DEF RefusedAtOnce
  <1>9. QED
    BY <1>1, <1>2, <1>3, <1>4, <1>5, <1>6, <1>7, <1>8 DEF LimitsNext, AskWindow

(* At most ConcurrencyPermitLimit requests are past the global limiter,    *)
(* and it refuses one only when so many are.                               *)
THEOREM LimitsImplementPool == LimitsSpec => ImplementsPermitPool
  <1>1. LimitsInit => Permits!PoolInit
    BY DEF LimitsInit, Permits!PoolInit, RefusedAtOnce
  <1>2. QED
    BY <1>1, LimitsInitInv, LimitsNextInv, PermitsStep, PTL
       DEF LimitsSpec, ImplementsPermitPool, Permits!PoolSpec
=============================================================================
