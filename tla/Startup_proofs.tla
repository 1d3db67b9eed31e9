--------------------------- MODULE Startup_proofs ---------------------------
(***************************************************************************)
(* Safety of the starts of both services, for any number of instances and  *)
(* of attempts.                                                            *)
(***************************************************************************)
EXTENDS OrdersStartup, CatalogStartup, FiniteSetTheorems, TLAPS

(* Who found no index, and has not been forestalled, will create it.       *)
AbsenceIsKnown == \A i \in Creating : index => i \in trouble

(* Who is past its ping and cannot reach Elasticsearch any more has been   *)
(* cut off.                                                                *)
LossIsKnown == \A i \in PastPing : ~ reachable => i \in trouble

OrdersStartInv == OrdersStartTypeOK /\ ServesOverIndex /\ AbsenceIsKnown /\ LossIsKnown

-----------------------------------------------------------------------------
(* A state of a boot, by its stage. *)
LEMMA AtType ==
    ASSUME NEW s \in Starting \cup {"down", "failed", "up"}
    PROVE  At(s) \in OrdersBoots /\ At(s).stage = s /\ At(s).attempt = 1
  BY OrdersStartupAssumption DEF At, OrdersBoots

(* No instance has started. *)
LEMMA OrdersStartInitInv == OrdersStartInit => OrdersStartInv
  <1> SUFFICES ASSUME OrdersStartInit PROVE OrdersStartInv
    OBVIOUS
  <1>1. \A i \in OrdersInstances : ordersBoot[i].stage = "down"
    BY AtType DEF OrdersStartInit
  <1>2. OrdersStartTypeOK
    BY AtType DEF OrdersStartInit, OrdersStartTypeOK
  <1> QED
    BY <1>1, <1>2 DEF OrdersStartInv, ServesOverIndex, AbsenceIsKnown, LossIsKnown,
                      Creating, PastPing

(* A step of one instance that leaves Elasticsearch and the history alone, *)
(* and enters its new stage with cause.                                    *)
LEMMA OneBootInv ==
    ASSUME OrdersStartInv, NEW i \in OrdersInstances, NEW b \in OrdersBoots,
           ordersBoot' = [ordersBoot EXCEPT ![i] = b],
           UNCHANGED <<reachable, index>>, trouble' \in SUBSET OrdersInstances,
           trouble \ {i} \subseteq trouble',
           b.stage = "up" => index,
           b.stage = "absent" => ~ index /\ reachable,
           b.stage = "reached" => reachable
    PROVE  OrdersStartInv'
  <1> USE DEF OrdersStartInv
  <1>1. OrdersStartTypeOK'
    BY DEF OrdersStartTypeOK
  <1>2. \A j \in OrdersInstances : ordersBoot'[j] = IF j = i THEN b ELSE ordersBoot[j]
    BY DEF OrdersStartTypeOK
  <1>3. ServesOverIndex'
    BY <1>2 DEF ServesOverIndex
  <1>4. AbsenceIsKnown'
    BY <1>2 DEF AbsenceIsKnown, Creating
  <1>5. LossIsKnown'
    BY <1>2 DEF LossIsKnown, PastPing, Creating
  <1> QED BY <1>1, <1>3, <1>4, <1>5

(* A ping that is answered, one that is not, and the last one. *)
LEMMA PingInv ==
    ASSUME OrdersStartInv, NEW i \in OrdersInstances, Ping(i)
    PROVE  OrdersStartInv'
  <1>1. ordersBoot[i] \in OrdersBoots /\ ordersBoot[i].stage = "pinging"
    BY DEF OrdersStartInv, OrdersStartTypeOK, Ping
  <1>2. CASE reachable
    BY <1>2, AtType, OneBootInv DEF Ping, Starting, OrdersStartInv, OrdersStartTypeOK
  <1>3. CASE ~ reachable /\ ordersBoot[i].attempt = MaxAttempts
    BY <1>3, AtType, OneBootInv, OrdersStartupAssumption
       DEF Ping, Starting, OrdersStartInv, OrdersStartTypeOK
  <1>4. CASE ~ reachable /\ ordersBoot[i].attempt # MaxAttempts
    <2> DEFINE b == [ordersBoot[i] EXCEPT !.attempt = @ + 1]
    <2>1. b \in OrdersBoots /\ b.stage = "pinging"
      BY <1>1, <1>4, OrdersStartupAssumption DEF OrdersBoots
    <2>2. ordersBoot' = [ordersBoot EXCEPT ![i].attempt = @ + 1]
      BY <1>4 DEF Ping
    <2>3. ordersBoot' = [ordersBoot EXCEPT ![i] = b]
      BY <2>2
    <2>4. UNCHANGED <<reachable, index, trouble>>
      BY DEF Ping
    <2> HIDE DEF b
    <2> QED BY <2>1, <2>3, <2>4, OneBootInv DEF OrdersStartInv, OrdersStartTypeOK
  <1> QED BY <1>2, <1>3, <1>4

(* The check for the index. *)
LEMMA ExistsInv ==
    ASSUME OrdersStartInv, NEW i \in OrdersInstances, Exists(i)
    PROVE  OrdersStartInv'
  <1> DEFINE s == IF ~ reachable THEN "failed" ELSE IF index THEN "up" ELSE "absent"
  <1>1. /\ ordersBoot' = [ordersBoot EXCEPT ![i] = At(s)]
        /\ UNCHANGED <<reachable, index, trouble>>
    BY DEF Exists
  <1>2. At(s) \in OrdersBoots /\ At(s).stage = s
    BY AtType DEF Starting
  <1>3. trouble' \in SUBSET OrdersInstances
    BY <1>1 DEF OrdersStartInv, OrdersStartTypeOK
  <1> QED BY <1>1, <1>2, <1>3, OneBootInv

(* The creation, and one nobody hears of.  Whoever is past its check now   *)
(* comes too late.                                                         *)
LEMMA CreateInv ==
    ASSUME OrdersStartInv, NEW i \in OrdersInstances, Create(i) \/ CreateUnheard(i)
    PROVE  OrdersStartInv'
  <1> USE DEF OrdersStartInv
  <1>1. PICK s \in {"up", "failed"} :
           ordersBoot' = [ordersBoot EXCEPT ![i] = At(s)] /\ (s = "up" => index')
    BY DEF Create, CreateUnheard
  <1>2. At(s) \in OrdersBoots /\ At(s).stage = s
    BY AtType
  <1>3. OrdersStartTypeOK'
    BY <1>1, <1>2 DEF OrdersStartTypeOK, Create, CreateUnheard, Creating, PastPing
  <1>4. \A j \in OrdersInstances : ordersBoot'[j] = IF j = i THEN At(s) ELSE ordersBoot[j]
    BY <1>1 DEF OrdersStartTypeOK
  <1>5. index => index'
    BY DEF Create, CreateUnheard
  <1>6. ServesOverIndex'
    BY <1>1, <1>2, <1>4, <1>5 DEF ServesOverIndex
  <1>7. Creating' \subseteq Creating \ {i} /\ PastPing' \subseteq PastPing \ {i}
    BY <1>2, <1>4 DEF Creating, PastPing
  <1>8. AbsenceIsKnown' /\ LossIsKnown'
    <2>1. CASE Create(i)
      BY <1>7, <2>1 DEF Create, AbsenceIsKnown, LossIsKnown
    <2>2. CASE CreateUnheard(i)
      BY <1>7, <2>2 DEF CreateUnheard, AbsenceIsKnown, LossIsKnown, PastPing
    <2> QED BY <2>1, <2>2
  <1> QED BY <1>3, <1>6, <1>8

(* Every step of the starts of the orders API. *)
LEMMA OrdersStartStepInv == OrdersStartInv /\ [OrdersStartNext]_ordersStartVars => OrdersStartInv'
  <1> SUFFICES ASSUME OrdersStartInv, [OrdersStartNext]_ordersStartVars PROVE OrdersStartInv'
    OBVIOUS
  <1>1. ASSUME NEW i \in OrdersInstances, Boot(i) PROVE OrdersStartInv'
    BY <1>1, AtType, OneBootInv DEF Boot, Starting, OrdersStartInv, OrdersStartTypeOK
  <1>2. ASSUME NEW i \in OrdersInstances, StopOrders(i) PROVE OrdersStartInv'
    BY <1>2, AtType, OneBootInv DEF StopOrders, OrdersStartInv, OrdersStartTypeOK
  <1>3. ASSUME NEW i \in OrdersInstances, OnModuleInit(i) PROVE OrdersStartInv'
    BY <1>3, PingInv, ExistsInv, CreateInv DEF OnModuleInit
  <1>4. CASE Connect
    BY <1>4 DEF Connect, OrdersStartInv, OrdersStartTypeOK, ServesOverIndex, AbsenceIsKnown,
                LossIsKnown, Creating, PastPing
  <1>5. CASE Disconnect
    BY <1>5 DEF Disconnect, OrdersStartInv, OrdersStartTypeOK, ServesOverIndex, AbsenceIsKnown,
                LossIsKnown, Creating, PastPing
  <1>6. CASE UNCHANGED ordersStartVars
    BY <1>6 DEF ordersStartVars, OrdersStartInv, OrdersStartTypeOK, ServesOverIndex,
                AbsenceIsKnown, LossIsKnown, Creating, PastPing
  <1> QED BY <1>1, <1>2, <1>3, <1>4, <1>5, <1>6 DEF OrdersStartNext

(* The invariant holds for ever. *)
LEMMA OrdersStartInvAlways == OrdersStartSpec => []OrdersStartInv
  BY OrdersStartInitInv, OrdersStartStepInv, PTL DEF OrdersStartSpec

-----------------------------------------------------------------------------
(* Types; an instance pings at most MaxAttempts times                      *)
(* (orders.repository.ts 112-134).                                         *)
THEOREM OrdersStartTypes == OrdersStartSpec => []OrdersStartTypeOK
  BY OrdersStartInvAlways, PTL DEF OrdersStartInv

(* An instance of the orders API that serves does so over an index that    *)
(* was created with its mapping (orders.repository.ts 93-110).             *)
THEOREM OrdersServeOverIndex == OrdersStartSpec => []ServesOverIndex
  BY OrdersStartInvAlways, PTL DEF OrdersStartInv

(* A start that fails has its cause, by the step that fails. *)
LEMMA FailureHasCause ==
    ASSUME OrdersStartInv, OrdersStartNext, NEW i \in OrdersInstances,
           ordersBoot[i].stage \in Starting, ordersBoot'[i].stage = "failed"
    PROVE  i \in trouble' \/ (~ reachable /\ ordersBoot[i].attempt = MaxAttempts)
  <1> USE DEF OrdersStartInv
  <1>1. ordersBoot \in [OrdersInstances -> OrdersBoots]
    BY DEF OrdersStartTypeOK
  <1>2. \A s \in Starting \cup {"down", "failed", "up"} : At(s).stage = s
    BY AtType
  <1>3. ordersBoot[i].stage # "failed"
    BY DEF Starting
  <1>4. ASSUME Ping(i) PROVE ~ reachable /\ ordersBoot[i].attempt = MaxAttempts
    <2>1. ~ reachable
      BY <1>1, <1>2, <1>4 DEF Ping, Starting
    <2>2. ASSUME ordersBoot[i].attempt # MaxAttempts PROVE FALSE
      <3>1. ordersBoot'[i] = [ordersBoot[i] EXCEPT !.attempt = @ + 1]
        BY <1>1, <1>4, <2>1, <2>2 DEF Ping
      <3>2. ordersBoot'[i].stage = ordersBoot[i].stage
        BY <1>1, <3>1 DEF OrdersBoots
      <3> QED BY <1>3, <3>2
    <2> QED BY <2>1, <2>2
  <1>5. ASSUME Exists(i) PROVE i \in trouble'
    <2>1. ~ reachable
      <3>1. CASE reachable /\ index
        BY <1>1, <1>2, <1>5, <3>1 DEF Exists
      <3>2. CASE reachable /\ ~ index
        BY <1>1, <1>2, <1>5, <3>2 DEF Exists, Starting
      <3> QED BY <3>1, <3>2 DEF OrdersStartTypeOK
    <2> QED BY <1>5, <2>1 DEF Exists, LossIsKnown, PastPing
  <1>6. ASSUME Create(i) PROVE i \in trouble'
    <2>1. ~ reachable \/ index
      BY <1>1, <1>2, <1>6 DEF Create
    <2>2. i \in trouble
      BY <1>6, <2>1 DEF Create, AbsenceIsKnown, LossIsKnown, PastPing
    <2> QED BY <1>6, <2>2 DEF Create
  <1>7. ASSUME CreateUnheard(i) PROVE i \in trouble'
    BY <1>7 DEF CreateUnheard, PastPing
  <1>8. OnModuleInit(i)
    <2>1. ~ Connect /\ ~ Disconnect
      BY <1>3 DEF Connect, Disconnect
    <2>2. \A j \in OrdersInstances : ~ Boot(j) /\ ~ StopOrders(j)
      BY <1>1, <1>2, <1>3 DEF Boot, StopOrders, Starting
    <2>3. ASSUME NEW j \in OrdersInstances, OnModuleInit(j) PROVE j = i
      BY <1>1, <1>3, <2>3 DEF OnModuleInit, Ping, Exists, Create, CreateUnheard
    <2> QED BY <2>1, <2>2, <2>3 DEF OrdersStartNext
  <1> QED BY <1>4, <1>5, <1>6, <1>7, <1>8 DEF OnModuleInit

(* Starting is idempotent: no state that earlier starts left makes a start *)
(* fail (orders.repository.ts 93-134).                                     *)
THEOREM OrdersStartsFailForCause == OrdersStartSpec => StartsFailForCause
  <1>1. OrdersStartInv /\ [OrdersStartNext]_ordersStartVars
        => [\A i \in OrdersInstances :
              ordersBoot[i].stage \in Starting /\ ordersBoot'[i].stage = "failed"
              => \/ i \in trouble'
                 \/ ~ reachable /\ ordersBoot[i].attempt = MaxAttempts]_ordersStartVars
    BY FailureHasCause
  <1> QED BY <1>1, OrdersStartInvAlways, PTL DEF OrdersStartSpec, StartsFailForCause

-----------------------------------------------------------------------------
(* As long as no two starts overlapped, at most one instance is seeding,   *)
(* and one that found no category is still right.  In any case those who   *)
(* found none can only bring the copies up to the number of instances.     *)
SeederIsAlone ==
    ~ overlapped =>
        /\ \A i, j \in Seeding : i = j
        /\ FoundNone # {} => copies = 0

CopiesToCome == copies + Cardinality(FoundNone) <= Cardinality(CatalogInstances)

MigratedFirst == \A i \in CatalogInstances : catalogBoot[i] \in {"migrated", "empty"} => schema

CatalogStartInv ==
    /\ CatalogStartTypeOK
    /\ SeededOnce
    /\ ServesSeeded
    /\ SeederIsAlone
    /\ CopiesToCome
    /\ MigratedFirst

(* Those who found no category are finitely many. *)
LEMMA FoundNoneFinite ==
    /\ IsFiniteSet(FoundNone)
    /\ Cardinality(FoundNone) \in Nat
    /\ Cardinality(FoundNone) <= Cardinality(CatalogInstances)
    /\ Cardinality(CatalogInstances) \in Nat
  BY CatalogStartupAssumption, FS_Subset, FS_CardinalityType DEF FoundNone

(* No instance has started on an empty database. *)
LEMMA CatalogStartInitInv == CatalogStartInit => CatalogStartInv
  <1> SUFFICES ASSUME CatalogStartInit PROVE CatalogStartInv
    OBVIOUS
  <1>1. /\ schema = FALSE /\ copies = 0 /\ overlapped = FALSE
        /\ catalogBoot \in [CatalogInstances -> {"down"}]
        /\ \A i \in CatalogInstances : catalogBoot[i] = "down"
    BY DEF CatalogStartInit
  <1>2. Seeding = {} /\ FoundNone = {}
    BY <1>1 DEF Seeding, SeedingStages, FoundNone
  <1>3. catalogBoot \in [CatalogInstances -> SeedingStages \cup {"down", "up"}]
    BY <1>1
  <1>4. CatalogStartTypeOK
    <2>1. copies \in 0..Cardinality(CatalogInstances)
      BY <1>1, FoundNoneFinite
    <2>2. schema \in BOOLEAN /\ overlapped \in BOOLEAN
      BY <1>1
    <2> QED BY <1>3, <2>1, <2>2 DEF CatalogStartTypeOK
  <1>5. CopiesToCome
    BY <1>1, FoundNoneFinite DEF CopiesToCome
  <1> QED
    BY <1>1, <1>2, <1>4, <1>5
    DEF CatalogStartInv, SeededOnce, ServesSeeded, SeederIsAlone, MigratedFirst

(* A start: two overlap only if the history says so. *)
LEMMA BootCatalogInv ==
    ASSUME CatalogStartInv, NEW i \in CatalogInstances, BootCatalog(i)
    PROVE  CatalogStartInv'
  <1> USE DEF CatalogStartInv, BootCatalog
  <1>1. FoundNone' = FoundNone
    BY DEF CatalogStartTypeOK, FoundNone
  <1>2. Seeding' = Seeding \cup {i}
    BY DEF CatalogStartTypeOK, Seeding, SeedingStages
  <1>3. SeederIsAlone'
    BY <1>1, <1>2 DEF SeederIsAlone, CatalogStartTypeOK
  <1>4. CopiesToCome'
    BY <1>1 DEF CopiesToCome
  <1> QED
    BY <1>3, <1>4 DEF CatalogStartTypeOK, SeededOnce, ServesSeeded, MigratedFirst, SeedingStages

(* The check: who finds none is counted in. *)
LEMMA AnyCategoryInv ==
    ASSUME CatalogStartInv, NEW i \in CatalogInstances, AnyCategory(i)
    PROVE  CatalogStartInv'
  <1> USE DEF CatalogStartInv, AnyCategory
  <1>1. copies \in Nat /\ i \in Seeding /\ i \notin FoundNone
    BY FoundNoneFinite DEF CatalogStartTypeOK, Seeding, SeedingStages, FoundNone
  <1>2. Seeding' \subseteq Seeding
    BY <1>1 DEF CatalogStartTypeOK, Seeding
  <1>3. CASE copies > 0
    <2>1. FoundNone' = FoundNone
      BY <1>3 DEF CatalogStartTypeOK, FoundNone
    <2>2. SeederIsAlone' /\ CopiesToCome'
      BY <1>2, <2>1 DEF SeederIsAlone, CopiesToCome
    <2> QED
      BY <1>3, <2>2 DEF CatalogStartTypeOK, SeededOnce, ServesSeeded, MigratedFirst, SeedingStages
  <1>4. CASE ~ (copies > 0)
    <2>1. copies = 0 /\ copies' = 0
      BY <1>1, <1>4
    <2>2. CatalogStartTypeOK'
      BY <1>4 DEF CatalogStartTypeOK, SeedingStages
    <2>3. CopiesToCome'
      <3>1. FoundNone' \subseteq CatalogInstances
        BY DEF FoundNone
      <3>2. /\ Cardinality(FoundNone') \in Nat
            /\ Cardinality(FoundNone') <= Cardinality(CatalogInstances)
        BY <3>1, CatalogStartupAssumption, FS_Subset, FS_CardinalityType
      <3> QED BY <2>1, <3>2, FoundNoneFinite DEF CopiesToCome
    <2>4. SeederIsAlone'
      BY <1>2, <2>1 DEF SeederIsAlone
    <2>5. SeededOnce' /\ ServesSeeded' /\ MigratedFirst'
      BY <1>4 DEF CatalogStartTypeOK, SeededOnce, ServesSeeded, MigratedFirst
    <2> QED BY <2>2, <2>3, <2>4, <2>5
  <1> QED BY <1>3, <1>4

(* The insert, whether or not its instance hears of it: a copy that was to *)
(* come is there.                                                          *)
LEMMA SaveInv ==
    ASSUME CatalogStartInv, NEW i \in CatalogInstances, SaveChanges(i) \/ SaveUnheard(i)
    PROVE  CatalogStartInv'
  <1> USE DEF CatalogStartInv
  <1>1. PICK s \in {"up", "down"} :
           /\ catalogBoot' = [catalogBoot EXCEPT ![i] = s]
           /\ copies' = copies + 1
           /\ UNCHANGED <<schema, overlapped>>
    BY DEF SaveChanges, SaveUnheard
  <1>2. i \in FoundNone /\ copies \in Nat
    BY FoundNoneFinite DEF SaveChanges, SaveUnheard, CatalogStartTypeOK
  <1>3. FoundNone' = FoundNone \ {i}
    BY <1>1 DEF CatalogStartTypeOK, FoundNone
  <1>4. Cardinality(FoundNone') = Cardinality(FoundNone) - 1
    BY <1>2, <1>3, FoundNoneFinite, FS_RemoveElement
  <1>5. CopiesToCome'
    BY <1>1, <1>2, <1>4, FoundNoneFinite DEF CopiesToCome
  <1>6. Cardinality(FoundNone') \in Nat
    BY <1>3, FoundNoneFinite, FS_RemoveElement, FS_CardinalityType
  <1>7. copies' \in 0..Cardinality(CatalogInstances)
    BY <1>1, <1>2, <1>5, <1>6, FoundNoneFinite DEF CopiesToCome
  <1>8. CatalogStartTypeOK'
    BY <1>1, <1>7 DEF CatalogStartTypeOK
  <1>9. SeededOnce'
    BY <1>1, <1>2 DEF SeededOnce, SeederIsAlone
  <1>10. SeederIsAlone'
    <2>1. SUFFICES ASSUME ~ overlapped PROVE Seeding' \subseteq Seeding /\ FoundNone' = {}
      BY <1>1 DEF SeederIsAlone
    <2>2. Seeding' \subseteq Seeding
      BY <1>1 DEF CatalogStartTypeOK, Seeding, SeedingStages
    <2>3. FoundNone \subseteq Seeding
      BY DEF FoundNone, Seeding, SeedingStages
    <2>4. FoundNone' = {}
      BY <1>2, <1>3, <2>1, <2>3 DEF SeederIsAlone
    <2> QED BY <2>2, <2>4
  <1>11. ServesSeeded' /\ MigratedFirst'
    BY <1>1, <1>2 DEF CatalogStartTypeOK, ServesSeeded, MigratedFirst, FoundNone
  <1> QED BY <1>5, <1>8, <1>9, <1>10, <1>11

(* A stop or an error takes an instance out of the seeding. *)
LEMMA StopCatalogInv ==
    ASSUME CatalogStartInv, NEW i \in CatalogInstances, StopCatalog(i)
    PROVE  CatalogStartInv'
  <1> USE DEF CatalogStartInv, StopCatalog
  <1>1. FoundNone' \subseteq FoundNone /\ Seeding' \subseteq Seeding
    BY DEF CatalogStartTypeOK, FoundNone, Seeding, SeedingStages
  <1>2. Cardinality(FoundNone') <= Cardinality(FoundNone) /\ Cardinality(FoundNone') \in Nat
    BY <1>1, FoundNoneFinite, FS_Subset, FS_CardinalityType
  <1>3. CopiesToCome'
    BY <1>2, FoundNoneFinite DEF CopiesToCome, CatalogStartTypeOK
  <1>4. SeederIsAlone'
    BY <1>1 DEF SeederIsAlone
  <1> QED BY <1>3, <1>4 DEF CatalogStartTypeOK, SeededOnce, ServesSeeded, MigratedFirst

(* Every step of the starts of the catalog API. *)
LEMMA CatalogStartStepInv ==
    CatalogStartInv /\ [CatalogStartNext]_catalogStartVars => CatalogStartInv'
  <1> SUFFICES ASSUME CatalogStartInv, [CatalogStartNext]_catalogStartVars PROVE CatalogStartInv'
    OBVIOUS
  <1>1. ASSUME NEW i \in CatalogInstances, Migrate(i) PROVE CatalogStartInv'
    <2>1. FoundNone' = FoundNone /\ Seeding' = Seeding
      BY <1>1 DEF Migrate, CatalogStartInv, CatalogStartTypeOK, FoundNone, Seeding, SeedingStages
    <2>2. SeederIsAlone' /\ CopiesToCome'
      BY <1>1, <2>1 DEF Migrate, CatalogStartInv, SeederIsAlone, CopiesToCome
    <2> QED
      BY <1>1, <2>2 DEF Migrate, CatalogStartInv, CatalogStartTypeOK, SeededOnce, ServesSeeded,
                        MigratedFirst, SeedingStages
  <1>2. CASE UNCHANGED catalogStartVars
    BY <1>2 DEF catalogStartVars, CatalogStartInv, CatalogStartTypeOK, SeededOnce, ServesSeeded,
                SeederIsAlone, CopiesToCome, MigratedFirst, FoundNone, Seeding
  <1> QED
    BY <1>1, <1>2, BootCatalogInv, AnyCategoryInv, SaveInv, StopCatalogInv
    DEF CatalogStartNext, Seed

(* The invariant holds for ever. *)
LEMMA CatalogStartInvAlways == CatalogStartSpec => []CatalogStartInv
  BY CatalogStartInitInv, CatalogStartStepInv, PTL DEF CatalogStartSpec

(* The demo catalog is inserted at most as often as there are instances.   *)
THEOREM CatalogStartTypes == CatalogStartSpec => []CatalogStartTypeOK
  BY CatalogStartInvAlways, PTL DEF CatalogStartInv

(* It is inserted once if no two starts overlap, whatever crashes          *)
(* (CatalogSeeder.cs 9-20).                                                *)
THEOREM CatalogIsSeededOnce == CatalogStartSpec => []SeededOnce
  BY CatalogStartInvAlways, PTL DEF CatalogStartInv

(* An instance that serves has something to serve. *)
THEOREM CatalogServesSeeded == CatalogStartSpec => []ServesSeeded
  BY CatalogStartInvAlways, PTL DEF CatalogStartInv
=============================================================================
