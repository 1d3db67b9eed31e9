---------------------------- MODULE OrdersStartup ----------------------------
(***************************************************************************)
(* OrdersRepository.onModuleInit, run by every instance of server-orders   *)
(* when it starts: wait for Elasticsearch, look for the orders index, and  *)
(* create it with its mapping if it is not there.  An error on the way     *)
(* rejects bootstrap(), and the process ends.                              *)
(*                                                                         *)
(* Elasticsearch is external: it comes and goes, and it refuses to create  *)
(* an index that exists.                                                   *)
(***************************************************************************)
EXTENDS Integers

CONSTANTS
    OrdersInstances,
    MaxAttempts  \* pings before an instance gives up

ASSUME OrdersStartupAssumption == MaxAttempts \in Nat \ {0}

VARIABLES
    reachable,   \* Elasticsearch accepts connections
    index,       \* the orders index exists
    ordersBoot,  \* ordersBoot[i]: how far instance i is, and which ping is next
    trouble      \* history: the instances that lost Elasticsearch after their ping,
                 \* or that found no index and were forestalled in creating it

ordersStartVars == <<reachable, index, ordersBoot, trouble>>

Starting == {"pinging", "reached", "absent"}
OrdersBoots == [stage : Starting \cup {"down", "failed", "up"}, attempt : 1..MaxAttempts]

At(s) == [stage |-> s, attempt |-> 1]
Creating == {i \in OrdersInstances : ordersBoot[i].stage = "absent"}
PastPing == {i \in OrdersInstances : ordersBoot[i].stage = "reached"} \cup Creating

-----------------------------------------------------------------------------
OrdersStartInit ==
    /\ reachable \in BOOLEAN
    /\ index = FALSE
    /\ ordersBoot = [i \in OrdersInstances |-> At("down")]
    /\ trouble = {}

Boot(i) ==
    /\ ordersBoot[i].stage \in {"down", "failed"}
    /\ ordersBoot' = [ordersBoot EXCEPT ![i] = At("pinging")]
    /\ trouble' = trouble \ {i}
    /\ UNCHANGED <<reachable, index>>

(* Bug: it gives up never. *)
PingForEver(i) ==
    /\ ordersBoot[i].stage = "pinging"
    /\ \/ /\ reachable
          /\ ordersBoot' = [ordersBoot EXCEPT ![i] = At("reached")]
       \/ /\ ~ reachable
          /\ ordersBoot' = [ordersBoot EXCEPT ![i].attempt = IF @ < MaxAttempts THEN @ + 1 ELSE 1]
    /\ UNCHANGED <<reachable, index, trouble>>

(* Bug: one attempt too many. *)
PingOnceMore(i) ==
    /\ ordersBoot[i].stage = "pinging"
    /\ \/ /\ reachable
          /\ ordersBoot' = [ordersBoot EXCEPT ![i] = At("reached")]
       \/ /\ ~ reachable /\ ordersBoot[i].attempt <= MaxAttempts
          /\ ordersBoot' = [ordersBoot EXCEPT ![i].attempt = @ + 1]
       \/ /\ ~ reachable /\ ordersBoot[i].attempt > MaxAttempts
          /\ ordersBoot' = [ordersBoot EXCEPT ![i] = At("failed")]
    /\ UNCHANGED <<reachable, index, trouble>>

(* waitForElasticsearch: an attempt that fails is followed by a pause and  *)
(* the next one; the last one throws.                                      *)
Ping(i) ==
    /\ ordersBoot[i].stage = "pinging"
    /\ \/ /\ reachable
          /\ ordersBoot' = [ordersBoot EXCEPT ![i] = At("reached")]
       \/ /\ ~ reachable /\ ordersBoot[i].attempt < MaxAttempts
          /\ ordersBoot' = [ordersBoot EXCEPT ![i].attempt = @ + 1]
       \/ /\ ~ reachable /\ ordersBoot[i].attempt = MaxAttempts
          /\ ordersBoot' = [ordersBoot EXCEPT ![i] = At("failed")]
    /\ UNCHANGED <<reachable, index, trouble>>

(* Bug: the answer is not looked at. *)
ExistsUnread(i) ==
    /\ ordersBoot[i].stage = "reached"
    /\ ordersBoot' = [ordersBoot EXCEPT ![i] = At(IF reachable THEN "absent" ELSE "failed")]
    /\ UNCHANGED <<reachable, index, trouble>>

(* Bug: the condition the wrong way round. *)
ExistsNegated(i) ==
    /\ ordersBoot[i].stage = "reached"
    /\ ordersBoot' = [ordersBoot EXCEPT ![i] =
           At(IF ~ reachable THEN "failed" ELSE IF index THEN "absent" ELSE "up")]
    /\ UNCHANGED <<reachable, index, trouble>>

Exists(i) ==
    /\ ordersBoot[i].stage = "reached"
    /\ ordersBoot' = [ordersBoot EXCEPT ![i] =
           At(IF ~ reachable THEN "failed" ELSE IF index THEN "up" ELSE "absent")]
    /\ UNCHANGED <<reachable, index, trouble>>

(* indices.create succeeds once; whoever else found no index fails. *)
Create(i) ==
    /\ i \in Creating
    /\ ordersBoot' = [ordersBoot EXCEPT ![i] = At(IF reachable /\ ~ index THEN "up" ELSE "failed")]
    /\ index' = (index \/ reachable)
    /\ trouble' = IF reachable THEN trouble \cup (Creating \ {i}) ELSE trouble
    /\ UNCHANGED reachable

(* The index is created, but the connection breaks before the answer. *)
CreateUnheard(i) ==
    /\ i \in Creating
    /\ reachable
    /\ reachable' = FALSE
    /\ index' = TRUE
    /\ ordersBoot' = [ordersBoot EXCEPT ![i] = At("failed")]
    /\ trouble' = trouble \cup PastPing

(* An instance is stopped or crashes, starting or serving. *)
StopOrders(i) ==
    /\ ordersBoot[i].stage \in Starting \cup {"up"}
    /\ ordersBoot' = [ordersBoot EXCEPT ![i] = At("down")]
    /\ UNCHANGED <<reachable, index, trouble>>

Connect == ~ reachable /\ reachable' = TRUE /\ UNCHANGED <<index, ordersBoot, trouble>>

Disconnect ==
    /\ reachable
    /\ reachable' = FALSE
    /\ trouble' = trouble \cup PastPing
    /\ UNCHANGED <<index, ordersBoot>>

OnModuleInit(i) == Ping(i) \/ Exists(i) \/ Create(i) \/ CreateUnheard(i)

OrdersStartNext ==
    \/ \E i \in OrdersInstances : Boot(i) \/ OnModuleInit(i) \/ StopOrders(i)
    \/ Connect
    \/ Disconnect

OrdersStartSpec == OrdersStartInit /\ [][OrdersStartNext]_ordersStartVars

(* Pauses and calls of Elasticsearch end. *)
OrdersStartFairness == \A i \in OrdersInstances : WF_ordersStartVars(OnModuleInit(i))

-----------------------------------------------------------------------------
(* Types; an instance pings at most MaxAttempts times. *)
OrdersStartTypeOK ==
    /\ reachable \in BOOLEAN
    /\ index \in BOOLEAN
    /\ ordersBoot \in [OrdersInstances -> OrdersBoots]
    /\ trouble \in SUBSET OrdersInstances

(* An instance serves only over an index that was created with its         *)
(* mapping, whoever created it and whatever crashed on the way: no order   *)
(* is stored before, which would let Elasticsearch guess one.              *)
ServesOverIndex == \A i \in OrdersInstances : ordersBoot[i].stage = "up" => index

(* "Idempotent: safe to run on every boot": over whatever earlier starts   *)
(* left, a start fails only if Elasticsearch did not answer the last ping  *)
(* or was lost after it, or another instance created the index between     *)
(* this one's check and its creation.  Lines 93-134.                       *)
StartsFailForCause ==
    [][\A i \in OrdersInstances :
          ordersBoot[i].stage \in Starting /\ ordersBoot'[i].stage = "failed"
          => \/ i \in trouble'
             \/ ~ reachable /\ ordersBoot[i].attempt = MaxAttempts]_ordersStartVars

(* No start hangs, not even if Elasticsearch never comes up. *)
OrdersStartsEnd ==
    \A i \in OrdersInstances :
        ordersBoot[i].stage \in Starting ~> ordersBoot[i].stage \notin Starting
=============================================================================
