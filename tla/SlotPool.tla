------------------------------ MODULE SlotPool ------------------------------
(***************************************************************************)
(* What a concurrency limiter promises: at most Size holders of a slot,    *)
(* nobody waits, and nobody is refused while a slot is free.               *)
(***************************************************************************)
EXTENDS Integers, FiniteSets

CONSTANTS Users, Size

VARIABLES holders,  \* who holds a slot
          refused   \* who has been refused one and has not gone away yet

poolVars == <<holders, refused>>

PoolInit == holders = {} /\ refused = {}

Acquire(u) ==
    /\ u \notin holders \cup refused
    /\ Cardinality(holders) < Size
    /\ holders' = holders \cup {u}
    /\ UNCHANGED refused

Refuse(u) ==
    /\ u \notin holders \cup refused
    /\ Cardinality(holders) >= Size
    /\ refused' = refused \cup {u}
    /\ UNCHANGED holders

Release(u) ==
    /\ u \in holders
    /\ holders' = holders \ {u}
    /\ UNCHANGED refused

GoAway(u) ==
    /\ u \in refused
    /\ refused' = refused \ {u}
    /\ UNCHANGED holders

PoolNext == \E u \in Users : Acquire(u) \/ Refuse(u) \/ Release(u) \/ GoAway(u)

PoolSpec == PoolInit /\ [][PoolNext]_poolVars
=============================================================================
