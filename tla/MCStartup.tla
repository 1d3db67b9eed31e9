------------------------------ MODULE MCStartup ------------------------------
(***************************************************************************)
(* The starts of both services, for TLC.  They share nothing, so one run   *)
(* checks both side by side.                                               *)
(***************************************************************************)
EXTENDS OrdersStartup, CatalogStartup, TLC

StartupVars == <<ordersStartVars, catalogStartVars>>

StartupInit == OrdersStartInit /\ CatalogStartInit

StartupNext ==
    \/ OrdersStartNext /\ UNCHANGED catalogStartVars
    \/ CatalogStartNext /\ UNCHANGED ordersStartVars

StartupSpec ==
    /\ StartupInit
    /\ [][StartupNext]_StartupVars
    /\ OrdersStartFairness
=============================================================================
