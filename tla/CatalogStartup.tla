--------------------------- MODULE CatalogStartup ---------------------------
(***************************************************************************)
(* CatalogSeeder.SeedAsync, run by every instance of the catalog API       *)
(* before it serves: migrate, return if there is a category, else insert   *)
(* the demo catalog.  Check and insert are not one transaction.            *)
(*                                                                         *)
(* SQL Server is external: MigrateAsync takes its migration lock, so it is *)
(* one step, and SaveChangesAsync is one transaction.                      *)
(***************************************************************************)
EXTENDS Integers, FiniteSets

CONSTANT CatalogInstances

ASSUME CatalogStartupAssumption == IsFiniteSet(CatalogInstances)

VARIABLES
    schema,       \* the migrations have been applied
    copies,       \* how often the demo catalog has been inserted
    catalogBoot,  \* catalogBoot[i]: how far instance i is
    overlapped    \* history: two instances have been seeding at the same time

catalogStartVars == <<schema, copies, catalogBoot, overlapped>>

SeedingStages == {"migrating", "migrated", "empty"}
Seeding == {i \in CatalogInstances : catalogBoot[i] \in SeedingStages}
FoundNone == {i \in CatalogInstances : catalogBoot[i] = "empty"}

-----------------------------------------------------------------------------
CatalogStartInit ==
    /\ schema = FALSE
    /\ copies = 0
    /\ catalogBoot = [i \in CatalogInstances |-> "down"]
    /\ overlapped = FALSE

BootCatalog(i) ==
    /\ catalogBoot[i] = "down"
    /\ catalogBoot' = [catalogBoot EXCEPT ![i] = "migrating"]
    /\ overlapped' = (overlapped \/ Seeding # {})
    /\ UNCHANGED <<schema, copies>>

Migrate(i) ==
    /\ catalogBoot[i] = "migrating"
    /\ schema' = TRUE
    /\ catalogBoot' = [catalogBoot EXCEPT ![i] = "migrated"]
    /\ UNCHANGED <<copies, overlapped>>

(* Bug: the check is forgotten. *)
AnyCategoryUnchecked(i) ==
    /\ catalogBoot[i] = "migrated"
    /\ catalogBoot' = [catalogBoot EXCEPT ![i] = "empty"]
    /\ UNCHANGED <<schema, copies, overlapped>>

(* Bug: the check is for the table, not for rows in it. *)
AnyCategoryTable(i) ==
    /\ catalogBoot[i] = "migrated"
    /\ catalogBoot' = [catalogBoot EXCEPT ![i] = IF schema THEN "up" ELSE "empty"]
    /\ UNCHANGED <<schema, copies, overlapped>>

(* Categories.AnyAsync() *)
AnyCategory(i) ==
    /\ catalogBoot[i] = "migrated"
    /\ catalogBoot' = [catalogBoot EXCEPT ![i] = IF copies > 0 THEN "up" ELSE "empty"]
    /\ UNCHANGED <<schema, copies, overlapped>>

SaveChanges(i) ==
    /\ i \in FoundNone
    /\ copies' = copies + 1
    /\ catalogBoot' = [catalogBoot EXCEPT ![i] = "up"]
    /\ UNCHANGED <<schema, overlapped>>

(* The transaction commits, but the instance does not get to know. *)
SaveUnheard(i) ==
    /\ i \in FoundNone
    /\ copies' = copies + 1
    /\ catalogBoot' = [catalogBoot EXCEPT ![i] = "down"]
    /\ UNCHANGED <<schema, overlapped>>

(* A step throws (SQL Server is away), or the instance is stopped. *)
StopCatalog(i) ==
    /\ catalogBoot[i] # "down"
    /\ catalogBoot' = [catalogBoot EXCEPT ![i] = "down"]
    /\ UNCHANGED <<schema, copies, overlapped>>

Seed(i) == Migrate(i) \/ AnyCategory(i) \/ SaveChanges(i) \/ SaveUnheard(i)

CatalogStartNext ==
    \E i \in CatalogInstances : BootCatalog(i) \/ Seed(i) \/ StopCatalog(i)

CatalogStartSpec == CatalogStartInit /\ [][CatalogStartNext]_catalogStartVars

-----------------------------------------------------------------------------
(* Types; the demo catalog is never inserted more often than there are     *)
(* instances.                                                              *)
CatalogStartTypeOK ==
    /\ schema \in BOOLEAN
    /\ copies \in 0..Cardinality(CatalogInstances)
    /\ catalogBoot \in [CatalogInstances -> SeedingStages \cup {"down", "up"}]
    /\ overlapped \in BOOLEAN

(* However often instances start, crash half-way and start again, the demo *)
(* catalog is inserted once, unless two of them were seeding at the same   *)
(* time.  Lines 9-20.                                                      *)
SeededOnce == ~ overlapped => copies <= 1

(* An instance that serves has a schema and a catalog. *)
ServesSeeded == \A i \in CatalogInstances : catalogBoot[i] = "up" => schema /\ copies > 0
=============================================================================
