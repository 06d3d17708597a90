-------------------------- MODULE LegacyMigration --------------------------
(***************************************************************************)
(* The move from the table cloudflare_ddns to ddns_configs                 *)
(* (backend/migrations/20260718000001_ddns_migrate_cloudflare.js), and the *)
(* migration that drops the old table, which the same start-up runs after  *)
(* it; a start-up whose migrations fail is tried again (index.js).         *)
(*                                                                         *)
(* knex runs the pending migrations in one transaction.  MySQL commits     *)
(* whatever a transaction holds when a table is created, as the migration  *)
(* before these two does, and then every statement by itself.              *)
(***************************************************************************)
EXTENDS Naturals, Sequences, FiniteSets

CONSTANTS
    Legacy,         \* ids of the rows of cloudflare_ddns
    Domain,
    MaxListings     \* bound: the columns of all rows a domain is listed in

ASSUME LegacyAssumption ==
    /\ Legacy \subseteq Nat /\ IsFiniteSet(Legacy)
    /\ MaxListings \in Nat

(* The four columns of comma-separated domains.                            *)
Column == {"domains", "unproxied_domains", "ip4_domains", "ip6_domains"}

VARIABLES
    transactional,  \* table definitions can be rolled back: SQLite, PostgreSQL
    legacy,         \* the rows: what each column lists, and is_deleted
    dropped,        \* cloudflare_ddns is gone
    ddns_configs,   \* the rows inserted, in order
    migrated,       \* the move is recorded as done
    migrating,      \* where the migrations are
    todo,           \* the rows and domains still to be inserted
    failed          \* history: an attempt has failed after its first statement

migrationVars == <<transactional, legacy, dropped, ddns_configs, migrated, migrating,
                   todo, failed>>

Config == [row: Legacy, domain: Domain, ip_version: {"ipv4", "ipv6"},
           proxied: BOOLEAN]

MigrationTypeOK ==
    /\ transactional \in BOOLEAN /\ dropped \in BOOLEAN /\ migrated \in BOOLEAN
    /\ failed \in BOOLEAN
    /\ legacy \in [Legacy -> [lists: SUBSET (Column \X Domain), is_deleted: BOOLEAN]]
    /\ ddns_configs \in Seq(Config)
    /\ migrating \in {"start", "copying", "copied", "done"}
    /\ todo \subseteq Legacy \X Domain

Listings == Legacy \X Column \X Domain

MigrationInit ==
    /\ transactional \in BOOLEAN
    /\ \E some \in {s \in SUBSET Listings : Cardinality(s) <= MaxListings},
          gone \in SUBSET Legacy :
          legacy = [r \in Legacy |->
                      [lists |-> {l \in Column \X Domain : <<r, l[1], l[2]>> \in some},
                       is_deleted |-> r \in gone]]
    /\ dropped = FALSE
    /\ ddns_configs = << >>
    /\ migrated = FALSE
    /\ migrating = "start"
    /\ todo = {}
    /\ failed = FALSE

-----------------------------------------------------------------------------
Lists(r, c, d) == <<c, d>> \in legacy[r].lists

(* Bug: ip6_domains is left out of allDomains.                             *)
AllDomainsOfThree(r) ==
    {d \in Domain : \E c \in Column \ {"ip6_domains"} : Lists(r, c, d)}

AllDomains(r) == {d \in Domain : \E c \in Column : Lists(r, c, d)}

LiveRows == {r \in Legacy : ~legacy[r].is_deleted}

Migrated(r, d) ==
    [row |-> r, domain |-> d,
     ip_version |-> IF Lists(r, "ip6_domains", d) /\ ~Lists(r, "ip4_domains", d)
                    THEN "ipv6" ELSE "ipv4",
     proxied |-> Lists(r, "domains", d)]

(* up(): nothing if ddns_configs has rows, or the move is already recorded.*)
StartMigration ==
    /\ migrating = "start"
    /\ IF migrated \/ ddns_configs # << >>
       THEN /\ migrated' = TRUE
            /\ migrating' = "copied"
            /\ UNCHANGED todo
       ELSE /\ todo' = {due \in LiveRows \X Domain : due[2] \in AllDomains(due[1])}
            /\ migrating' = "copying"
            /\ UNCHANGED migrated
    /\ UNCHANGED <<transactional, legacy, dropped, ddns_configs, failed>>

(* One domain of the first row that has any left.                          *)
InsertConfig ==
    /\ migrating = "copying"
    /\ \E next \in todo :
          /\ \A other \in todo : next[1] <= other[1]
          /\ ddns_configs' = Append(ddns_configs, Migrated(next[1], next[2]))
          /\ todo' = todo \ {next}
    /\ UNCHANGED <<transactional, legacy, dropped, migrated, migrating, failed>>

RecordMigration ==
    /\ migrating = "copying"
    /\ todo = {}
    /\ migrated' = TRUE
    /\ migrating' = "copied"
    /\ UNCHANGED <<transactional, legacy, dropped, ddns_configs, todo, failed>>

(* The next migration, and the commit of both.                             *)
DropLegacy ==
    /\ migrating = "copied"
    /\ dropped' = TRUE
    /\ migrating' = "done"
    /\ UNCHANGED <<transactional, legacy, ddns_configs, migrated, todo, failed>>

(* Bug: the inserts of a failed attempt stay in a database that could have *)
(* taken them back.                                                        *)
MigrationFailsKeeping ==
    /\ migrating \in {"copying", "copied"}
    /\ migrating' = "start"
    /\ todo' = {}
    /\ failed' = TRUE
    /\ UNCHANGED <<transactional, legacy, dropped, ddns_configs, migrated>>

(* A statement is refused, or the backend ends: what a rollback can take   *)
(* back is taken back, and the start-up is tried again.                    *)
MigrationFails ==
    /\ migrating \in {"copying", "copied"}
    /\ migrating' = "start"
    /\ todo' = {}
    /\ failed' = TRUE
    /\ IF transactional
       THEN ddns_configs' = << >> /\ migrated' = FALSE
       ELSE UNCHANGED <<ddns_configs, migrated>>
    /\ UNCHANGED <<transactional, legacy, dropped>>

MigrationNext ==
    \/ StartMigration \/ InsertConfig \/ RecordMigration \/ DropLegacy
    \/ MigrationFails

MigrationSpec == MigrationInit /\ [][MigrationNext]_migrationVars

-----------------------------------------------------------------------------
Copies(r, d) ==
    {i \in DOMAIN ddns_configs : ddns_configs[i].row = r /\ ddns_configs[i].domain = d}

(* When the old table is dropped, every domain of each of its live rows,   *)
(* in whichever columns it was listed, has exactly one row in the new one, *)
(* and no other domain has: after any number of failed attempts where the  *)
(* database takes them back, and without one where it does not.            *)
LegacyPreserved ==
    dropped /\ (transactional \/ ~failed) =>
        \A r \in Legacy, d \in Domain :
            Cardinality(Copies(r, d)) =
                IF ~legacy[r].is_deleted /\ (\E c \in Column : Lists(r, c, d))
                THEN 1 ELSE 0
=============================================================================
