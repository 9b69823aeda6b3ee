------------------------------- MODULE Migrate -------------------------------
(***************************************************************************)
(* Opening the embedded datastore and bringing its schema up to date.      *)
(* Every process that uses the database (the daemon, and the CLI while the *)
(* daemon is down) opens it and runs the migrations before anything else.  *)
(* The database belongs to one process at a time.  Statements autocommit,  *)
(* so a run that stops leaves what it had executed.                        *)
(***************************************************************************)
EXTENDS Naturals, Sequences

CONSTANTS Process, Nobody

VARIABLES
  holder,    \* the process that has the database open
  at,        \* where its migration run stands
  objects,   \* the tables and indexes of the database
  versions   \* table schema_version

-----------------------------------------------------------------------------
\* MIGRATIONS: what the statements of each file create, in order.
Migrations ==
  << <<"envelopes", "idx_envelopes_queue_live", "idx_envelopes_expiry",
       "idx_envelopes_uniq", "delivery_receipts", "idx_receipts_queue">>,
     <<"peer_trust">> >>

\* The table an index is on, for the objects that are indexes.
Needs(object) ==
  CASE object \in {"idx_envelopes_queue_live", "idx_envelopes_expiry",
                   "idx_envelopes_uniq"} -> {"envelopes"}
    [] object = "idx_receipts_queue" -> {"delivery_receipts"}
    [] OTHER -> {}

Creates(v) == {Migrations[v][i] : i \in DOMAIN Migrations[v]}

\* A run is at statement `stmt` of version `version`: version 0 creates the table
\* schema_version; statement 0 of a version asks whether it is recorded, the one
\* after its last records it; past the last version the run is over.
Start == [version |-> 0, stmt |-> 0]
Past == [version |-> Len(Migrations) + 1, stmt |-> 0]

Migrated(p) == holder = p /\ at = Past

\* The databases a process may find: none, or one that an earlier release left.
MigrateInit ==
  /\ holder = Nobody
  /\ at = Start
  /\ \E n \in 0..Len(Migrations) :
       /\ versions = 1..n
       /\ objects = UNION {Creates(v) : v \in 1..n} \cup
                    (IF n = 0 THEN {} ELSE {"schema_version"})

\* DataStack::connect: the database is locked, so only one process gets it.
Open(p) ==
  /\ holder = Nobody
  /\ holder' = p
  /\ at' = Start
  /\ UNCHANGED <<objects, versions>>

\* The process ends, or gives up because a statement failed.
Close ==
  /\ holder # Nobody
  /\ holder' = Nobody
  /\ at' = Start
  /\ UNCHANGED <<objects, versions>>

NextVersion == [version |-> at.version + 1, stmt |-> 0]
NextStatement == [at EXCEPT !.stmt = @ + 1]

\* CREATE TABLE IF NOT EXISTS schema_version
CreateVersionTable ==
  /\ holder # Nobody
  /\ at.version = 0
  /\ objects' = objects \cup {"schema_version"}
  /\ at' = NextVersion
  /\ UNCHANGED <<holder, versions>>

\* Mutant of IsApplied: a version below the newest recorded one counts as applied.
IsApplied_Any ==
  /\ holder # Nobody
  /\ at.version \in DOMAIN Migrations /\ at.stmt = 0
  /\ at' = IF versions # {} THEN NextVersion ELSE NextStatement
  /\ UNCHANGED <<holder, objects, versions>>

\* is_applied: a recorded version is passed over.
IsApplied ==
  /\ holder # Nobody
  /\ at.version \in DOMAIN Migrations /\ at.stmt = 0
  /\ at' = IF at.version \in versions THEN NextVersion ELSE NextStatement
  /\ UNCHANGED <<holder, objects, versions>>

\* Mutant of Execute: CREATE without IF NOT EXISTS.
Execute_Bare ==
  /\ holder # Nobody
  /\ at.version \in DOMAIN Migrations
  /\ at.stmt \in DOMAIN Migrations[at.version]
  /\ LET object == Migrations[at.version][at.stmt]
     IN  /\ Needs(object) \subseteq objects
         /\ object \notin objects
         /\ objects' = objects \cup {object}
  /\ at' = NextStatement
  /\ UNCHANGED <<holder, versions>>

\* CREATE ... IF NOT EXISTS: fails only if the table that an index is on is missing.
Execute ==
  /\ holder # Nobody
  /\ at.version \in DOMAIN Migrations
  /\ at.stmt \in DOMAIN Migrations[at.version]
  /\ LET object == Migrations[at.version][at.stmt]
     IN  /\ Needs(object) \subseteq objects
         /\ objects' = objects \cup {object}
  /\ at' = NextStatement
  /\ UNCHANGED <<holder, versions>>

\* INSERT INTO schema_version: the version is its primary key.
Record ==
  /\ holder # Nobody
  /\ at.version \in DOMAIN Migrations
  /\ at.stmt = Len(Migrations[at.version]) + 1
  /\ at.version \notin versions
  /\ versions' = versions \cup {at.version}
  /\ at' = NextVersion
  /\ UNCHANGED <<holder, objects>>

MigrateStep == CreateVersionTable \/ IsApplied \/ Execute \/ Record
=============================================================================
