------------------------------- MODULE Startup -------------------------------
(***************************************************************************)
(* A node through its starts and stops: the daemon opens the datastore,    *)
(* migrates it and serves the relay of Mailbox; while it is down the CLI   *)
(* may open the datastore, migrate it and sweep it.  Either may stop at    *)
(* any point, inside a migration too.                                      *)
(***************************************************************************)
EXTENDS Mailbox, Sequences

CONSTANTS Daemon, Cli

VARIABLES holder, at, objects, versions

M == INSTANCE Migrate WITH Process <- {Daemon, Cli}, Nobody <- None

store == <<holder, at, objects, versions>>
nodeVars == <<vars, store>>

Serving == M!Migrated(Daemon)

NodeInit == Init /\ M!MigrateInit

\* The daemon starts, or a `buh-cli migrate` or `sweep`.
OpenStore(p) == M!Open(p) /\ UNCHANGED vars

MigrateStore == M!MigrateStep /\ UNCHANGED vars

\* Requests and the sweeper begin when the migrations are over.
Relay(step) == Serving /\ step /\ UNCHANGED store

RelayStep ==
  Relay((\E c \in Client : ClientStep(c)) \/ SweepTick \/ SweepDelete \/ SweepError)

\* `buh-cli sweep` migrates, then deletes what has expired.
CliSweep ==
  /\ M!Migrated(Cli)
  /\ SweepTick \/ SweepDelete
  /\ UNCHANGED store

\* The process that has the datastore ends; the tables are all that remains.
Stop == M!Close /\ Restart

TimePasses == Tick /\ UNCHANGED store

NodeNext ==
  \/ \E p \in {Daemon, Cli} : OpenStore(p)
  \/ MigrateStore
  \/ RelayStep
  \/ CliSweep
  \/ Stop
  \/ TimePasses

(***************************************************************************)
(* The runtime goes on with a start, and with the requests in flight and   *)
(* the sweeper's timer for as long as the daemon stays up: every start     *)
(* makes a new timer and lets its first, immediate tick go by, so nothing  *)
(* is assumed of a daemon that stops before the interval is over.  Not all *)
(* sweeps that begin fail or are cut short.  Nothing is assumed of starts  *)
(* and stops.                                                              *)
(***************************************************************************)
NodeFairness ==
  /\ WF_nodeVars(MigrateStore)
  /\ \A c \in Client :
       WF_nodeVars(Relay(\/ PullSelect(c) \/ PullListen(c) \/ PullTimeout(c)
                         \/ PullWoken(c) \/ PullReselect(c)))
  /\ WF_nodeVars(Relay(SweepTick))
  /\ SF_nodeVars(Relay(SweepDelete))

NodeSpec == NodeInit /\ [][NodeNext]_nodeVars /\ NodeFairness

-----------------------------------------------------------------------------
(***************************************************************************)
(* Properties                                                              *)
(***************************************************************************)

\* Whoever has migrated finds every table and index of every version, however often
\* and wherever earlier runs were cut short; a version is never recorded before all
\* it creates is there.
SchemaComplete ==
  /\ \A v \in versions : M!Creates(v) \subseteq objects
  /\ \A p \in {Daemon, Cli} : M!Migrated(p) =>
       versions = DOMAIN M!Migrations

\* A start that is not cut short comes to serve: no run of the migrations that was
\* cut short before left a database that a later run cannot finish.
StartCompletes == holder = Daemon ~> Serving \/ holder # Daemon

\* What has expired is deleted in the end if the daemon at last stays up, or if it
\* stays up for the sweep interval again and again, through any number of stops.
ReclaimedWhenUp ==
  <>[]Serving \/ []<><<Relay(SweepTick)>>_nodeVars => ExpiredReclaimed
=============================================================================
