------------------------------- MODULE Server -------------------------------
(***************************************************************************)
(* The process: start-up as main.run orders it - migrations, auth.Service, *)
(* the administrator, the other services - then serving, and stopping or   *)
(* dying at any moment.                                                    *)
(***************************************************************************)
EXTENDS Migrations, Auth

CONSTANTS
  Configs,          \* what config.Load may return, from start to start
  MaxStarts         \* bound: starts over a behaviour

ASSUME ServerAssumption == MaxStarts \in Nat

VARIABLES
  phase,            \* how far run() is, "down" when there is no process
  config,           \* of the process that runs
  starts            \* starts so far

processVars == <<phase, config, starts>>
vars == <<db, migration, users, sessions, access, now, calls, phase, config, starts>>

NoConfig == [name |-> None, password |-> None, secret |-> None]

\* A database that has the table users may have the account of an earlier time.
Init ==
  /\ MigrationsInit
  /\ \E c \in {c \in Configs : Configured(c)} :
       \E accounts \in {{}, {[name |-> c.name, password |-> c.password]}} :
         /\ 1 \notin db.recorded => accounts = {}
         /\ AuthInit(accounts)
  /\ phase = "down" /\ config = NoConfig /\ starts = 0

Start ==
  /\ phase = "down" /\ starts < MaxStarts
  /\ config' \in Configs
  /\ phase' = "migrating"
  /\ starts' = starts + 1
  /\ BeginMigrations(now)
  /\ UNCHANGED authVars

Migrate ==
  /\ phase = "migrating"
  /\ MigrationStep
  /\ UNCHANGED <<authVars, processVars>>

FinishMigrating ==
  /\ phase = "migrating"
  /\ CommitMigrations
  /\ phase' = "preparing"
  /\ UNCHANGED <<authVars, config, starts>>

\* NewService and the count of BootstrapAdmin.
Prepare ==
  /\ phase = "preparing"
  /\ Configured(config)
  /\ phase' = IF AdminMissing(users) THEN "bootstrapping" ELSE "serving"
  /\ UNCHANGED <<migrationVars, authVars, config, starts>>

Bootstrap ==
  /\ phase = "bootstrapping"
  /\ CreateAdmin(config)
  /\ phase' = "serving"
  /\ UNCHANGED <<migrationVars, config, starts>>

\* An error of any step of run(), a signal, or the end of the process.  What it
\* was doing is lost; Shutdown waits for requests, which is a stop after them.
Stop ==
  /\ phase # "down"
  /\ AbandonMigrations
  /\ phase' = "down" /\ config' = NoConfig
  /\ calls' = AllIdle
  /\ UNCHANGED <<users, sessions, access, now, starts>>

Serve ==
  /\ phase = "serving"
  /\ \/ \E r \in Requests : Call(r, config.secret)
     \/ \E s \in DOMAIN sessions : Logout(s)
  /\ UNCHANGED <<migrationVars, processVars>>

PassTime == Tick /\ UNCHANGED <<migrationVars, processVars>>

Next ==
  \/ Start \/ Migrate \/ FinishMigrating \/ Prepare \/ Bootstrap \/ Stop
  \/ Serve \/ PassTime

Spec == Init /\ [][Next]_vars
=============================================================================
