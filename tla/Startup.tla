------------------------------ MODULE Startup ------------------------------
(***************************************************************************)
(* How the processes of a deployment come up (cmd/api, cmd/worker): the    *)
(* state store is opened, an API process applies the migrations            *)
(* (internal/migrate) and creates the debug tenant when it is told to, a   *)
(* worker process polls the run queue.  A process that fails exits and the *)
(* platform starts it again, so that several processes are at any step at  *)
(* the same time, over one database.                                       *)
(*                                                                         *)
(* A migration file is a list of CREATE TABLE IF NOT EXISTS statements;    *)
(* each is committed on its own.  A table is named by its statement        *)
(* <<file, number>>, files being numbered in the order of their names.     *)
(***************************************************************************)
EXTENDS Naturals, Sequences

CONSTANTS Apis,          \* API processes
          Workers,       \* worker processes
          Statements,    \* how many statements each migration file has
          RunsStatement, \* the statement of the first file that creates runs
          Configs,       \* the configurations the processes may be given
          MaxCrashes     \* bound on the processes that die for no reason of theirs

(* Config: dsn "single" does not let one call carry several statements.    *)
Config == [backend : {"memory", "mysql", "unknown"}, dsn : {"none", "single", "multi"},
           migrate : BOOLEAN, env : {"dev", "prod"}, key : BOOLEAN]

ASSUME StartupAssumption ==
    /\ Apis \cap Workers = {}
    /\ Statements \in Seq(Nat \ {0}) /\ Statements # <<>>
    /\ RunsStatement \in 1..Statements[1]
    /\ Configs \subseteq Config
    /\ MaxCrashes \in Nat

VARIABLES config,   \* what config.Load read, the same for all processes
          tables,   \* the tables that exist
          marks,    \* the rows of schema_migrations
          ledger,   \* schema_migrations itself exists
          tenant,   \* the row of tenant 1 exists
          phase,    \* where each process is
          file,     \* ApplyDir's loop
          stmt,     \* the next statement of the file being executed
          crashes   \* how many processes have died

dbVars == <<tables, marks, ledger, tenant>>
vars == <<config, dbVars, phase, file, stmt, crashes>>

Processes == Apis \cup Workers
Files == 1..Len(Statements)
TablesOf(f) == {<<f, s>> : s \in 1..Statements[f]}
AllTables == UNION {TablesOf(f) : f \in Files}
TenantsTable == <<1, 1>>
RunsTable == <<1, RunsStatement>>

(* "ready": the API accepts requests, the worker has polled. *)
Phases == {"down", "ensure", "check", "exec", "mark", "bootstrap", "poll", "ready"}

TypeOK ==
    /\ config \in Configs
    /\ tables \subseteq AllTables
    /\ marks \subseteq Files
    /\ ledger \in BOOLEAN /\ tenant \in BOOLEAN
    /\ phase \in [Processes -> Phases]
    /\ file \in [Apis -> 1..(Len(Statements) + 1)]
    /\ stmt \in [Apis -> Nat \ {0}]
    /\ crashes \in 0..MaxCrashes

(* The database is empty, or an operator has created the tables by hand.   *)
Init ==
    /\ config \in Configs
    /\ tables \in {{}, AllTables}
    /\ marks = {}
    /\ ledger = FALSE
    /\ tenant = FALSE
    /\ phase = [p \in Processes |-> "down"]
    /\ file = [p \in Apis |-> 1]
    /\ stmt = [p \in Apis |-> 1]
    /\ crashes = 0

Goto(p, label) == phase' = [phase EXCEPT ![p] = label]

(* os.Exit(1): what the process held in memory is gone. *)
Exit(p) ==
    /\ Goto(p, "down")
    /\ file' = [q \in Apis |-> IF q = p THEN 1 ELSE file[q]]
    /\ stmt' = [q \in Apis |-> IF q = p THEN 1 ELSE stmt[q]]
-----------------------------------------------------------------------------
(* NewStore: a backend it knows, and a DSN for mysql.  That the database   *)
(* answers the ping is the absence of a crash.                             *)
StoreOpens ==
    \/ config.backend = "memory"
    \/ config.backend = "mysql" /\ config.dsn # "none"

(* factoryRes.DB # nil *)
HasDB == config.backend = "mysql"

(* After the migrations: the debug tenant, in dev. *)
Bootstraps == HasDB /\ config.env = "dev"

AfterMigrations == IF Bootstraps THEN "bootstrap" ELSE "ready"

(* The public key may be missing in dev only. *)
StartApi(p) ==
    /\ phase[p] = "down"
    /\ \/ /\ StoreOpens /\ (config.key \/ config.env = "dev")
          /\ Goto(p, IF config.migrate /\ HasDB THEN "ensure" ELSE AfterMigrations)
          /\ UNCHANGED <<file, stmt>>
       \/ /\ ~(StoreOpens /\ (config.key \/ config.env = "dev"))
          /\ Exit(p)
    /\ UNCHANGED <<config, dbVars, crashes>>

(* ensureSchemaMigrations *)
Ensure(p) ==
    /\ phase[p] = "ensure"
    /\ ledger' = TRUE
    /\ Goto(p, "check")
    /\ UNCHANGED <<config, tables, marks, tenant, file, stmt, crashes>>

(* Mutant: an applied migration is taken for a new one. *)
IsApplied_Never(f) == FALSE

IsApplied(f) == f \in marks

(* Mutant: the loop stops before the last file. *)
AllSeen_OneEarly(p) == file[p] >= Len(Statements)

AllSeen(p) == file[p] > Len(Statements)

(* Mutant: the loop does not end. *)
Check_NoEnd(p) ==
    /\ phase[p] = "check"
    /\ file' = [file EXCEPT ![p] = @ + 1]
    /\ UNCHANGED <<config, dbVars, phase, stmt, crashes>>

(* The head of ApplyDir's loop. *)
Check(p) ==
    /\ phase[p] = "check"
    /\ \/ /\ AllSeen(p)
          /\ Goto(p, AfterMigrations)
          /\ UNCHANGED file
       \/ /\ ~AllSeen(p) /\ IsApplied(file[p])
          /\ file' = [file EXCEPT ![p] = @ + 1]
          /\ UNCHANGED phase
       \/ /\ ~AllSeen(p) /\ ~IsApplied(file[p])
          /\ Goto(p, "exec")
          /\ UNCHANGED file
    /\ UNCHANGED <<config, dbVars, stmt, crashes>>

(* Mutant: the last statement of a file is not awaited. *)
LastStatement_OneEarly(p) == stmt[p] + 1 >= Statements[file[p]]

LastStatement(p) == stmt[p] = Statements[file[p]]

(* The whole text of the file is one call, which the server executes       *)
(* statement by statement, or refuses.                                     *)
Exec(p) ==
    /\ phase[p] = "exec"
    /\ \/ /\ config.dsn # "multi" /\ Statements[file[p]] > 1
          /\ Exit(p)
          /\ UNCHANGED tables
       \/ /\ config.dsn = "multi" \/ Statements[file[p]] = 1
          /\ tables' = tables \cup {<<file[p], stmt[p]>>}
          /\ \/ /\ LastStatement(p)
                /\ stmt' = [stmt EXCEPT ![p] = 1]
                /\ Goto(p, "mark")
             \/ /\ ~LastStatement(p)
                /\ stmt' = [stmt EXCEPT ![p] = @ + 1]
                /\ UNCHANGED phase
          /\ UNCHANGED file
    /\ UNCHANGED <<config, marks, ledger, tenant, crashes>>

(* markApplied, a plain INSERT: it fails when another process was faster,  *)
(* and the process exits.                                                  *)
Mark(p) ==
    /\ phase[p] = "mark"
    /\ \/ /\ file[p] \in marks
          /\ Exit(p)
          /\ UNCHANGED marks
       \/ /\ file[p] \notin marks
          /\ marks' = marks \cup {file[p]}
          /\ file' = [file EXCEPT ![p] = @ + 1]
          /\ Goto(p, "check")
          /\ UNCHANGED stmt
    /\ UNCHANGED <<config, tables, ledger, tenant, crashes>>

(* The upsert of tenant 1. *)
Bootstrap(p) ==
    /\ phase[p] = "bootstrap"
    /\ \/ /\ TenantsTable \in tables
          /\ tenant' = TRUE
          /\ Goto(p, "ready")
          /\ UNCHANGED <<file, stmt>>
       \/ /\ TenantsTable \notin tables
          /\ Exit(p)
          /\ UNCHANGED tenant
    /\ UNCHANGED <<config, tables, marks, ledger, crashes>>

(* The worker has no key and no migrations. *)
StartWorker(p) ==
    /\ phase[p] = "down"
    /\ \/ StoreOpens /\ Goto(p, "poll") /\ UNCHANGED <<file, stmt>>
       \/ ~StoreOpens /\ Exit(p)
    /\ UNCHANGED <<config, dbVars, crashes>>

(* ClaimRuns, at once and then every second: without table runs it fails,  *)
(* Run returns the error and the process exits.                            *)
Poll(p) ==
    /\ phase[p] \in {"poll", "ready"}
    /\ \/ /\ ~HasDB \/ RunsTable \in tables
          /\ Goto(p, "ready")
          /\ UNCHANGED <<file, stmt>>
       \/ /\ HasDB /\ RunsTable \notin tables
          /\ Exit(p)
    /\ UNCHANGED <<config, dbVars, crashes>>

(* A process is killed, or a call fails: a ping, a statement, the 30       *)
(* seconds of the migrations, ListenAndServe.  A statement that takes      *)
(* effect and is reported as failed is its own step and then this one.     *)
Crash(p) ==
    /\ phase[p] # "down"
    /\ crashes < MaxCrashes
    /\ crashes' = crashes + 1
    /\ Exit(p)
    /\ UNCHANGED <<config, dbVars>>

ApiStep(p) == StartApi(p) \/ Ensure(p) \/ Check(p) \/ Exec(p) \/ Mark(p) \/ Bootstrap(p)

WorkerStep(p) == StartWorker(p) \/ Poll(p)

Next ==
    \/ \E p \in Apis : ApiStep(p)
    \/ \E p \in Workers : WorkerStep(p)
    \/ \E p \in Processes : Crash(p)

(* The platform restarts what has exited, and the operating system runs    *)
(* every process.                                                          *)
Spec ==
    /\ Init /\ [][Next]_vars
    /\ \A p \in Apis : WF_vars(ApiStep(p))
    /\ \A p \in Workers : WF_vars(WorkerStep(p))
-----------------------------------------------------------------------------
(* A migration that schema_migrations lists is complete, and so are all    *)
(* the ones before it, whichever processes executed them and wherever they *)
(* died.                                                                   *)
MarkedIsComplete ==
    \A f \in marks : \A g \in 1..f : TablesOf(g) \subseteq tables

(* An API process that was told to migrate serves requests over the whole  *)
(* schema, and in dev with the debug tenant the foreign keys need; a       *)
(* worker that polls has a table to poll.                                  *)
ReadyHasSchema ==
    \A p \in Processes : HasDB /\ phase[p] = "ready" =>
        /\ p \in Apis /\ config.migrate => tables = AllTables /\ marks = Files
        /\ p \in Apis /\ config.env = "dev" => tenant
        /\ p \in Workers => RunsTable \in tables

(* The configuration is one the services can run with. *)
Usable ==
    /\ StoreOpens
    /\ config.key \/ config.env = "dev"
    /\ HasDB => \/ config.migrate /\ config.dsn = "multi"
                \/ ~config.migrate /\ tables = AllTables

(* With a usable configuration every process comes up in the end and stays *)
(* up, although processes that start together make each other's            *)
(* markApplied fail.                                                       *)
AllStart == Usable => <>[](\A p \in Processes : phase[p] = "ready")
=============================================================================
