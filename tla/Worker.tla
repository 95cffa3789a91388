------------------------------- MODULE Worker -------------------------------
(***************************************************************************)
(* The worker service: Runner.tick claims a batch of runs in a             *)
(* transaction, hands each to Executor.Execute and records the outcome     *)
(* (internal/worker, internal/execute, the MySQL run queue).  Any number   *)
(* of worker processes poll the same table.                                *)
(*                                                                         *)
(* The channel push itself (Executor.OnExecute) is a seam the repository   *)
(* leaves nil; it is modelled as an external call that receives the        *)
(* enqueued products and either publishes them or reports an error.        *)
(***************************************************************************)
EXTENDS StateStore

CONSTANTS Workers,        \* worker processes
          MaxPerClaim,    \* Runner.MaxPerClaim
          ProductLimit,   \* Executor.ProductLimit
          NoJob,          \* no run is being executed
          WorkerMayCrash, \* a worker process may die
          QueueFaults     \* the worker's Store calls may fail

ASSUME WorkerAssumption ==
    /\ MaxPerClaim \in Nat \ {0}
    /\ ProductLimit \in Nat \ {0}
    /\ NoJob \notin Requests
    /\ WorkerMayCrash \in BOOLEAN
    /\ QueueFaults \in BOOLEAN

VARIABLES wpc,      \* where Runner.tick is
          claims,   \* runs selected or claimed and not started yet
          job,      \* the run being executed
          loaded,   \* the enqueued products Execute read for it
          pushes,   \* history: how often OnExecute was called for a run
          channel   \* external: the content last published per product

workerVars == <<wpc, claims, job, loaded, pushes, channel>>

(* "claiming": the claim's transaction holds its row locks. *)
WPCs == {"stopped", "idle", "claiming", "next", "list", "execute", "complete", "fail"}

WorkerTypeOK ==
    /\ wpc \in [Workers -> WPCs]
    /\ claims \in [Workers -> SUBSET Requests]
    /\ job \in [Workers -> Requests \cup {NoJob}]
    /\ loaded \in [Workers -> SUBSET Row]
    /\ pushes \in [Requests -> Nat]
    /\ channel \in [Tenants -> [Keys -> Hashes \cup {NoHash}]]

WorkerInit ==
    /\ wpc = [w \in Workers |-> "idle"]
    /\ claims = [w \in Workers |-> {}]
    /\ job = [w \in Workers |-> NoJob]
    /\ loaded = [w \in Workers |-> {}]
    /\ pushes = [r \in Requests |-> 0]
    /\ channel = [t \in Tenants |-> [k \in Keys |-> NoHash]]

WGoto(w, label) == wpc' = [wpc EXCEPT ![w] = label]
-----------------------------------------------------------------------------
(* Mutant: the SELECT has a limit and no order. *)
ClaimBatches_AnyOrder ==
    {S \in SUBSET Claimable :
        /\ S # {}
        /\ Cardinality(S) <= MaxPerClaim
        /\ Cardinality(S) < MaxPerClaim => S = Claimable}

(* The oldest claimable runs, at most MaxPerClaim of them; runs created in *)
(* the same second come in any order.                                      *)
ClaimBatches ==
    {S \in SUBSET Claimable :
        /\ S # {}
        /\ Cardinality(S) <= MaxPerClaim
        /\ Cardinality(S) < MaxPerClaim => S = Claimable
        /\ \A a \in S, b \in Claimable \ S : runs[a].created <= runs[b].created}

(* Mutant: a plain SELECT, which locks nothing. *)
RowsLocked_NoForUpdate(w) == FALSE

(* FOR UPDATE: the scan waits for a row another transaction has locked. *)
RowsLocked(w) ==
    \E v \in Workers \ {w} : wpc[v] = "claiming" /\ claims[v] \cap Claimable # {}

(* The SELECT of ClaimRuns. *)
SelectRuns(w) ==
    /\ wpc[w] = "idle"
    /\ ~RowsLocked(w)
    /\ \E S \in ClaimBatches : claims' = [claims EXCEPT ![w] = S]
    /\ WGoto(w, "claiming")
    /\ UNCHANGED <<job, loaded, pushes, channel, storeVars>>

(* The SELECT finds no row: the tick is over. *)
PollNothing(w) ==
    /\ wpc[w] = "idle"
    /\ Claimable = {}
    /\ UNCHANGED <<workerVars, storeVars>>

(* Mutant: the claimed runs are not marked. *)
MarkProcessing_Forgotten(w) == UNCHANGED runs

(* UPDATE ... WHERE status = 'has_changes' for every selected run. *)
MarkProcessing(w) ==
    runs' = WithStatus(runs, claims[w] \cap {r \in Requests : runs[r].status = "has_changes"},
                       "processing")

(* The UPDATEs and the commit.  How many rows they changed is not looked   *)
(* at: every selected run is handed to the executor.                       *)
CommitClaim(w) ==
    /\ wpc[w] = "claiming"
    /\ MarkProcessing(w)
    /\ WGoto(w, "next")
    /\ UNCHANGED <<claims, job, loaded, pushes, channel, productHash, runProducts>>

(* ClaimRuns reports an error, from the commit possibly after it took      *)
(* effect: tick and Run return, and main exits the process.                *)
ClaimFails(w) ==
    /\ QueueFaults
    /\ wpc[w] \in {"idle", "claiming"}
    /\ \/ wpc[w] = "claiming" /\ MarkProcessing(w)
       \/ UNCHANGED runs
    /\ WGoto(w, "stopped")
    /\ claims' = [claims EXCEPT ![w] = {}]
    /\ UNCHANGED <<job, loaded, pushes, channel, productHash, runProducts>>

(* The next claim of the batch, oldest first. *)
Oldest(S) == {r \in S : \A q \in S : runs[r].created <= runs[q].created}

TakeJob(w, r) ==
    /\ wpc[w] = "next"
    /\ r \in Oldest(claims[w])
    /\ job' = [job EXCEPT ![w] = r]
    /\ claims' = [claims EXCEPT ![w] = @ \ {r}]

(* Execute begins: GetRun finds the run of this tenant, or it fails. *)
GetRun(w) ==
    /\ \E r \in Requests :
        /\ TakeJob(w, r)
        /\ \/ runs[r].status # "absent" /\ WGoto(w, "list")
           \/ (runs[r].status = "absent" \/ QueueFaults) /\ WGoto(w, "fail")
    /\ UNCHANGED <<loaded, pushes, channel, storeVars>>

(* Mutant: every product of the run is pushed. *)
Enqueued_Everything(rows) == rows

(* Execute's filter. *)
Enqueued(rows) == {row \in rows : row.disp = "enqueued"}

(* ListRunProducts, a second read, not in one transaction with GetRun. *)
LoadProducts(w) ==
    /\ wpc[w] = "list"
    /\ \/ /\ loaded' = [loaded EXCEPT ![w] = Enqueued(ListRunProducts(job[w], ProductLimit))]
          /\ WGoto(w, "execute")
       \/ /\ QueueFaults
          /\ WGoto(w, "fail")
          /\ UNCHANGED loaded
    /\ UNCHANGED <<claims, job, pushes, channel, storeVars>>

(* External: the channel after the products in rows were published for t.  *)
Published(t, rows) ==
    [channel EXCEPT ![t] = [k \in Keys |->
        IF \E row \in rows : row.key = k
        THEN (CHOOSE row \in rows : row.key = k).hash
        ELSE @[k]]]

(* External: OnExecute(run, enqueued) publishes the products or fails. *)
OnExecute(w) ==
    /\ wpc[w] = "execute"
    /\ pushes' = [pushes EXCEPT ![job[w]] = @ + 1]
    /\ \/ /\ channel' = Published(runs[job[w]].tenant, loaded[w])
          /\ WGoto(w, "complete")
       \/ /\ UNCHANGED channel
          /\ WGoto(w, "fail")
    /\ UNCHANGED <<claims, job, loaded, storeVars>>

(* The run's outcome is written; an error of CompleteRun or FailRun is     *)
(* dropped.  Then the loop goes on with the next claim.                    *)
EndJob(w) ==
    /\ job' = [job EXCEPT ![w] = NoJob]
    /\ loaded' = [loaded EXCEPT ![w] = {}]
    /\ WGoto(w, IF claims[w] = {} THEN "idle" ELSE "next")
    /\ UNCHANGED <<claims, pushes, channel, productHash, runProducts>>

RecordOutcome(w) ==
    /\ \/ wpc[w] = "complete" /\ CompleteRun(job[w])
       \/ wpc[w] = "fail" /\ FailRun(job[w])
    /\ EndJob(w)

OutcomeDropped(w) ==
    /\ QueueFaults
    /\ wpc[w] \in {"complete", "fail"}
    /\ UNCHANGED runs
    /\ EndJob(w)

(* The process dies or is told to shut down: main returns right after      *)
(* cancel(), whatever tick was doing.  An open transaction is rolled back. *)
WorkerCrash(w) ==
    /\ WorkerMayCrash
    /\ wpc[w] # "stopped"
    /\ WGoto(w, "stopped")
    /\ claims' = [claims EXCEPT ![w] = {}]
    /\ job' = [job EXCEPT ![w] = NoJob]
    /\ loaded' = [loaded EXCEPT ![w] = {}]
    /\ UNCHANGED <<pushes, channel, storeVars>>

(* The platform starts it again; Run makes one immediate pass. *)
WorkerStart(w) ==
    /\ wpc[w] = "stopped"
    /\ WGoto(w, "idle")
    /\ UNCHANGED <<claims, job, loaded, pushes, channel, storeVars>>

WorkerStep(w) ==
    \/ SelectRuns(w) \/ CommitClaim(w) \/ GetRun(w) \/ LoadProducts(w)
    \/ OnExecute(w) \/ RecordOutcome(w) \/ WorkerStart(w)
=============================================================================
