------------------------------ MODULE RunQueue ------------------------------
(***************************************************************************)
(* What the run queue promises: runs are claimed, executed and resolved as *)
(* if by atomic steps on one table, the way the in-memory queue does it    *)
(* under its mutex.  A run is executed at most once, only after it was     *)
(* claimed, and its outcome is final.  The abstract specification does not *)
(* promise that a claimed run is ever executed or resolved, nor an order   *)
(* of the claims.                                                          *)
(*                                                                         *)
(* The API service inserts runs, worker processes do the rest.             *)
(***************************************************************************)
EXTENDS Naturals, FiniteSets

CONSTANTS Requests,    \* run ids
          MaxPerClaim  \* the limit of one claim

VARIABLES status,      \* the status of each run
          attempts     \* how often each run was handed to OnExecute

queueVars == <<status, attempts>>

Init ==
    /\ status = [r \in Requests |-> "absent"]
    /\ attempts = [r \in Requests |-> 0]

(* A run with pending changes, or one that is over from the start. *)
Insert(r) ==
    /\ status[r] = "absent"
    /\ \E s \in {"has_changes", "no_change_detected", "completed"} :
          status' = [status EXCEPT ![r] = s]
    /\ UNCHANGED attempts

(* ClaimRuns: at most MaxPerClaim pending runs at a time. *)
Claim(S) ==
    /\ Cardinality(S) <= MaxPerClaim
    /\ \A r \in S : status[r] = "has_changes"
    /\ status' = [r \in Requests |-> IF r \in S THEN "processing" ELSE status[r]]
    /\ UNCHANGED attempts

Execute(r) ==
    /\ status[r] = "processing"
    /\ attempts[r] = 0
    /\ attempts' = [attempts EXCEPT ![r] = 1]
    /\ UNCHANGED status

(* CompleteRun after an execution, FailRun after one or instead of one. *)
Resolve(r) ==
    /\ status[r] = "processing"
    /\ \/ attempts[r] = 1 /\ status' = [status EXCEPT ![r] = "completed"]
       \/ status' = [status EXCEPT ![r] = "failed"]
    /\ UNCHANGED attempts

Next ==
    \/ \E r \in Requests : Insert(r) \/ Execute(r) \/ Resolve(r)
    \/ \E S \in SUBSET Requests : Claim(S)

Spec == Init /\ [][Next]_queueVars
=============================================================================
