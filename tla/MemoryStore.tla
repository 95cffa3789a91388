---------------------------- MODULE MemoryStore ----------------------------
(***************************************************************************)
(* The second implementation of the Store interface (internal/state,       *)
(* memory_store.go and memory_runs_queue.go): maps under one mutex, so     *)
(* that every method is one atomic step.  It has the same state as         *)
(* StateStore; the operators below are the methods that do something else  *)
(* than their MySQL counterparts.  There are no foreign keys, no           *)
(* uniqueness of a run's product keys, and no caps on what is listed.      *)
(***************************************************************************)
EXTENDS StateStore, Integers, SequencesExt

(* Mutant: the copy is made row by row, outside the mutex. *)
InsertRunProducts_Partly(r, rows) ==
    runProducts' = [runProducts EXCEPT ![r] = SubSeq(rows, 1, Len(rows) - 1)]

(* The whole list at once, over what was there. *)
InsertRunProducts(r, rows) == runProducts' = [runProducts EXCEPT ![r] = rows]

(* The batches ClaimRuns may return: the oldest pending runs, at most      *)
(* limit.                                                                  *)
OldestOf(limit) ==
    {S \in SUBSET Claimable :
        /\ \/ Cardinality(S) = limit
           \/ Cardinality(S) < limit /\ S = Claimable
        /\ \A a \in S, b \in Claimable \ S : runs[a].created <= runs[b].created}

(* ClaimRuns: selected and marked under the mutex. *)
ClaimRuns(S) == runs' = WithStatus(runs, S, "processing")

(* Mutant: a failed run becomes pending again. *)
ResolveRun_Requeues(t, r, status) ==
    runs' = WithStatus(runs, {r}, IF status = "failed" THEN "has_changes" ELSE status)

(* Mutant: the message is stored where the status belongs. *)
ResolveRun_WritesMessage(t, r, status) ==
    runs' = WithStatus(runs, {r}, IF status = "failed" THEN "error message" ELSE status)

(* CompleteRun and FailRun of a run that exists and belongs to the tenant. *)
ResolveRun(t, r, status) ==
    runs' = WithStatus(runs, {q \in {r} : runs[q].status # "absent" /\ runs[q].tenant = t}, status)

(* A limit that is not positive, or too large, is no limit. *)
Truncated(list, limit) ==
    IF limit <= 0 \/ limit > Len(list) THEN list ELSE SubSeq(list, 1, limit)

(* Mutant: the tenant is not looked at. *)
RunsOf_AnyTenant(t) == {r \in Requests : runs[r].status # "absent"}

RunsOf(t) == {r \in Requests : runs[r].status # "absent" /\ runs[r].tenant = t}

(* The orders ListRuns may put a tenant's runs in: newest first. *)
NewestFirst(t) ==
    {list \in SetToSeqs(RunsOf(t)) :
        \A i, j \in DOMAIN list : i < j => runs[list[i]].created >= runs[list[j]].created}

(* The orders ListRunProducts may put a run's rows in: by product key. *)
ByKey(r) ==
    {[i \in DOMAIN p |-> runProducts[r][p[i]]] :
        p \in {q \in SetToSeqs(DOMAIN runProducts[r]) :
                  \A i, j \in DOMAIN q :
                      i < j => runProducts[r][q[i]].key <= runProducts[r][q[j]].key}}
=============================================================================
