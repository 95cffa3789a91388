--------------------------- MODULE UpsertHandlers ---------------------------
(***************************************************************************)
(* The API service's two ingestion handlers (internal/api/handlers):       *)
(* DebugUpsertHandler ("json": look every product up, then persist every   *)
(* hash) and DebugBulkUpsertHandler ("bulk": look up and persist line by   *)
(* line).  Each request runs in its own goroutine; one action is the work  *)
(* between two Store calls, so the requests interleave at every call.      *)
(*                                                                         *)
(* A Store call fails when the database does or when the request's context *)
(* is cancelled.  An error may also be reported for a statement that took  *)
(* effect (the connection is lost before the acknowledgement), so a        *)
(* failing write has the choice.                                           *)
(***************************************************************************)
EXTENDS StateStore

CONSTANTS Shapes,        \* the requests clients send
          MaxInFlight,   \* bound on the requests served at the same time
          FaultsHappen,  \* Store calls may fail
          ApiMayCrash    \* the API process may die

ASSUME HandlerAssumption ==
    /\ FaultsHappen \in BOOLEAN
    /\ ApiMayCrash \in BOOLEAN
    /\ MaxInFlight \in Nat \ {0}

(* body: "whole" is read to its end, "malformed" is refused before any     *)
(* Store call (unparsable JSON array, bad Content-Encoding), "cut" is an   *)
(* NDJSON body whose scanner fails after the last item (connection lost,   *)
(* truncated gzip stream, line above 10 MB).                               *)
Shape == [tenant : Tenants, kind : {"json", "bulk"},
          items : Seq(Item), body : {"whole", "malformed", "cut"}]

ASSUME ShapesAssumption ==
    \A s \in Shapes :
        /\ s \in Shape
        /\ \A i \in DOMAIN s.items : WellFormedItem(s.items[i])
        /\ s.kind = "json" => s.body # "cut"

VARIABLES pc,    \* where the handler of a request is
          req,   \* the request itself
          cur,   \* index of the loop the handler is in
          out,   \* out.Products
          sum,   \* out.Summary
          rec,   \* the RunRecord built for InsertRun
          resp   \* the answer the client got

handlerVars == <<pc, req, cur, out, sum, rec, resp>>

PCs == {"idle", "item", "upsert", "persist", "insert_run", "insert_rows", "done"}

(* "lost": the process died before it answered. *)
Answers == {"none", "ok", "bad_request", "error", "lost"}

NoShape == [tenant |-> NoTenant, kind |-> "json", items |-> <<>>, body |-> "whole"]

HandlerTypeOK ==
    /\ pc \in [Requests -> PCs]
    /\ req \in [Requests -> Shapes \cup {NoShape}]
    /\ cur \in [Requests -> Nat \ {0}]
    /\ out \in [Requests -> Seq(Row)]
    /\ sum \in [Requests -> Summary]
    /\ rec \in [Requests -> RunRecord]
    /\ resp \in [Requests -> Answers]

HandlerInit ==
    /\ pc = [r \in Requests |-> "idle"]
    /\ req = [r \in Requests |-> NoShape]
    /\ cur = [r \in Requests |-> 1]
    /\ out = [r \in Requests |-> <<>>]
    /\ sum = [r \in Requests |-> EmptySummary(0)]
    /\ rec = [r \in Requests |-> NoRun]
    /\ resp = [r \in Requests |-> "none"]

InFlight == {r \in Requests : pc[r] \notin {"idle", "done"}}

Goto(r, label) == pc' = [pc EXCEPT ![r] = label]

(* The handler returns: its loop index and the record it built are gone,   *)
(* its results are kept for the properties.                                *)
Answer(r, answer) ==
    /\ Goto(r, "done")
    /\ resp' = [resp EXCEPT ![r] = answer]
    /\ cur' = [cur EXCEPT ![r] = 1]
    /\ rec' = [rec EXCEPT ![r] = NoRun]
-----------------------------------------------------------------------------
(* The handler is called: it draws a run id, reads the body (json) or sets *)
(* the scanner up (bulk).  A malformed request is answered at once, and so *)
(* is one for which NewRunID has no randomness.                            *)
Accept(r, shape) ==
    /\ pc[r] = "idle"
    /\ Cardinality(InFlight) < MaxInFlight
    /\ req' = [req EXCEPT ![r] = shape]
    /\ sum' = [sum EXCEPT ![r] =
                  EmptySummary(IF shape.kind = "json" THEN Len(shape.items) ELSE 0)]
    /\ \/ /\ shape.body = "malformed"
          /\ Answer(r, "bad_request")
       \/ /\ FaultsHappen
          /\ Answer(r, "error")
       \/ /\ shape.body # "malformed"
          /\ Goto(r, "item")
          /\ UNCHANGED <<cur, rec, resp>>
    /\ UNCHANGED <<out, storeVars>>

(* The lookup ProcessProduct calls, after validation only. *)
PreviousHash(t, item) == IF item.valid THEN GetProductHash(t, item.key) ELSE NoHash

(* The summary after one more result; the bulk handler counts the products *)
(* it receives as it reads them.                                           *)
AddToSummary(s, row, bulk) ==
    CountResult([s EXCEPT !.received = Bump(@, bulk)], row)

(* ProcessProduct for the item at cur.  The bulk handler goes on to        *)
(* persist a valid line, the json handler to the next product.             *)
ProcessItem(r) ==
    /\ pc[r] = "item"
    /\ cur[r] <= Len(req[r].items)
    /\ LET item == req[r].items[cur[r]]
           row == ProcessProduct(item, PreviousHash(req[r].tenant, item))
           bulk == req[r].kind = "bulk"
       IN  /\ out' = [out EXCEPT ![r] = Append(@, row)]
           /\ sum' = [sum EXCEPT ![r] = AddToSummary(@, row, bulk)]
           /\ \/ /\ bulk /\ item.valid
                 /\ Goto(r, "upsert")
                 /\ UNCHANGED cur
              \/ /\ ~(bulk /\ item.valid)
                 /\ cur' = [cur EXCEPT ![r] = @ + 1]
                 /\ UNCHANGED pc
    /\ UNCHANGED <<req, rec, resp, storeVars>>

(* The lookup of the previous hash fails: processing_failed. *)
LookupFails(r) ==
    /\ FaultsHappen
    /\ pc[r] = "item"
    /\ cur[r] <= Len(req[r].items)
    /\ req[r].items[cur[r]].valid
    /\ Answer(r, "error")
    /\ UNCHANGED <<req, out, sum, storeVars>>

(* Mutant: the hash of a changed line is not written. *)
UpsertLine_OnlyUnchanged(r) ==
    /\ pc[r] = "upsert"
    /\ IF out[r][cur[r]].disp = "unchanged"
       THEN UpsertProductHash(req[r].tenant, out[r][cur[r]].key, out[r][cur[r]].hash)
       ELSE UNCHANGED productHash
    /\ cur' = [cur EXCEPT ![r] = @ + 1]
    /\ Goto(r, "item")
    /\ UNCHANGED <<req, out, sum, rec, resp, runs, runProducts>>

(* bulk: the hash of the line just processed is written. *)
UpsertLine(r) ==
    /\ pc[r] = "upsert"
    /\ UpsertProductHash(req[r].tenant, out[r][cur[r]].key, out[r][cur[r]].hash)
    /\ cur' = [cur EXCEPT ![r] = @ + 1]
    /\ Goto(r, "item")
    /\ UNCHANGED <<req, out, sum, rec, resp, runs, runProducts>>

(* bulk: the scanner stopped on an error, read_failed. *)
ScanFails(r) ==
    /\ pc[r] = "item"
    /\ cur[r] > Len(req[r].items)
    /\ req[r].body = "cut"
    /\ Answer(r, "bad_request")
    /\ UNCHANGED <<req, out, sum, storeVars>>

(* json: all products are classified, the persist loop begins. *)
BeginPersist(r) ==
    /\ pc[r] = "item"
    /\ req[r].kind = "json"
    /\ cur[r] > Len(req[r].items)
    /\ Goto(r, "persist")
    /\ cur' = [cur EXCEPT ![r] = 1]
    /\ UNCHANGED <<req, out, sum, rec, resp, storeVars>>

(* Mutant: a rejected result is passed over without advancing the loop. *)
PersistRow_StopsAtRejected(r) ==
    /\ pc[r] = "persist"
    /\ cur[r] <= Len(out[r])
    /\ out[r][cur[r]].hash # NoHash
    /\ UpsertProductHash(req[r].tenant, out[r][cur[r]].key, out[r][cur[r]].hash)
    /\ cur' = [cur EXCEPT ![r] = @ + 1]
    /\ UNCHANGED <<pc, req, out, sum, rec, resp, runs, runProducts>>

(* json: the next result's hash is written; a rejected one has none.       *)
(* Unchanged products are written too.                                     *)
PersistRow(r) ==
    /\ pc[r] = "persist"
    /\ cur[r] <= Len(out[r])
    /\ LET row == out[r][cur[r]]
       IN  IF row.hash = NoHash
           THEN UNCHANGED productHash
           ELSE UpsertProductHash(req[r].tenant, row.key, row.hash)
    /\ cur' = [cur EXCEPT ![r] = @ + 1]
    /\ UNCHANGED <<pc, req, out, sum, rec, resp, runs, runProducts>>

(* UpsertProductHash reports an error: persist_product_state_failed.  The  *)
(* hashes already written stay.                                            *)
UpsertFails(r) ==
    /\ FaultsHappen
    /\ pc[r] \in {"upsert", "persist"}
    /\ cur[r] <= Len(out[r])
    /\ LET row == out[r][cur[r]]
       IN  /\ row.hash # NoHash
           /\ \/ UpsertProductHash(req[r].tenant, row.key, row.hash)
              \/ UNCHANGED productHash
    /\ Answer(r, "error")
    /\ UNCHANGED <<req, out, sum, runs, runProducts>>

(* Mutant: PushTriggered is left out of the record. *)
NewRunRecord_NoPush(t, s, now) ==
    [tenant |-> t, status |-> RunStatus(s), push |-> FALSE, sum |-> s, created |-> now]

(* The RunRecord is built and stamped, after the last hash is written. *)
NewRunRecord(t, s, now) ==
    [tenant |-> t, status |-> RunStatus(s), push |-> PushTriggered(s),
     sum |-> s, created |-> now]

BuildRun(r) ==
    /\ \/ pc[r] = "persist" /\ cur[r] > Len(out[r])
       \/ /\ pc[r] = "item" /\ cur[r] > Len(req[r].items)
          /\ req[r].kind = "bulk" /\ req[r].body = "whole"
    /\ rec' = [rec EXCEPT ![r] = NewRunRecord(req[r].tenant, sum[r], clock)]
    /\ Goto(r, "insert_run")
    /\ UNCHANGED <<req, cur, out, sum, resp, storeVars>>

(* From here on the run is visible to the worker. *)
InsertRun(r) ==
    /\ pc[r] = "insert_run"
    /\ TenantExists(req[r].tenant)
    /\ InsertRunRow(r, rec[r])
    /\ cur' = [cur EXCEPT ![r] = 1]
    /\ Goto(r, "insert_rows")
    /\ UNCHANGED <<req, out, sum, rec, resp, productHash, runProducts>>

(* persist_run_failed: the tenant has no row, or the call fails. *)
InsertRunFails(r) ==
    /\ pc[r] = "insert_run"
    /\ \/ /\ ~TenantExists(req[r].tenant) \/ FaultsHappen
          /\ UNCHANGED runs
       \/ /\ TenantExists(req[r].tenant) /\ FaultsHappen
          /\ InsertRunRow(r, rec[r])
    /\ Answer(r, "error")
    /\ UNCHANGED <<req, out, sum, productHash, runProducts>>

(* InsertRunProducts, one row per statement. *)
InsertRow(r) ==
    /\ pc[r] = "insert_rows"
    /\ cur[r] <= Len(out[r])
    /\ ~DuplicateRow(r, out[r][cur[r]])
    /\ InsertProductRow(r, out[r][cur[r]])
    /\ cur' = [cur EXCEPT ![r] = @ + 1]
    /\ UNCHANGED <<pc, req, out, sum, rec, resp, productHash, runs>>

(* Mutant: the failure is put on the client. *)
InsertRowFails_BadRequest(r) ==
    /\ pc[r] = "insert_rows"
    /\ cur[r] <= Len(out[r])
    /\ DuplicateRow(r, out[r][cur[r]]) \/ FaultsHappen
    /\ Answer(r, "bad_request")
    /\ UNCHANGED <<req, out, sum, storeVars>>

(* persist_run_products_failed: the body has a key twice, or the call      *)
(* fails.  The run and the rows already inserted stay.                     *)
InsertRowFails(r) ==
    /\ pc[r] = "insert_rows"
    /\ cur[r] <= Len(out[r])
    /\ LET duplicate == DuplicateRow(r, out[r][cur[r]])
       IN  \/ /\ duplicate \/ FaultsHappen
              /\ UNCHANGED runProducts
           \/ /\ ~duplicate /\ FaultsHappen
              /\ InsertProductRow(r, out[r][cur[r]])
    /\ Answer(r, "error")
    /\ UNCHANGED <<req, out, sum, productHash, runs>>

(* Mutant: the answer does not wait for InsertRunProducts. *)
Respond_Early(r) ==
    /\ pc[r] = "insert_rows"
    /\ Answer(r, "ok")
    /\ UNCHANGED <<req, out, sum, storeVars>>

(* "Always encode response last so we only return success if persistence   *)
(* succeeded".                                                             *)
Respond(r) ==
    /\ pc[r] = "insert_rows"
    /\ cur[r] > Len(out[r])
    /\ Answer(r, "ok")
    /\ UNCHANGED <<req, out, sum, storeVars>>

(* The API process dies: every request it was serving is lost, the tables  *)
(* stay as they are.                                                       *)
ApiCrash ==
    /\ ApiMayCrash
    /\ InFlight # {}
    /\ pc' = [r \in Requests |-> IF r \in InFlight THEN "done" ELSE pc[r]]
    /\ resp' = [r \in Requests |-> IF r \in InFlight THEN "lost" ELSE resp[r]]
    /\ cur' = [r \in Requests |-> 1]
    /\ rec' = [r \in Requests |-> NoRun]
    /\ UNCHANGED <<req, out, sum, storeVars>>

(* What the goroutine serving r does when nothing goes wrong. *)
HandlerStep(r) ==
    \/ ProcessItem(r) \/ UpsertLine(r) \/ ScanFails(r)
    \/ BeginPersist(r) \/ PersistRow(r)
    \/ BuildRun(r) \/ InsertRun(r) \/ InsertRow(r) \/ Respond(r)

(* Its error paths; a duplicate key and an unknown tenant need no fault. *)
HandlerFailure(r) ==
    LookupFails(r) \/ UpsertFails(r) \/ InsertRunFails(r) \/ InsertRowFails(r)
=============================================================================
