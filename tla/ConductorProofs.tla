-------------------------- MODULE ConductorProofs --------------------------
(***************************************************************************)
(* Proofs about Conductor, for any sets of requests, workers, tenants,     *)
(* keys and hashes and any request bodies.                                 *)
(***************************************************************************)
EXTENDS Conductor, TLAPS

(* Where a handler's loop index stands while it builds its results, and    *)
(* that the line being persisted is a valid one.                           *)
CursorInv ==
    \A r \in Requests :
        /\ pc[r] = "idle" => req[r] = NoShape /\ out[r] = <<>>
        /\ pc[r] # "idle" => req[r] \in Shapes
        /\ pc[r] \in {"idle", "item"} => cur[r] = Len(out[r]) + 1
        /\ pc[r] = "upsert" =>
              /\ cur[r] = Len(out[r])
              /\ out[r][cur[r]].key \in Keys
              /\ out[r][cur[r]].hash \in Hashes

(* A worker has a run in hand exactly while it executes it. *)
JobInv ==
    \A w \in Workers :
        job[w] # NoJob <=> wpc[w] \in {"list", "execute", "complete", "fail"}

TypeInv == TypeOK /\ CursorInv /\ JobInv

(* The handler of a run that is not stored yet. *)
Unborn(r) == pc[r] \in {"idle", "item", "upsert", "persist", "insert_run"}

(* A run is inserted once, with a status an ingestion run can have. *)
BirthInv ==
    \A r \in Requests :
        /\ Unborn(r) => runs[r].status = "absent"
        /\ pc[r] = "insert_run" =>
              rec[r].status \in {"has_changes", "no_change_detected", "completed"}

(* Inside the claim's transaction the selected runs still match its WHERE  *)
(* clause, because their rows are locked; afterwards they are marked.      *)
ClaimInv ==
    \A w \in Workers :
        /\ wpc[w] \in {"idle", "stopped"} => claims[w] = {}
        /\ wpc[w] = "claiming" => /\ claims[w] \subseteq Claimable
                                  /\ Cardinality(claims[w]) <= MaxPerClaim
        /\ wpc[w] # "claiming" => \A r \in claims[w] : runs[r].status = "processing"
        /\ job[w] # NoJob => runs[job[w]].status = "processing"

(* No run is selected, claimed or executed by two workers. *)
DisjointInv ==
    /\ \A v, w \in Workers : v # w =>
          claims[v] \cap claims[w] = {} /\ (job[v] = job[w] => job[v] = NoJob)
    /\ \A v, w \in Workers : job[v] \notin claims[w]

(* How often a run was pushed, by where it is. *)
PushInv ==
    /\ \A r \in Requests :
          /\ pushes[r] \in {0, 1}
          /\ runs[r].status \in {"absent", "has_changes"} => pushes[r] = 0
    /\ \A w \in Workers :
          /\ \A r \in claims[w] : pushes[r] = 0
          /\ wpc[w] \in {"list", "execute"} => pushes[job[w]] = 0
          /\ wpc[w] = "complete" => pushes[job[w]] = 1

OwnerInv == BirthInv /\ ClaimInv /\ DisjointInv /\ PushInv
-----------------------------------------------------------------------------
(* A body item is a key, a hash and a verdict, and has a key when valid.   *)
LEMMA ItemFacts ==
    ASSUME NEW s \in Shapes, NEW i \in Nat \ {0}, i <= Len(s.items)
    PROVE  /\ s.tenant \in Tenants
           /\ s.items[i] \in Item
           /\ s.items[i].valid => s.items[i].key \in Keys
<1>1. /\ s \in Shape
      /\ \A j \in DOMAIN s.items : WellFormedItem(s.items[j])
  BY ShapesAssumption
<1>2. s.items \in Seq(Item) /\ s.tenant \in Tenants
  BY <1>1 DEF Shape
<1>3. i \in DOMAIN s.items /\ s.items[i] \in Item
  BY <1>2
<1> QED
  BY <1>1, <1>2, <1>3 DEF WellFormedItem, Item

(* ProcessProduct yields a row with the item's key; a valid item keeps its *)
(* hash.                                                                   *)
LEMMA ProcessProductType ==
    ASSUME NEW item \in Item, NEW h \in Hashes \cup {NoHash}
    PROVE  /\ ProcessProduct(item, h) \in Row
           /\ ProcessProduct(item, h).key = item.key
           /\ item.valid => ProcessProduct(item, h).hash = item.hash
  BY DEF ProcessProduct, ComputeDisposition, Item, Row, Dispositions

LEMMA SummaryType ==
    ASSUME NEW s \in Summary, NEW row \in Row, NEW b \in BOOLEAN
    PROVE  AddToSummary(s, row, b) \in Summary
<1>1. \A n \in Nat, c \in BOOLEAN : Bump(n, c) \in Nat
  BY DEF Bump
<1>2. [s EXCEPT !.received = Bump(@, b)] \in Summary
  BY <1>1 DEF Summary
<1>3. \A u \in Summary : CountResult(u, row) \in Summary
  BY <1>1 DEF CountResult, Summary
<1> QED
  BY <1>2, <1>3 DEF AddToSummary

LEMMA RunRecordType ==
    ASSUME NEW t \in Tenants \cup {NoTenant}, NEW s \in Summary, NEW now \in Nat
    PROVE  NewRunRecord(t, s, now) \in RunRecord /\ NoRun \in RunRecord
  BY DEF NewRunRecord, RunRecord, RunStatus, RunStatuses, PushTriggered, NoRun,
         EmptySummary, Summary

LEMMA WithStatusType ==
    ASSUME NEW rs \in [Requests -> RunRecord], NEW S, NEW s \in RunStatuses
    PROVE  WithStatus(rs, S, s) \in [Requests -> RunRecord]
  BY DEF WithStatus, RunRecord

LEMMA UpsertType ==
    ASSUME StoreTypeOK, NEW t, NEW k, NEW h \in Hashes \cup {NoHash},
           UpsertProductHash(t, k, h)
    PROVE  productHash' \in [Tenants -> [Keys -> Hashes \cup {NoHash}]]
  BY DEF StoreTypeOK, UpsertProductHash

LEMMA InsertRowType ==
    ASSUME StoreTypeOK, NEW r \in Requests, NEW row \in Row, InsertProductRow(r, row)
    PROVE  runProducts' \in [Requests -> Seq(Row)]
<1>1. Append(runProducts[r], row) \in Seq(Row)
  BY DEF StoreTypeOK
<1> QED
  BY <1>1 DEF StoreTypeOK, InsertProductRow
-----------------------------------------------------------------------------
LEMMA InitTypeInv == Init => TypeInv
<1> SUFFICES ASSUME Init PROVE TypeInv
  OBVIOUS
<1> USE DEF Init, StoreInit, HandlerInit, WorkerInit
<1>1. StoreTypeOK
  BY DEF StoreTypeOK, NoRun, RunRecord, RunStatuses, EmptySummary, Summary
<1>2. HandlerTypeOK
  BY DEF HandlerTypeOK, NoRun, RunRecord, RunStatuses, EmptySummary, Summary, PCs, Answers
<1>3. WorkerTypeOK
  BY DEF WorkerTypeOK, WPCs
<1>4. CursorInv
  BY DEF CursorInv
<1>5. JobInv
  BY DEF JobInv
<1> QED
  BY <1>1, <1>2, <1>3, <1>4, <1>5 DEF TypeInv, TypeOK
-----------------------------------------------------------------------------
(* Every step of the API service keeps the types.  A request is only read  *)
(* while it is in flight, and then it is one of Shapes.                    *)
LEMMA ApiTypeStep ==
    ASSUME TypeInv, ApiNext
    PROVE  TypeInv'
<1> DEFINE Goal == StoreTypeOK' /\ HandlerTypeOK' /\ CursorInv'
<1> USE DEF Goal
<1>0. /\ StoreTypeOK /\ HandlerTypeOK /\ WorkerTypeOK /\ CursorInv /\ JobInv
      /\ UNCHANGED <<workerVars, clock>>
  BY DEF TypeInv, TypeOK, ApiNext
<1>t. \A r \in Requests : r \in Requests /\ pc[r] # "idle" => req[r].tenant \in Tenants
  BY <1>0, ShapesAssumption DEF CursorInv, Shape
<1>n. NoRun \in RunRecord
  BY DEF NoRun, RunRecord, RunStatuses, EmptySummary, Summary
<1>a. ASSUME NEW r \in Requests, NEW answer \in Answers, Answer(r, answer),
             req' \in [Requests -> Shapes \cup {NoShape}], req'[r] \in Shapes,
             \A q \in Requests \ {r} : req'[q] = req[q],
             sum' \in [Requests -> Summary], out' = out
      PROVE  HandlerTypeOK' /\ CursorInv'
  <2>1. /\ pc' = [pc EXCEPT ![r] = "done"]
        /\ resp' = [resp EXCEPT ![r] = answer]
        /\ cur' = [cur EXCEPT ![r] = 1]
        /\ rec' = [rec EXCEPT ![r] = NoRun]
    BY <1>a DEF Answer, Goto
  <2>2. HandlerTypeOK'
    BY <1>0, <1>n, <1>a, <2>1 DEF HandlerTypeOK, PCs
  <2>3. ASSUME NEW q \in Requests \ {r}
        PROVE  pc'[q] = pc[q] /\ cur'[q] = cur[q] /\ req'[q] = req[q] /\ out'[q] = out[q]
    BY <1>0, <1>a, <2>1 DEF HandlerTypeOK
  <2>4. pc'[r] = "done" /\ req'[r] \in Shapes
    BY <1>0, <1>a, <2>1 DEF HandlerTypeOK
  <2>5. CursorInv'
    BY <1>0, <2>3, <2>4 DEF CursorInv
  <2> QED
    BY <2>2, <2>5
<1>1. ASSUME NEW r \in Requests, NEW shape \in Shapes, Accept(r, shape)
      PROVE  Goal
  <2>1. StoreTypeOK'
    BY <1>0, <1>1 DEF Accept, StoreTypeOK, storeVars
  <2>2. shape.items \in Seq(Item)
    BY ShapesAssumption DEF Shape
  <2>3. sum' \in [Requests -> Summary]
    BY <1>0, <1>1, <2>2 DEF Accept, HandlerTypeOK, EmptySummary, Summary
  <2>4. req' = [req EXCEPT ![r] = shape] /\ out' = out /\ req[r] = NoShape
    BY <1>0, <1>1 DEF Accept, CursorInv
  <2>5. CASE Answer(r, "bad_request") \/ Answer(r, "error")
    <3>1. /\ req' \in [Requests -> Shapes \cup {NoShape}]
          /\ req'[r] \in Shapes
          /\ \A q \in Requests \ {r} : req'[q] = req[q]
      BY <1>0, <2>4 DEF HandlerTypeOK
    <3> QED
      BY <1>a, <2>1, <2>3, <2>4, <2>5, <3>1 DEF Answers
  <2>6. CASE Goto(r, "item") /\ UNCHANGED <<cur, rec, resp>>
    <3>1. pc' = [pc EXCEPT ![r] = "item"] /\ pc[r] = "idle"
      BY <1>1, <2>6 DEF Goto, Accept
    <3>2. HandlerTypeOK'
      BY <1>0, <2>3, <2>4, <2>6, <3>1 DEF HandlerTypeOK, PCs
    <3>3. CursorInv'
      BY <1>0, <2>4, <2>6, <3>1 DEF CursorInv, HandlerTypeOK
    <3> QED
      BY <2>1, <3>2, <3>3
  <2> QED
    BY <1>1, <2>5, <2>6 DEF Accept
<1>2. ASSUME NEW r \in Requests, ProcessItem(r)
      PROVE  Goal
  <2> DEFINE item == req[r].items[cur[r]]
             row == ProcessProduct(item, PreviousHash(req[r].tenant, item))
             bulk == req[r].kind = "bulk"
  <2>1. req[r] \in Shapes /\ cur[r] \in Nat \ {0} /\ cur[r] <= Len(req[r].items)
    BY <1>0, <1>2 DEF ProcessItem, CursorInv, HandlerTypeOK
  <2>2. req[r].tenant \in Tenants /\ item \in Item /\ (item.valid => item.key \in Keys)
    BY <2>1, ItemFacts
  <2>3. PreviousHash(req[r].tenant, item) \in Hashes \cup {NoHash}
    BY <1>0, <2>2 DEF PreviousHash, GetProductHash, StoreTypeOK
  <2>4. /\ row \in Row /\ row.key = item.key
        /\ item.valid => row.hash = item.hash /\ item.hash \in Hashes
    BY <2>2, <2>3, ProcessProductType DEF Item
  <2> DEFINE total == AddToSummary(sum[r], row, bulk)
  <2>5. /\ pc[r] = "item"
        /\ out' = [out EXCEPT ![r] = Append(out[r], row)]
        /\ sum' = [sum EXCEPT ![r] = total]
        /\ \/ pc' = [pc EXCEPT ![r] = "upsert"] /\ cur' = cur /\ item.valid
           \/ cur' = [cur EXCEPT ![r] = @ + 1] /\ pc' = pc
        /\ UNCHANGED <<req, rec, resp, productHash, runs, runProducts>>
    BY <1>2 DEF ProcessItem, Goto, storeVars
  <2> HIDE DEF row, bulk
  <2>6. StoreTypeOK'
    BY <1>0, <2>5 DEF StoreTypeOK
  <2>7. out' \in [Requests -> Seq(Row)] /\ sum' \in [Requests -> Summary]
    <3>1. bulk \in BOOLEAN /\ sum[r] \in Summary
      BY <1>0 DEF HandlerTypeOK, bulk
    <3>2. total \in Summary
      BY <2>4, <3>1, SummaryType
    <3> HIDE DEF total
    <3>3. Append(out[r], row) \in Seq(Row)
      BY <1>0, <2>4 DEF HandlerTypeOK
    <3> QED
      BY <1>0, <2>5, <3>2, <3>3 DEF HandlerTypeOK
  <2> HIDE DEF total
  <2>8. HandlerTypeOK'
    <3>1. pc' \in [Requests -> PCs] /\ cur' \in [Requests -> Nat \ {0}]
      <4>1. pc \in [Requests -> PCs] /\ cur \in [Requests -> Nat \ {0}]
        BY <1>0 DEF HandlerTypeOK
      <4>2. [pc EXCEPT ![r] = "upsert"] \in [Requests -> PCs]
        BY <4>1 DEF PCs
      <4>3. [cur EXCEPT ![r] = @ + 1] \in [Requests -> Nat \ {0}]
        BY <4>1
      <4> QED
        BY <2>5, <4>1, <4>2, <4>3
    <3> QED
      BY <1>0, <2>5, <2>7, <3>1 DEF HandlerTypeOK
  <2>9. cur[r] = Len(out[r]) + 1 /\ Len(out'[r]) = cur[r] /\ out'[r][cur[r]] = row
    BY <1>0, <2>4, <2>5 DEF CursorInv, HandlerTypeOK
  <2>10. \A q \in Requests \ {r} :
           pc'[q] = pc[q] /\ cur'[q] = cur[q] /\ req'[q] = req[q] /\ out'[q] = out[q]
    BY <1>0, <2>5 DEF HandlerTypeOK
  <2>11. CursorInv'
    <3>1. CASE pc' = [pc EXCEPT ![r] = "upsert"] /\ cur' = cur /\ item.valid
      BY <1>0, <2>1, <2>2, <2>4, <2>5, <2>9, <2>10, <3>1 DEF CursorInv, HandlerTypeOK
    <3>2. CASE cur' = [cur EXCEPT ![r] = @ + 1] /\ pc' = pc
      BY <1>0, <2>1, <2>5, <2>9, <2>10, <3>2 DEF CursorInv, HandlerTypeOK
    <3> QED
      BY <2>5, <3>1, <3>2
  <2> QED
    BY <2>6, <2>8, <2>11
<1>3. ASSUME NEW r \in Requests, LookupFails(r)
      PROVE  Goal
  BY <1>0, <1>3, <1>a DEF LookupFails, StoreTypeOK, storeVars, Answers, CursorInv, HandlerTypeOK
<1>4. ASSUME NEW r \in Requests, UpsertLine(r)
      PROVE  Goal
  <2>1. /\ req[r].tenant \in Tenants
        /\ out[r][cur[r]].key \in Keys /\ out[r][cur[r]].hash \in Hashes
        /\ cur[r] = Len(out[r]) /\ cur[r] \in Nat
    BY <1>0, <1>t, <1>4 DEF UpsertLine, CursorInv, HandlerTypeOK
  <2>2. StoreTypeOK'
    BY <1>0, <1>4, <2>1 DEF UpsertLine, UpsertProductHash, StoreTypeOK
  <2>3. HandlerTypeOK'
    BY <1>0, <1>4 DEF UpsertLine, Goto, HandlerTypeOK, PCs
  <2>4. CursorInv'
    BY <1>0, <1>4, <2>1 DEF UpsertLine, Goto, HandlerTypeOK, CursorInv
  <2> QED
    BY <2>2, <2>3, <2>4
<1>5. ASSUME NEW r \in Requests, ScanFails(r)
      PROVE  Goal
  BY <1>0, <1>5, <1>a DEF ScanFails, StoreTypeOK, storeVars, Answers, CursorInv, HandlerTypeOK
<1>6. ASSUME NEW r \in Requests, BeginPersist(r)
      PROVE  Goal
  BY <1>0, <1>6 DEF BeginPersist, StoreTypeOK, storeVars, CursorInv, HandlerTypeOK, Goto, PCs
<1>7. ASSUME NEW r \in Requests, PersistRow(r)
      PROVE  Goal
  <2>1. req[r].tenant \in Tenants /\ out[r][cur[r]] \in Row
    BY <1>0, <1>t, <1>7 DEF PersistRow, HandlerTypeOK
  <2>2. StoreTypeOK'
    <3>1. productHash' \in [Tenants -> [Keys -> Hashes \cup {NoHash}]]
      BY <1>0, <1>7, <2>1, UpsertType DEF PersistRow, StoreTypeOK, Row
    <3> QED
      BY <1>0, <1>7, <3>1 DEF PersistRow, StoreTypeOK
  <2>3. HandlerTypeOK'
    BY <1>0, <1>7 DEF PersistRow, HandlerTypeOK
  <2>4. CursorInv'
    BY <1>0, <1>7 DEF PersistRow, HandlerTypeOK, CursorInv
  <2> QED
    BY <2>2, <2>3, <2>4
<1>8. ASSUME NEW r \in Requests, UpsertFails(r)
      PROVE  Goal
  <2>1. req[r].tenant \in Tenants /\ out[r][cur[r]] \in Row /\ req[r] \in Shapes
    BY <1>0, <1>t, <1>8 DEF UpsertFails, HandlerTypeOK, CursorInv
  <2>2. StoreTypeOK'
    <3>1. productHash' \in [Tenants -> [Keys -> Hashes \cup {NoHash}]]
      BY <1>0, <1>8, <2>1, UpsertType DEF UpsertFails, StoreTypeOK, Row
    <3> QED
      BY <1>0, <1>8, <3>1 DEF UpsertFails, StoreTypeOK
  <2>3. Answer(r, "error") /\ UNCHANGED <<req, out, sum>>
    BY <1>8 DEF UpsertFails
  <2> QED
    BY <1>0, <1>a, <2>1, <2>2, <2>3 DEF Answers, HandlerTypeOK
<1>9. ASSUME NEW r \in Requests, BuildRun(r)
      PROVE  Goal
  <2>1. req[r].tenant \in Tenants /\ sum[r] \in Summary /\ clock \in Nat
    BY <1>0, <1>t, <1>9 DEF BuildRun, HandlerTypeOK, StoreTypeOK
  <2>2. NewRunRecord(req[r].tenant, sum[r], clock) \in RunRecord
    BY <2>1, RunRecordType
  <2>3. HandlerTypeOK'
    BY <1>0, <1>9, <2>2 DEF BuildRun, HandlerTypeOK, Goto, PCs
  <2>4. CursorInv' /\ StoreTypeOK'
    BY <1>0, <1>9 DEF BuildRun, HandlerTypeOK, CursorInv, Goto, StoreTypeOK, storeVars
  <2> QED
    BY <2>3, <2>4
<1>10. ASSUME NEW r \in Requests, InsertRun(r)
      PROVE  Goal
  BY <1>0, <1>10 DEF InsertRun, InsertRunRow, StoreTypeOK, CursorInv, HandlerTypeOK, Goto, PCs
<1>11. ASSUME NEW r \in Requests, InsertRunFails(r)
      PROVE  Goal
  <2>1. req[r] \in Shapes /\ rec[r] \in RunRecord
    BY <1>0, <1>11 DEF InsertRunFails, CursorInv, HandlerTypeOK
  <2>2. StoreTypeOK'
    BY <1>0, <1>11, <2>1 DEF InsertRunFails, InsertRunRow, StoreTypeOK
  <2>3. Answer(r, "error") /\ UNCHANGED <<req, out, sum>>
    BY <1>11 DEF InsertRunFails
  <2> QED
    BY <1>0, <1>a, <2>1, <2>2, <2>3 DEF Answers, HandlerTypeOK
<1>12. ASSUME NEW r \in Requests, InsertRow(r)
      PROVE  Goal
  <2>1. out[r][cur[r]] \in Row
    BY <1>0, <1>12 DEF InsertRow, HandlerTypeOK
  <2>2. StoreTypeOK'
    BY <1>0, <1>12, <2>1, InsertRowType DEF InsertRow, StoreTypeOK
  <2>3. HandlerTypeOK' /\ CursorInv'
    BY <1>0, <1>12 DEF InsertRow, HandlerTypeOK, CursorInv
  <2> QED
    BY <2>2, <2>3
<1>13. ASSUME NEW r \in Requests, InsertRowFails(r)
      PROVE  Goal
  <2>1. req[r] \in Shapes /\ out[r][cur[r]] \in Row
    BY <1>0, <1>13 DEF InsertRowFails, CursorInv, HandlerTypeOK
  <2>2. StoreTypeOK'
    <3>1. runProducts' \in [Requests -> Seq(Row)]
      BY <1>0, <1>13, <2>1, InsertRowType DEF InsertRowFails, StoreTypeOK
    <3> QED
      BY <1>0, <1>13, <3>1 DEF InsertRowFails, StoreTypeOK
  <2>3. Answer(r, "error") /\ UNCHANGED <<req, out, sum>>
    BY <1>13 DEF InsertRowFails
  <2> QED
    BY <1>0, <1>a, <2>1, <2>2, <2>3 DEF Answers, HandlerTypeOK
<1>14. ASSUME NEW r \in Requests, Respond(r)
      PROVE  Goal
  BY <1>0, <1>14, <1>a DEF Respond, StoreTypeOK, storeVars, Answers, CursorInv, HandlerTypeOK
<1>15. ASSUME ApiCrash
      PROVE  Goal
  <2>1. StoreTypeOK'
    BY <1>0, <1>15 DEF ApiCrash, StoreTypeOK, storeVars
  <2>2. HandlerTypeOK'
    BY <1>0, <1>n, <1>15 DEF ApiCrash, HandlerTypeOK, PCs, Answers
  <2>3. ASSUME NEW r \in Requests
        PROVE  /\ pc[r] = "idle" => pc'[r] = "idle" /\ cur'[r] = 1
               /\ pc[r] # "idle" => pc'[r] = "done"
               /\ req'[r] = req[r] /\ out'[r] = out[r]
    BY <1>0, <1>15 DEF ApiCrash, InFlight, HandlerTypeOK
  <2>4. CursorInv'
    BY <1>0, <2>3 DEF CursorInv
  <2> QED
    BY <2>1, <2>2, <2>4
<1>16. Goal
  BY <1>1, <1>2, <1>3, <1>4, <1>5, <1>6, <1>7, <1>8, <1>9, <1>10, <1>11, <1>12, <1>13,
     <1>14, <1>15 DEF ApiNext, Serve, HandlerStep, HandlerFailure
<1>17. WorkerTypeOK' /\ JobInv'
  BY <1>0 DEF WorkerTypeOK, JobInv, workerVars
<1>18. arrivals' \in Seq(Requests)
  BY DEF ApiNext, Serve, Arrive, TypeInv, TypeOK
<1> QED
  BY <1>16, <1>17, <1>18 DEF TypeInv, TypeOK
-----------------------------------------------------------------------------
LEMMA WorkerTypeStep ==
    ASSUME TypeInv, WorkerNext
    PROVE  TypeInv'
<1> DEFINE Goal == StoreTypeOK' /\ WorkerTypeOK' /\ JobInv'
<1> USE DEF Goal
<1>0. /\ StoreTypeOK /\ HandlerTypeOK /\ WorkerTypeOK /\ CursorInv /\ JobInv
      /\ UNCHANGED <<handlerVars, clock>>
  BY DEF TypeInv, TypeOK, WorkerNext
<1>1. ASSUME NEW w \in Workers, SelectRuns(w)
      PROVE  Goal
  <2>1. StoreTypeOK'
    BY <1>0, <1>1 DEF SelectRuns, StoreTypeOK, storeVars
  <2>2. \A S \in ClaimBatches : S \subseteq Requests
    BY DEF ClaimBatches, Claimable
  <2>3. claims' \in [Workers -> SUBSET Requests]
    BY <1>0, <1>1, <2>2 DEF SelectRuns, WorkerTypeOK
  <2>4. WorkerTypeOK' /\ JobInv'
    BY <1>0, <1>1, <2>3 DEF SelectRuns, WorkerTypeOK, WGoto, WPCs, JobInv
  <2> QED
    BY <2>1, <2>4
<1>2. ASSUME NEW w \in Workers, PollNothing(w)
      PROVE  Goal
  BY <1>0, <1>2 DEF PollNothing, StoreTypeOK, WorkerTypeOK, JobInv, storeVars, workerVars
<1>m. ASSUME NEW w \in Workers, MarkProcessing(w)
      PROVE  runs' \in [Requests -> RunRecord]
  BY <1>0, <1>m, WithStatusType DEF MarkProcessing, StoreTypeOK, RunStatuses
<1>3. ASSUME NEW w \in Workers, CommitClaim(w)
      PROVE  Goal
  <2>1. StoreTypeOK'
    BY <1>0, <1>3, <1>m DEF CommitClaim, StoreTypeOK
  <2>2. WorkerTypeOK' /\ JobInv'
    BY <1>0, <1>3 DEF CommitClaim, WorkerTypeOK, WGoto, WPCs, JobInv
  <2> QED
    BY <2>1, <2>2
<1>4. ASSUME NEW w \in Workers, ClaimFails(w)
      PROVE  Goal
  <2>1. StoreTypeOK'
    BY <1>0, <1>4, <1>m DEF ClaimFails, StoreTypeOK
  <2>2. WorkerTypeOK' /\ JobInv'
    BY <1>0, <1>4 DEF ClaimFails, WorkerTypeOK, WGoto, WPCs, JobInv
  <2> QED
    BY <2>1, <2>2
<1>5. ASSUME NEW w \in Workers, GetRun(w)
      PROVE  Goal
  <2>1. PICK r \in Requests :
          /\ TakeJob(w, r)
          /\ WGoto(w, "list") \/ WGoto(w, "fail")
    BY <1>5 DEF GetRun
  <2>2. StoreTypeOK'
    BY <1>0, <1>5 DEF GetRun, StoreTypeOK, storeVars
  <2>3. UNCHANGED <<loaded, pushes, channel>> /\ r # NoJob
    BY <1>5, WorkerAssumption DEF GetRun
  <2>4. WorkerTypeOK'
    BY <1>0, <2>1, <2>3 DEF TakeJob, WorkerTypeOK, WGoto, WPCs
  <2>5. JobInv'
    BY <1>0, <2>1, <2>3 DEF TakeJob, WorkerTypeOK, WGoto, JobInv
  <2> QED
    BY <2>2, <2>4, <2>5
<1>6. ASSUME NEW w \in Workers, LoadProducts(w)
      PROVE  Goal
  <2>1. job[w] \in Requests
    BY <1>0, <1>6 DEF LoadProducts, JobInv, WorkerTypeOK
  <2>2. StoredRows(job[w]) \subseteq Row
    BY <1>0, <2>1 DEF StoredRows, StoreTypeOK
  <2>3. Enqueued(ListRunProducts(job[w], ProductLimit)) \subseteq Row
    BY <2>2 DEF Enqueued, ListRunProducts
  <2>4. StoreTypeOK'
    BY <1>0, <1>6 DEF LoadProducts, StoreTypeOK, storeVars
  <2>5. WorkerTypeOK' /\ JobInv'
    BY <1>0, <1>6, <2>3 DEF LoadProducts, WorkerTypeOK, WGoto, WPCs, JobInv
  <2> QED
    BY <2>4, <2>5
<1>7. ASSUME NEW w \in Workers, OnExecute(w)
      PROVE  Goal
  <2>1. job[w] \in Requests /\ loaded[w] \subseteq Row
    BY <1>0, <1>7 DEF OnExecute, JobInv, WorkerTypeOK
  <2>2. StoreTypeOK'
    BY <1>0, <1>7 DEF OnExecute, StoreTypeOK, storeVars
  <2>3. channel' \in [Tenants -> [Keys -> Hashes \cup {NoHash}]]
    <3>1. ASSUME NEW k \in Keys, \E row \in loaded[w] : row.key = k
          PROVE  (CHOOSE row \in loaded[w] : row.key = k).hash \in Hashes \cup {NoHash}
      BY <2>1, <3>1 DEF Row
    <3>2. \A t \in Tenants, k \in Keys : channel[t][k] \in Hashes \cup {NoHash}
      BY <1>0 DEF WorkerTypeOK
    <3>3. \A t : Published(t, loaded[w]) \in [Tenants -> [Keys -> Hashes \cup {NoHash}]]
      BY <1>0, <3>1, <3>2 DEF Published, WorkerTypeOK
    <3> QED
      BY <1>0, <1>7, <3>3 DEF OnExecute, WorkerTypeOK
  <2>4. pushes' \in [Requests -> Nat]
    BY <1>0, <1>7, <2>1 DEF OnExecute, WorkerTypeOK
  <2>5. WorkerTypeOK' /\ JobInv'
    BY <1>0, <1>7, <2>3, <2>4 DEF OnExecute, WorkerTypeOK, WGoto, WPCs, JobInv
  <2> QED
    BY <2>2, <2>5
<1>8. ASSUME NEW w \in Workers, RecordOutcome(w) \/ OutcomeDropped(w)
      PROVE  Goal
  <2>1. runs' \in [Requests -> RunRecord] /\ EndJob(w)
    BY <1>0, <1>8, WithStatusType
       DEF RecordOutcome, OutcomeDropped, CompleteRun, FailRun, StoreTypeOK, RunStatuses
  <2>2. StoreTypeOK'
    BY <1>0, <2>1 DEF EndJob, StoreTypeOK
  <2>3. WorkerTypeOK' /\ JobInv'
    BY <1>0, <2>1 DEF EndJob, WorkerTypeOK, WGoto, WPCs, JobInv
  <2> QED
    BY <2>2, <2>3
<1>9. ASSUME NEW w \in Workers, WorkerCrash(w) \/ WorkerStart(w)
      PROVE  Goal
  <2>1. StoreTypeOK'
    BY <1>0, <1>9 DEF WorkerCrash, WorkerStart, StoreTypeOK, storeVars
  <2>2. WorkerTypeOK' /\ JobInv'
    BY <1>0, <1>9 DEF WorkerCrash, WorkerStart, WorkerTypeOK, WGoto, WPCs, JobInv
  <2> QED
    BY <2>1, <2>2
<1>10. Goal
  BY <1>1, <1>2, <1>3, <1>4, <1>5, <1>6, <1>7, <1>8, <1>9 DEF WorkerNext, WorkerStep
<1>11. HandlerTypeOK' /\ CursorInv'
  BY <1>0 DEF HandlerTypeOK, CursorInv, handlerVars
<1>12. arrivals' \in Seq(Requests)
  BY DEF WorkerNext, TypeInv, TypeOK
<1> QED
  BY <1>10, <1>11, <1>12 DEF TypeInv, TypeOK

LEMMA NextTypeInv == TypeInv /\ [Next]_vars => TypeInv'
<1> SUFFICES ASSUME TypeInv, [Next]_vars PROVE TypeInv'
  OBVIOUS
<1>1. CASE ApiNext
  BY <1>1, ApiTypeStep
<1>2. CASE WorkerNext
  BY <1>2, WorkerTypeStep
<1>3. CASE Tick /\ UNCHANGED <<storeVars, handlerVars, workerVars, arrivals>>
  BY <1>3 DEF Tick, TypeInv, TypeOK, StoreTypeOK, HandlerTypeOK, WorkerTypeOK, CursorInv, JobInv,
     storeVars, handlerVars, workerVars
<1>4. CASE UNCHANGED vars
  BY <1>4 DEF TypeInv, TypeOK, StoreTypeOK, HandlerTypeOK, WorkerTypeOK, CursorInv, JobInv,
     vars, storeVars, handlerVars, workerVars
<1> QED
  BY <1>1, <1>2, <1>3, <1>4 DEF Next

(* Type correctness of the whole pipeline, for any number of requests and  *)
(* workers and with every fault and crash the model has.                   *)
THEOREM TypeCorrect == Spec => []TypeOK
<1>1. Init => TypeInv
  BY InitTypeInv
<1>2. TypeInv /\ [Next]_vars => TypeInv'
  BY NextTypeInv
<1>3. TypeInv => TypeOK
  BY DEF TypeInv
<1> QED
  BY <1>1, <1>2, <1>3, PTL DEF Spec
-----------------------------------------------------------------------------
(* The API service changes a row of runs only by inserting it. *)
LEMMA ApiRuns ==
    ASSUME TypeInv, BirthInv, ApiNext
    PROVE  /\ BirthInv'
           /\ \A r \in Requests :
                \/ runs'[r] = runs[r]
                \/ /\ runs[r].status = "absent"
                   /\ runs'[r].status \in {"has_changes", "no_change_detected", "completed"}
<1> DEFINE Born == {"has_changes", "no_change_detected", "completed"}
           Inserted(r) == runs[r].status = "absent" /\ runs'[r].status \in Born
           Goal == /\ BirthInv'
                   /\ \A r \in Requests : runs'[r] = runs[r] \/ Inserted(r)
<1>0. StoreTypeOK /\ HandlerTypeOK /\ CursorInv
  BY DEF TypeInv, TypeOK
<1>a. ASSUME NEW r \in Requests, NEW l \in {"item", "upsert", "persist", "insert_rows", "done"},
             pc' = [pc EXCEPT ![r] = l], l # "done" /\ l # "insert_rows" => Unborn(r),
             runs' = runs, \A q \in Requests \ {r} : rec'[q] = rec[q]
      PROVE  Goal
  BY <1>0, <1>a DEF BirthInv, Unborn, HandlerTypeOK
<1>1. ASSUME NEW r \in Requests, NEW shape \in Shapes, Accept(r, shape)
      PROVE  Goal
  BY <1>0, <1>1, <1>a DEF Accept, Answer, Goto, storeVars, Unborn, HandlerTypeOK
<1>2. ASSUME NEW r \in Requests, ProcessItem(r)
      PROVE  Goal
  <2>1. runs' = runs /\ rec' = rec /\ pc[r] = "item"
    BY <1>2 DEF ProcessItem, storeVars
  <2>2. pc' = [pc EXCEPT ![r] = "upsert"] \/ pc' = pc
    BY <1>2 DEF ProcessItem, Goto
  <2>3. CASE pc' = pc
    BY <2>1, <2>3 DEF BirthInv, Unborn
  <2> QED
    BY <1>a, <2>1, <2>2, <2>3 DEF Unborn
<1>3. ASSUME NEW r \in Requests, LookupFails(r) \/ UpsertFails(r) \/ ScanFails(r)
      PROVE  Goal
  <2>1. /\ runs' = runs /\ pc' = [pc EXCEPT ![r] = "done"]
        /\ rec' = [rec EXCEPT ![r] = NoRun]
    BY <1>3 DEF LookupFails, UpsertFails, ScanFails, Answer, Goto, storeVars
  <2> QED
    BY <1>0, <1>a, <2>1 DEF HandlerTypeOK
<1>4. ASSUME NEW r \in Requests, InsertRowFails(r) \/ Respond(r)
      PROVE  Goal
  <2>1. /\ runs' = runs /\ pc' = [pc EXCEPT ![r] = "done"]
        /\ rec' = [rec EXCEPT ![r] = NoRun]
    BY <1>4 DEF InsertRowFails, Respond, Answer, Goto, storeVars
  <2> QED
    BY <1>0, <1>a, <2>1 DEF HandlerTypeOK
<1>5. ASSUME NEW r \in Requests, UpsertLine(r) \/ BeginPersist(r)
      PROVE  Goal
  BY <1>a, <1>5 DEF UpsertLine, BeginPersist, Goto, storeVars, Unborn
<1>6. ASSUME NEW r \in Requests, PersistRow(r) \/ InsertRow(r)
      PROVE  Goal
  BY <1>6 DEF PersistRow, InsertRow, BirthInv, Unborn
<1>7. ASSUME NEW r \in Requests, BuildRun(r)
      PROVE  Goal
  <2>1. NewRunRecord(req[r].tenant, sum[r], clock).status \in Born
    BY DEF NewRunRecord, RunStatus
  <2> QED
    BY <1>0, <1>7, <2>1 DEF BuildRun, Goto, storeVars, BirthInv, Unborn, HandlerTypeOK
<1>8. ASSUME NEW r \in Requests, InsertRun(r)
      PROVE  Goal
  BY <1>0, <1>8 DEF InsertRun, InsertRunRow, Goto, BirthInv, Unborn, HandlerTypeOK, StoreTypeOK
<1>9. ASSUME NEW r \in Requests, InsertRunFails(r)
      PROVE  Goal
  <2>1. /\ pc[r] = "insert_run" /\ pc' = [pc EXCEPT ![r] = "done"]
        /\ rec' = [rec EXCEPT ![r] = NoRun]
        /\ runs' = runs \/ runs' = [runs EXCEPT ![r] = rec[r]]
    BY <1>9 DEF InsertRunFails, InsertRunRow, Answer, Goto
  <2> QED
    BY <1>0, <2>1 DEF BirthInv, Unborn, HandlerTypeOK, StoreTypeOK
<1>10. ASSUME ApiCrash
       PROVE  Goal
  BY <1>0, <1>10 DEF ApiCrash, InFlight, storeVars, BirthInv, Unborn, HandlerTypeOK
<1> QED
  BY <1>1, <1>2, <1>3, <1>4, <1>5, <1>6, <1>7, <1>8, <1>9, <1>10
     DEF ApiNext, Serve, HandlerStep, HandlerFailure

(* An inserted run is in nobody's hands, so a step of the API service      *)
(* leaves the workers' side alone.                                         *)
LEMMA ApiOwnerStep ==
    ASSUME TypeInv, OwnerInv, ApiNext
    PROVE  OwnerInv'
<1>0. /\ StoreTypeOK /\ WorkerTypeOK /\ JobInv
      /\ BirthInv /\ ClaimInv /\ DisjointInv /\ PushInv
      /\ UNCHANGED <<wpc, claims, job, pushes>>
  BY DEF TypeInv, TypeOK, OwnerInv, ApiNext, workerVars
<1>1. BirthInv'
  BY <1>0, ApiRuns
<1>2. \A r \in Requests :
        \/ runs'[r] = runs[r]
        \/ /\ runs[r].status = "absent"
           /\ runs'[r].status \in {"has_changes", "no_change_detected", "completed"}
  BY <1>0, ApiRuns
<1>3. ClaimInv'
  <2>1. \A r \in Requests : runs[r].status \in {"has_changes", "processing"} => runs'[r] = runs[r]
    BY <1>2
  <2>2. Claimable \subseteq Claimable'
    BY <2>1 DEF Claimable
  <2>3. \A w \in Workers : claims[w] \subseteq Requests /\ job[w] \in Requests \cup {NoJob}
    BY <1>0 DEF WorkerTypeOK
  <2> QED
    BY <1>0, <2>1, <2>2, <2>3 DEF ClaimInv
<1>4. DisjointInv'
  BY <1>0 DEF DisjointInv
<1>5. PushInv'
  BY <1>0, <1>2 DEF PushInv
<1> QED
  BY <1>1, <1>3, <1>4, <1>5 DEF OwnerInv

(* The workers' side: row locks keep two selections apart, and the mark    *)
(* 'processing' keeps a claimed run out of every later selection.          *)
LEMMA WorkerOwnerStep ==
    ASSUME TypeInv, OwnerInv, WorkerNext
    PROVE  OwnerInv'
<1> DEFINE Goal == ClaimInv' /\ DisjointInv' /\ PushInv'
           StatusKept == \A r \in Requests : runs'[r].status = "absent" <=> runs[r].status = "absent"
<1>0. /\ StoreTypeOK /\ WorkerTypeOK /\ JobInv
      /\ BirthInv /\ ClaimInv /\ DisjointInv /\ PushInv
      /\ UNCHANGED handlerVars
  BY DEF TypeInv, TypeOK, OwnerInv, WorkerNext
<1>1. ASSUME NEW w \in Workers, SelectRuns(w)
      PROVE  Goal /\ StatusKept
  <2>1. PICK S \in ClaimBatches : claims' = [claims EXCEPT ![w] = S]
    BY <1>1 DEF SelectRuns
  <2>2. /\ wpc[w] = "idle" /\ wpc' = [wpc EXCEPT ![w] = "claiming"]
        /\ UNCHANGED <<job, pushes, runs>> /\ ~RowsLocked(w)
    BY <1>1 DEF SelectRuns, WGoto, storeVars
  <2>3. S \subseteq Claimable /\ Cardinality(S) <= MaxPerClaim /\ Claimable' = Claimable
    BY <2>2 DEF ClaimBatches, Claimable
  <2>4. ClaimInv'
    BY <1>0, <2>1, <2>2, <2>3 DEF ClaimInv, WorkerTypeOK, JobInv
  <2>5. \A v \in Workers \ {w} : claims[v] \cap S = {} /\ job[v] \notin S
    <3> SUFFICES ASSUME NEW v \in Workers \ {w} PROVE claims[v] \cap S = {} /\ job[v] \notin S
      OBVIOUS
    <3>1. job[v] \notin S
      BY <1>0, <2>3, WorkerAssumption DEF ClaimInv, Claimable, WorkerTypeOK
    <3>2. CASE wpc[v] = "claiming"
      BY <2>2, <2>3, <3>1, <3>2 DEF RowsLocked
    <3>3. CASE wpc[v] # "claiming"
      BY <1>0, <2>3, <3>1, <3>3 DEF ClaimInv, Claimable
    <3> QED
      BY <3>2, <3>3
  <2>6. job[w] \notin S
    BY <1>0, <2>3, WorkerAssumption DEF ClaimInv, Claimable, WorkerTypeOK
  <2>7. DisjointInv'
    BY <1>0, <2>1, <2>2, <2>5, <2>6 DEF DisjointInv, WorkerTypeOK
  <2>8. PushInv'
    BY <1>0, <2>1, <2>2, <2>3 DEF PushInv, WorkerTypeOK, Claimable
  <2> QED
    BY <2>2, <2>4, <2>7, <2>8
<1>2. ASSUME NEW w \in Workers, PollNothing(w)
      PROVE  Goal /\ StatusKept
  BY <1>0, <1>2 DEF PollNothing, storeVars, workerVars, ClaimInv, DisjointInv, PushInv, Claimable
<1>m. ASSUME NEW w \in Workers, wpc[w] = "claiming", MarkProcessing(w)
      PROVE  /\ runs' \in [Requests -> RunRecord]
             /\ \A r \in claims[w] : runs'[r].status = "processing"
             /\ \A r \in Requests \ claims[w] : runs'[r] = runs[r]
             /\ StatusKept
             /\ \A r \in Requests : runs'[r].status = "has_changes" => runs[r].status = "has_changes"
  <2>1. \A r \in claims[w] : r \in Requests /\ runs[r].status = "has_changes"
    BY <1>0, <1>m DEF ClaimInv, Claimable, WorkerTypeOK
  <2>2. runs' = [r \in Requests |-> IF r \in claims[w]
                                    THEN [runs[r] EXCEPT !.status = "processing"]
                                    ELSE runs[r]]
    BY <1>m, <2>1 DEF MarkProcessing, WithStatus
  <2>3. \A r \in Requests : [runs[r] EXCEPT !.status = "processing"] \in RunRecord
                            /\ [runs[r] EXCEPT !.status = "processing"].status = "processing"
    BY <1>0 DEF StoreTypeOK, RunRecord, RunStatuses
  <2> QED
    BY <1>0, <2>1, <2>2, <2>3 DEF StoreTypeOK
<1>3. ASSUME NEW w \in Workers, CommitClaim(w)
      PROVE  Goal /\ StatusKept
  <2>1. /\ wpc[w] = "claiming" /\ MarkProcessing(w) /\ wpc' = [wpc EXCEPT ![w] = "next"]
        /\ UNCHANGED <<claims, job, pushes>>
    BY <1>3 DEF CommitClaim, WGoto
  <2>2. ClaimInv'
    <3>1. \A v \in Workers \ {w} : claims[v] \cap claims[w] = {} /\ job[v] \notin claims[w]
      BY <1>0 DEF DisjointInv
    <3>2. ASSUME NEW v \in Workers \ {w}, claims[v] \subseteq Claimable
          PROVE  claims[v] \subseteq Claimable'
      BY <1>m, <2>1, <3>1, <3>2 DEF Claimable
    <3>3. job[w] = NoJob
      BY <1>0, <2>1 DEF JobInv
    <3> QED
      BY <1>0, <1>m, <2>1, <3>1, <3>2, <3>3 DEF ClaimInv, WorkerTypeOK
  <2>3. DisjointInv'
    BY <1>0, <2>1 DEF DisjointInv
  <2>4. PushInv'
    BY <1>0, <1>m, <2>1 DEF PushInv, WorkerTypeOK
  <2> QED
    BY <1>m, <2>1, <2>2, <2>3, <2>4
<1>4. ASSUME NEW w \in Workers, ClaimFails(w)
      PROVE  Goal /\ StatusKept
  <2>1. /\ wpc[w] \in {"idle", "claiming"} /\ wpc' = [wpc EXCEPT ![w] = "stopped"]
        /\ claims' = [claims EXCEPT ![w] = {}] /\ UNCHANGED <<job, pushes>>
        /\ (wpc[w] = "claiming" /\ MarkProcessing(w)) \/ UNCHANGED runs
    BY <1>4 DEF ClaimFails, WGoto
  <2>2. job[w] = NoJob
    BY <1>0, <2>1 DEF JobInv
  <2>3. \A v \in Workers \ {w} : claims[v] \cap claims[w] = {} /\ job[v] \notin claims[w]
    BY <1>0 DEF DisjointInv
  <2>4. \A r \in Requests \ claims[w] : runs'[r] = runs[r]
    BY <1>m, <2>1
  <2>5. ASSUME NEW v \in Workers \ {w}, claims[v] \subseteq Claimable
        PROVE  claims[v] \subseteq Claimable'
    BY <2>3, <2>4, <2>5 DEF Claimable
  <2>6. ClaimInv'
    BY <1>0, <2>1, <2>2, <2>3, <2>4, <2>5 DEF ClaimInv, WorkerTypeOK
  <2>7. DisjointInv'
    BY <1>0, <2>1 DEF DisjointInv, WorkerTypeOK
  <2>8. StatusKept /\ \A r \in Requests : runs'[r].status = "has_changes" => runs[r].status = "has_changes"
    BY <1>m, <2>1
  <2>9. PushInv'
    BY <1>0, <2>1, <2>8 DEF PushInv, WorkerTypeOK
  <2> QED
    BY <2>6, <2>7, <2>8, <2>9
<1>5. ASSUME NEW w \in Workers, GetRun(w)
      PROVE  Goal /\ StatusKept
  <2>1. PICK r \in Requests : TakeJob(w, r) /\ (WGoto(w, "list") \/ WGoto(w, "fail"))
    BY <1>5 DEF GetRun
  <2>2. /\ wpc[w] = "next" /\ r \in claims[w]
        /\ wpc' = [wpc EXCEPT ![w] = "list"] \/ wpc' = [wpc EXCEPT ![w] = "fail"]
        /\ job' = [job EXCEPT ![w] = r]
        /\ claims' = [claims EXCEPT ![w] = claims[w] \ {r}]
        /\ UNCHANGED <<pushes, runs>> /\ r # NoJob
    BY <1>5, <2>1, WorkerAssumption DEF GetRun, TakeJob, Oldest, WGoto, storeVars
  <2>3. Claimable' = Claimable
    BY <2>2 DEF Claimable
  <2>4. ClaimInv'
    BY <1>0, <2>2, <2>3 DEF ClaimInv, WorkerTypeOK
  <2>5. DisjointInv'
    BY <1>0, <2>2 DEF DisjointInv, WorkerTypeOK
  <2>6. PushInv'
    BY <1>0, <2>2 DEF PushInv, WorkerTypeOK
  <2> QED
    BY <2>2, <2>4, <2>5, <2>6
<1>6. ASSUME NEW w \in Workers, LoadProducts(w)
      PROVE  Goal /\ StatusKept
  <2>1. /\ wpc[w] = "list"
        /\ wpc' = [wpc EXCEPT ![w] = "execute"] \/ wpc' = [wpc EXCEPT ![w] = "fail"]
        /\ UNCHANGED <<claims, job, pushes, runs>>
    BY <1>6 DEF LoadProducts, WGoto, storeVars
  <2>2. Claimable' = Claimable
    BY <2>1 DEF Claimable
  <2> QED
    BY <1>0, <2>1, <2>2 DEF ClaimInv, DisjointInv, PushInv, WorkerTypeOK
<1>7. ASSUME NEW w \in Workers, OnExecute(w)
      PROVE  Goal /\ StatusKept
  <2>1. /\ wpc[w] = "execute"
        /\ wpc' = [wpc EXCEPT ![w] = "complete"] \/ wpc' = [wpc EXCEPT ![w] = "fail"]
        /\ pushes' = [pushes EXCEPT ![job[w]] = @ + 1]
        /\ UNCHANGED <<claims, job, runs>>
    BY <1>7 DEF OnExecute, WGoto, storeVars
  <2>2. Claimable' = Claimable /\ job[w] \in Requests /\ pushes[job[w]] = 0
    BY <1>0, <2>1 DEF Claimable, JobInv, PushInv, WorkerTypeOK
  <2>3. ClaimInv' /\ DisjointInv'
    BY <1>0, <2>1, <2>2 DEF ClaimInv, DisjointInv, WorkerTypeOK
  <2>4. PushInv'
    <3>1. runs[job[w]].status = "processing"
      BY <1>0, <2>1, <2>2, WorkerAssumption DEF ClaimInv
    <3>2. \A v \in Workers : job[w] \notin claims[v] /\ (v # w => job[v] # job[w])
      BY <1>0, <2>2, WorkerAssumption DEF DisjointInv
    <3>3. pushes'[job[w]] = 1 /\ \A r \in Requests \ {job[w]} : pushes'[r] = pushes[r]
      BY <1>0, <2>1, <2>2 DEF WorkerTypeOK
    <3>4. \A v \in Workers : wpc[v] \in {"list", "execute", "complete"} => job[v] \in Requests
      BY <1>0 DEF JobInv, WorkerTypeOK
    <3> QED
      BY <1>0, <2>1, <2>2, <3>1, <3>2, <3>3, <3>4 DEF PushInv, WorkerTypeOK
  <2> QED
    BY <2>1, <2>3, <2>4
<1>8. ASSUME NEW w \in Workers, RecordOutcome(w) \/ OutcomeDropped(w)
      PROVE  Goal /\ StatusKept
  <2>1. /\ wpc[w] \in {"complete", "fail"}
        /\ wpc' = [wpc EXCEPT ![w] = IF claims[w] = {} THEN "idle" ELSE "next"]
        /\ job' = [job EXCEPT ![w] = NoJob]
        /\ UNCHANGED <<claims, pushes>>
        /\ \/ runs' = WithStatus(runs, {job[w]}, "completed")
           \/ runs' = WithStatus(runs, {job[w]}, "failed")
           \/ runs' = runs
    BY <1>8 DEF RecordOutcome, OutcomeDropped, EndJob, CompleteRun, FailRun, WGoto
  <2>2. job[w] \in Requests /\ runs[job[w]].status = "processing"
    BY <1>0, <2>1 DEF JobInv, ClaimInv, WorkerTypeOK
  <2>3. /\ \A r \in Requests \ {job[w]} : runs'[r] = runs[r]
        /\ runs'[job[w]].status \in {"processing", "completed", "failed"}
    <3>1. \A st \in {"completed", "failed"} : [runs[job[w]] EXCEPT !.status = st].status = st
      BY <1>0, <2>2 DEF StoreTypeOK, RunRecord
    <3> QED
      BY <2>1, <2>2, <3>1 DEF WithStatus
  <2>4. \A v \in Workers : job[w] \notin claims[v] /\ (v # w => job[v] # job[w])
    BY <1>0, <2>2, WorkerAssumption DEF DisjointInv
  <2>5. Claimable \subseteq Claimable'
    BY <2>2, <2>3 DEF Claimable
  <2>6. ClaimInv'
    BY <1>0, <2>1, <2>2, <2>3, <2>4, <2>5 DEF ClaimInv, WorkerTypeOK
  <2>7. DisjointInv'
    BY <1>0, <2>1, WorkerAssumption DEF DisjointInv, WorkerTypeOK
  <2>8. PushInv'
    BY <1>0, <2>1, <2>2, <2>3 DEF PushInv, WorkerTypeOK
  <2> QED
    BY <2>2, <2>3, <2>6, <2>7, <2>8
<1>9. ASSUME NEW w \in Workers, WorkerCrash(w) \/ WorkerStart(w)
      PROVE  Goal /\ StatusKept
  <2>1. /\ \/ /\ wpc' = [wpc EXCEPT ![w] = "stopped"]
              /\ claims' = [claims EXCEPT ![w] = {}] /\ job' = [job EXCEPT ![w] = NoJob]
           \/ /\ wpc[w] = "stopped" /\ wpc' = [wpc EXCEPT ![w] = "idle"]
              /\ UNCHANGED <<claims, job>>
        /\ UNCHANGED <<pushes, runs>>
    BY <1>9 DEF WorkerCrash, WorkerStart, WGoto, storeVars
  <2>2. Claimable' = Claimable
    BY <2>1 DEF Claimable
  <2>3. ClaimInv'
    BY <1>0, <2>1, <2>2 DEF ClaimInv, WorkerTypeOK
  <2>4. DisjointInv'
    BY <1>0, <2>1, WorkerAssumption DEF DisjointInv, WorkerTypeOK
  <2>5. PushInv'
    BY <1>0, <2>1 DEF PushInv, WorkerTypeOK
  <2> QED
    BY <2>1, <2>3, <2>4, <2>5
<1>10. Goal /\ StatusKept
  BY <1>1, <1>2, <1>3, <1>4, <1>5, <1>6, <1>7, <1>8, <1>9 DEF WorkerNext, WorkerStep
<1>11. BirthInv'
  BY <1>0, <1>10 DEF BirthInv, Unborn, handlerVars
<1> QED
  BY <1>10, <1>11 DEF OwnerInv

LEMMA NextOwnerInv == TypeInv /\ OwnerInv /\ [Next]_vars => OwnerInv'
<1> SUFFICES ASSUME TypeInv, OwnerInv, [Next]_vars PROVE OwnerInv'
  OBVIOUS
<1>1. CASE ApiNext
  BY <1>1, ApiOwnerStep
<1>2. CASE WorkerNext
  BY <1>2, WorkerOwnerStep
<1>3. CASE UNCHANGED <<storeVars, handlerVars, workerVars>>
  BY <1>3 DEF OwnerInv, BirthInv, Unborn, ClaimInv, Claimable, DisjointInv, PushInv,
     storeVars, handlerVars, workerVars
<1> QED
  BY <1>1, <1>2, <1>3 DEF Next, vars

LEMMA InitOwnerInv == Init => OwnerInv
<1> SUFFICES ASSUME Init PROVE OwnerInv
  OBVIOUS
<1> USE DEF Init, StoreInit, HandlerInit, WorkerInit
<1>1. BirthInv
  BY DEF BirthInv, NoRun
<1>2. ClaimInv
  BY DEF ClaimInv
<1>3. DisjointInv
  BY DEF DisjointInv
<1>4. PushInv
  BY DEF PushInv
<1> QED
  BY <1>1, <1>2, <1>3, <1>4 DEF OwnerInv

LEMMA OwnerInvHolds == Spec => [](TypeInv /\ OwnerInv)
<1>1. Init => TypeInv /\ OwnerInv
  BY InitTypeInv, InitOwnerInv
<1>2. TypeInv /\ OwnerInv /\ [Next]_vars => (TypeInv /\ OwnerInv)'
  BY NextTypeInv, NextOwnerInv
<1> QED
  BY <1>1, <1>2, PTL DEF Spec

(* No two workers ever hold the same run, for any number of workers, with  *)
(* crashes at any point and commits whose outcome is unknown.              *)
THEOREM SingleOwnership == Spec => []SingleOwner
<1>1. TypeInv /\ OwnerInv => SingleOwner
  <2> SUFFICES ASSUME TypeInv, OwnerInv PROVE SingleOwner
    OBVIOUS
  <2>1. \A v, w \in Workers : v # w =>
          /\ Held(v) \cap Held(w) = {}
          /\ wpc[v] = "claiming" => claims[v] \cap (claims[w] \cup Held(w)) = {}
    BY DEF OwnerInv, DisjointInv, Held
  <2>2. \A w \in Workers : \A r \in Held(w) : runs[r].status = "processing"
    BY DEF OwnerInv, ClaimInv, Held
  <2> QED
    BY <2>1, <2>2 DEF SingleOwner
<1> QED
  BY <1>1, OwnerInvHolds, PTL

(* OnExecute is called at most once per run: a claimed run never becomes   *)
(* claimable again, so neither a crash nor a dropped outcome repeats it.   *)
THEOREM PushedAtMostOnce == Spec => []AtMostOnce
<1>1. TypeInv /\ OwnerInv => AtMostOnce
  BY DEF OwnerInv, PushInv, AtMostOnce
<1> QED
  BY <1>1, OwnerInvHolds, PTL
-----------------------------------------------------------------------------
(* The tables implement the atomic queue. *)
LEMMA ApiInserts ==
    ASSUME ApiNext
    PROVE  \/ runs' = runs
           \/ \E r \in Requests : pc[r] = "insert_run" /\ runs' = [runs EXCEPT ![r] = rec[r]]
<1>1. ASSUME NEW r \in Requests, InsertRun(r) \/ InsertRunFails(r)
      PROVE  runs' = runs \/ (pc[r] = "insert_run" /\ runs' = [runs EXCEPT ![r] = rec[r]])
  BY <1>1 DEF InsertRun, InsertRunFails, InsertRunRow
<1>2. ASSUME NEW r \in Requests, NEW shape \in Shapes,
             \/ Accept(r, shape) \/ ProcessItem(r) \/ UpsertLine(r) \/ ScanFails(r)
             \/ BeginPersist(r) \/ PersistRow(r) \/ BuildRun(r) \/ InsertRow(r) \/ Respond(r)
             \/ LookupFails(r) \/ UpsertFails(r) \/ InsertRowFails(r)
      PROVE  runs' = runs
  BY <1>2 DEF Accept, ProcessItem, UpsertLine, ScanFails, BeginPersist, PersistRow, BuildRun,
     InsertRow, Respond, LookupFails, UpsertFails, InsertRowFails, storeVars
<1>3. ASSUME NEW r \in Requests,
             \/ ProcessItem(r) \/ UpsertLine(r) \/ ScanFails(r)
             \/ BeginPersist(r) \/ PersistRow(r) \/ BuildRun(r) \/ InsertRow(r) \/ Respond(r)
             \/ LookupFails(r) \/ UpsertFails(r) \/ InsertRowFails(r)
      PROVE  runs' = runs
  BY <1>3 DEF ProcessItem, UpsertLine, ScanFails, BeginPersist, PersistRow, BuildRun,
     InsertRow, Respond, LookupFails, UpsertFails, InsertRowFails, storeVars
<1>4. ASSUME ApiCrash PROVE runs' = runs
  BY <1>4 DEF ApiCrash, storeVars
<1> QED
  BY <1>1, <1>2, <1>3, <1>4 DEF ApiNext, Serve, HandlerStep, HandlerFailure

(* Every step of the pipeline is a step of the queue or leaves it alone.   *)
LEMMA QueueStep ==
    ASSUME TypeInv, OwnerInv, [Next]_vars
    PROVE  [Queue!Next]_(Queue!queueVars)
<1> DEFINE status == [r \in Requests |-> runs[r].status]
<1>0. /\ StoreTypeOK /\ HandlerTypeOK /\ WorkerTypeOK /\ JobInv
      /\ BirthInv /\ ClaimInv /\ DisjointInv /\ PushInv
  BY DEF TypeInv, TypeOK, OwnerInv
<1>s. ASSUME runs' = runs, pushes' = pushes
      PROVE  UNCHANGED Queue!queueVars
  BY <1>s DEF Queue!queueVars
<1>1. CASE ApiNext
  <2>1. pushes' = pushes
    BY <1>1 DEF ApiNext, workerVars
  <2>2. ASSUME NEW r \in Requests, pc[r] = "insert_run", runs' = [runs EXCEPT ![r] = rec[r]]
        PROVE  Queue!Insert(r)
    <3>1. /\ runs[r].status = "absent"
          /\ rec[r].status \in {"has_changes", "no_change_detected", "completed"}
      BY <1>0, <2>2 DEF BirthInv, Unborn
    <3>2. status' = [status EXCEPT ![r] = rec[r].status]
      BY <1>0, <2>2 DEF StoreTypeOK
    <3> QED
      BY <2>1, <3>1, <3>2 DEF Queue!Insert
  <2> QED
    BY <1>1, <1>s, <2>1, <2>2, ApiInserts DEF Queue!Next
<1>2. CASE WorkerNext
  <2>m. ASSUME NEW w \in Workers, wpc[w] = "claiming", MarkProcessing(w), pushes' = pushes
        PROVE  Queue!Next
    <3>1. /\ claims[w] \subseteq Requests /\ Cardinality(claims[w]) <= MaxPerClaim
          /\ \A r \in claims[w] : runs[r].status = "has_changes"
      BY <1>0, <2>m DEF ClaimInv, Claimable, WorkerTypeOK
    <3>2. runs' = [r \in Requests |-> IF r \in claims[w]
                                      THEN [runs[r] EXCEPT !.status = "processing"]
                                      ELSE runs[r]]
      BY <2>m, <3>1 DEF MarkProcessing, WithStatus
    <3>3. \A r \in Requests : [runs[r] EXCEPT !.status = "processing"].status = "processing"
      BY <1>0 DEF StoreTypeOK, RunRecord
    <3>4. status' = [r \in Requests |-> IF r \in claims[w] THEN "processing" ELSE status[r]]
      BY <3>2, <3>3
    <3>5. PICK S \in SUBSET Requests : S = claims[w]
      BY <3>1
    <3>6. Queue!Claim(S)
      <4>1. \A r \in S : status[r] = "has_changes"
        BY <3>1, <3>5
      <4>2. Queue!Cardinality(S) <= MaxPerClaim
        BY <3>1, <3>5, Zenon DEF Cardinality, Queue!Cardinality
      <4>3. status' = [r \in Requests |-> IF r \in S THEN "processing" ELSE status[r]]
        BY <3>4, <3>5
      <4> QED
        BY <2>m, <4>1, <4>2, <4>3 DEF Queue!Claim
    <3> QED
      BY <3>6 DEF Queue!Next
  <2>1. ASSUME NEW w \in Workers, CommitClaim(w) \/ ClaimFails(w)
        PROVE  [Queue!Next]_(Queue!queueVars)
    <3>1. /\ pushes' = pushes
          /\ (wpc[w] = "claiming" /\ MarkProcessing(w)) \/ runs' = runs
      BY <2>1 DEF CommitClaim, ClaimFails
    <3> QED
      BY <1>s, <2>m, <3>1
  <2>2. ASSUME NEW w \in Workers, OnExecute(w)
        PROVE  Queue!Next
    <3>1. /\ job[w] \in Requests /\ runs[job[w]].status = "processing" /\ pushes[job[w]] = 0
          /\ pushes' = [pushes EXCEPT ![job[w]] = @ + 1] /\ runs' = runs
      BY <1>0, <2>2 DEF OnExecute, storeVars, JobInv, ClaimInv, PushInv, WorkerTypeOK
    <3>2. pushes' = [pushes EXCEPT ![job[w]] = 1] /\ status' = status
      BY <3>1
    <3>3. Queue!Execute(job[w])
      BY <3>1, <3>2 DEF Queue!Execute
    <3> QED
      BY <3>1, <3>3 DEF Queue!Next
  <2>3. ASSUME NEW w \in Workers, RecordOutcome(w) \/ OutcomeDropped(w)
        PROVE  [Queue!Next]_(Queue!queueVars)
    <3>1. /\ pushes' = pushes
          /\ \/ wpc[w] = "complete" /\ runs' = WithStatus(runs, {job[w]}, "completed")
             \/ wpc[w] = "fail" /\ runs' = WithStatus(runs, {job[w]}, "failed")
             \/ runs' = runs
      BY <2>3 DEF RecordOutcome, OutcomeDropped, EndJob, CompleteRun, FailRun
    <3>2. CASE runs' = runs
      BY <1>s, <3>1, <3>2
    <3>3. ASSUME NEW st \in {"completed", "failed"}, runs' = WithStatus(runs, {job[w]}, st),
                 wpc[w] \in {"complete", "fail"}, st = "completed" => wpc[w] = "complete"
          PROVE  Queue!Next
      <4>1. /\ job[w] \in Requests /\ runs[job[w]].status = "processing"
            /\ wpc[w] = "complete" => pushes[job[w]] = 1
        BY <1>0, <3>3 DEF JobInv, ClaimInv, PushInv, WorkerTypeOK
      <4>2. [runs[job[w]] EXCEPT !.status = st].status = st
        BY <1>0, <4>1 DEF StoreTypeOK, RunRecord
      <4>3. status' = [status EXCEPT ![job[w]] = st]
        BY <3>3, <4>1, <4>2 DEF WithStatus
      <4>4. PICK r \in Requests : r = job[w]
        BY <4>1
      <4>5. Queue!Resolve(r)
        BY <3>1, <3>3, <4>1, <4>3, <4>4 DEF Queue!Resolve
      <4> QED
        BY <4>5 DEF Queue!Next
    <3> QED
      BY <3>1, <3>2, <3>3
  <2>4. ASSUME NEW w \in Workers,
               \/ SelectRuns(w) \/ PollNothing(w) \/ GetRun(w) \/ LoadProducts(w)
               \/ WorkerCrash(w) \/ WorkerStart(w)
        PROVE  UNCHANGED Queue!queueVars
    <3>1. runs' = runs /\ pushes' = pushes
      BY <2>4 DEF SelectRuns, PollNothing, GetRun, LoadProducts, WorkerCrash, WorkerStart,
         storeVars, workerVars
    <3> QED
      BY <1>s, <3>1
  <2> QED
    BY <1>2, <2>1, <2>2, <2>3, <2>4 DEF WorkerNext, WorkerStep
<1>3. CASE UNCHANGED <<storeVars, handlerVars, workerVars>>
  BY <1>3, <1>s DEF storeVars, workerVars
<1> QED
  BY <1>1, <1>2, <1>3 DEF Next, vars

(* Polling, row locks and an update per run implement atomic claims: the   *)
(* pipeline behaves like RunQueue for any number of workers.               *)
THEOREM ImplementsQueue == Spec => QueueRefined
<1>1. Init => Queue!Init
  BY DEF Init, StoreInit, WorkerInit, NoRun, Queue!Init
<1>2. TypeInv /\ OwnerInv /\ [Next]_vars => [Queue!Next]_(Queue!queueVars)
  BY QueueStep
<1> QED
  BY <1>1, <1>2, OwnerInvHolds, PTL DEF Spec, QueueRefined, Queue!Spec
=============================================================================
