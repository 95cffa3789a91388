----------------------------- MODULE DataProofs -----------------------------
(***************************************************************************)
(* Proofs about what Conductor stores, answers and publishes, on top of    *)
(* the type and ownership invariants of ConductorProofs; then about the    *)
(* order in which runs are claimed, what is loaded for them and what       *)
(* 'unchanged' promises.  These last hold under conditions that their      *)
(* theorems state: requests served one at a time, bodies that fit into a   *)
(* page, no failing Store call.                                            *)
(***************************************************************************)
EXTENDS ConductorProofs, FiniteSetTheorems

(* The content h of product k was classified 'enqueued' for tenant t. *)
Backed(t, k, h) == \E q \in Requests : Classified(q, t, k, h, "enqueued")

(* Every hash a handler holds, and may still write, is backed.             *)
RowsBacked ==
    \A r \in Requests : \A i \in DOMAIN out[r] :
        out[r][i].hash # NoHash => Backed(req[r].tenant, out[r][i].key, out[r][i].hash)

(* What is stored of request r, by the place its handler is at:            *)
(* run_products is a prefix of the results, and the run is the request's   *)
(* own.                                                                    *)
Persisted(r) ==
    /\ pc[r] \in {"idle", "item", "upsert"} => Len(out[r]) <= Len(req[r].items)
    /\ pc[r] \in {"persist", "insert_run", "insert_rows"} => Len(out[r]) = Len(req[r].items)
    /\ pc[r] = "insert_run" => rec[r].tenant = req[r].tenant /\ rec[r].sum = sum[r]
    /\ Unborn(r) => runProducts[r] = <<>>
    /\ pc[r] = "insert_rows" => runs[r].status # "absent" /\ cur[r] = Len(runProducts[r]) + 1
    /\ Len(runProducts[r]) <= Len(out[r])
    /\ \A i \in 1..Len(runProducts[r]) : runProducts[r][i] = out[r][i]
    /\ runs[r].status # "absent" =>
          /\ runs[r].tenant = req[r].tenant
          /\ runs[r].sum = sum[r]
          /\ Len(out[r]) = Len(req[r].items)
    /\ resp[r] = "ok" =>
          /\ pc[r] = "done"
          /\ runs[r].status # "absent"
          /\ Len(runProducts[r]) = Len(out[r])

PersistInv == \A r \in Requests : Persisted(r)

(* What a worker has read are enqueued results of the run it executes.     *)
LoadInv ==
    \A w \in Workers : \A row \in loaded[w] :
        /\ job[w] # NoJob
        /\ row.disp = "enqueued"
        /\ \E i \in DOMAIN out[job[w]] : out[job[w]][i] = row

DataInv == CanonicalBacked /\ RowsBacked /\ PersistInv /\ LoadInv /\ ChannelBacked
-----------------------------------------------------------------------------
(* A step of the handler of r leaves everything of the other requests      *)
(* alone.                                                                  *)
LEMMA HandlerFrame ==
    ASSUME TypeInv, NEW r \in Requests,
           (\E shape \in Shapes : Accept(r, shape)) \/ HandlerStep(r) \/ HandlerFailure(r),
           NEW q \in Requests \ {r}
    PROVE  /\ pc'[q] = pc[q] /\ req'[q] = req[q] /\ cur'[q] = cur[q] /\ out'[q] = out[q]
           /\ sum'[q] = sum[q] /\ rec'[q] = rec[q] /\ resp'[q] = resp[q]
           /\ runs'[q] = runs[q] /\ runProducts'[q] = runProducts[q]
<1>0. StoreTypeOK /\ HandlerTypeOK
  BY DEF TypeInv, TypeOK
<1> USE <1>0 DEF StoreTypeOK, HandlerTypeOK, storeVars, Goto, Answer
<1>1. ASSUME NEW shape \in Shapes, Accept(r, shape)
      PROVE  /\ pc'[q] = pc[q] /\ req'[q] = req[q] /\ cur'[q] = cur[q] /\ out'[q] = out[q]
             /\ sum'[q] = sum[q] /\ rec'[q] = rec[q] /\ resp'[q] = resp[q]
             /\ runs'[q] = runs[q] /\ runProducts'[q] = runProducts[q]
  BY <1>1 DEF Accept
<1>2. CASE ProcessItem(r)
  BY <1>2 DEF ProcessItem
<1>3. CASE UpsertLine(r) \/ ScanFails(r) \/ BeginPersist(r) \/ PersistRow(r)
  BY <1>3 DEF UpsertLine, ScanFails, BeginPersist, PersistRow
<1>4. CASE BuildRun(r) \/ InsertRun(r) \/ InsertRow(r) \/ Respond(r)
  BY <1>4 DEF BuildRun, InsertRun, InsertRunRow, InsertRow, InsertProductRow, Respond
<1>5. CASE LookupFails(r) \/ UpsertFails(r)
  BY <1>5 DEF LookupFails, UpsertFails
<1>6. CASE InsertRunFails(r)
  BY <1>6 DEF InsertRunFails, InsertRunRow
<1>7. CASE InsertRowFails(r)
  BY <1>7 DEF InsertRowFails, InsertProductRow
<1> QED
  BY <1>1, <1>2, <1>3, <1>4, <1>5, <1>6, <1>7 DEF HandlerStep, HandlerFailure

(* ProcessItem appends the classification of the item at cur. *)
LEMMA NewRow ==
    ASSUME TypeInv, NEW r \in Requests, ProcessItem(r)
    PROVE  /\ req'[r] = req[r] /\ req[r].tenant \in Tenants
           /\ cur[r] <= Len(req[r].items)
           /\ cur[r] = Len(out[r]) + 1
           /\ \E item \in Item :
                LET row == ProcessProduct(item, PreviousHash(req[r].tenant, item))
                IN  /\ row \in Row
                    /\ item.valid => item.key \in Keys
                    /\ out' = [out EXCEPT ![r] = Append(out[r], row)]
                    /\ sum' = [sum EXCEPT ![r] = AddToSummary(sum[r], row, req[r].kind = "bulk")]
<1>0. StoreTypeOK /\ HandlerTypeOK /\ CursorInv
  BY DEF TypeInv, TypeOK
<1> DEFINE item == req[r].items[cur[r]]
<1>1. /\ req[r] \in Shapes /\ cur[r] \in Nat \ {0} /\ cur[r] <= Len(req[r].items)
      /\ cur[r] = Len(out[r]) + 1
  BY <1>0 DEF ProcessItem, CursorInv, HandlerTypeOK
<1>2. req[r].tenant \in Tenants /\ item \in Item /\ (item.valid => item.key \in Keys)
  BY <1>1, ItemFacts
<1>3. PreviousHash(req[r].tenant, item) \in Hashes \cup {NoHash}
  BY <1>0, <1>2 DEF PreviousHash, GetProductHash, StoreTypeOK
<1>4. ProcessProduct(item, PreviousHash(req[r].tenant, item)) \in Row
  BY <1>2, <1>3, ProcessProductType
<1> QED
  BY <1>1, <1>2, <1>4 DEF ProcessItem

(* Results are only ever added, to a request that does not change any more. *)
LEMMA OutGrows ==
    ASSUME TypeInv, [Next]_vars, NEW r \in Requests, NEW i \in DOMAIN out[r]
    PROVE  req'[r] = req[r] /\ i \in DOMAIN out'[r] /\ out'[r][i] = out[r][i]
<1>0. StoreTypeOK /\ HandlerTypeOK /\ CursorInv
  BY DEF TypeInv, TypeOK
<1> DEFINE Goal == req'[r] = req[r] /\ i \in DOMAIN out'[r] /\ out'[r][i] = out[r][i]
<1>1. CASE UNCHANGED <<req, out>>
  BY <1>1
<1>2. ASSUME NEW q \in Requests, NEW shape \in Shapes, Accept(q, shape)
      PROVE  Goal
  <2>1. CASE q = r
    <3>1. out[r] = <<>>
      BY <1>0, <1>2, <2>1 DEF Accept, CursorInv
    <3> QED
      BY <3>1
  <2>2. CASE q # r
    BY <1>0, <1>2, <2>2 DEF Accept, HandlerTypeOK
  <2> QED
    BY <2>1, <2>2
<1>3. ASSUME NEW q \in Requests, ProcessItem(q)
      PROVE  Goal
  <2>1. PICK row \in Row : out' = [out EXCEPT ![q] = Append(out[q], row)]
    BY <1>3, NewRow
  <2>2. req' = req /\ out[r] \in Seq(Row) /\ out[q] \in Seq(Row)
    BY <1>0, <1>3 DEF ProcessItem, HandlerTypeOK
  <2>3. CASE q = r
    <3>1. out'[r] = Append(out[r], row)
      BY <1>0, <2>1, <2>3 DEF HandlerTypeOK
    <3> QED
      BY <2>2, <3>1
  <2>4. CASE q # r
    BY <1>0, <2>1, <2>2, <2>4 DEF HandlerTypeOK
  <2> QED
    BY <2>3, <2>4
<1>4. ASSUME NEW q \in Requests, HandlerStep(q) \/ HandlerFailure(q), ~ProcessItem(q)
      PROVE  UNCHANGED <<req, out>>
  BY <1>4 DEF HandlerStep, HandlerFailure, UpsertLine, ScanFails, BeginPersist, PersistRow,
     BuildRun, InsertRun, InsertRow, Respond, LookupFails, UpsertFails, InsertRunFails,
     InsertRowFails
<1>5. CASE ApiCrash
  BY <1>1, <1>5 DEF ApiCrash
<1>6. CASE WorkerNext \/ (Tick /\ UNCHANGED <<storeVars, handlerVars, workerVars, arrivals>>)
           \/ UNCHANGED vars
  BY <1>1, <1>6 DEF WorkerNext, handlerVars, vars
<1> QED
  BY <1>1, <1>2, <1>3, <1>4, <1>5, <1>6 DEF Next, ApiNext, Serve

(* So a classification stays. *)
LEMMA ClassifiedStays ==
    ASSUME TypeInv, [Next]_vars, NEW q \in Requests, NEW t, NEW k, NEW h, NEW d,
           Classified(q, t, k, h, d)
    PROVE  Classified(q, t, k, h, d)'
<1>1. PICK i \in DOMAIN out[q] : out[q][i] = [key |-> k, hash |-> h, disp |-> d]
  BY DEF Classified
<1>2. req'[q] = req[q] /\ i \in DOMAIN out'[q] /\ out'[q][i] = out[q][i]
  BY OutGrows
<1> QED
  BY <1>1, <1>2 DEF Classified

LEMMA BackedStays ==
    ASSUME TypeInv, [Next]_vars, NEW t, NEW k, NEW h, Backed(t, k, h)
    PROVE  Backed(t, k, h)'
<1>1. PICK q \in Requests : Classified(q, t, k, h, "enqueued")
  BY DEF Backed
<1>2. Classified(q, t, k, h, "enqueued")'
  BY <1>1, ClassifiedStays
<1> QED
  BY <1>2 DEF Backed
-----------------------------------------------------------------------------
(* A handler writes only a hash it holds as a result of its own tenant's   *)
(* request.                                                                *)
LEMMA HashWrites ==
    ASSUME TypeInv, [Next]_vars
    PROVE  \/ productHash' = productHash
           \/ \E r \in Requests : \E i \in DOMAIN out[r] :
                /\ out[r][i].hash # NoHash
                /\ UpsertProductHash(req[r].tenant, out[r][i].key, out[r][i].hash)
<1>0. StoreTypeOK /\ HandlerTypeOK /\ CursorInv
  BY DEF TypeInv, TypeOK
<1> DEFINE Writes(r) == \E i \in DOMAIN out[r] :
                          /\ out[r][i].hash # NoHash
                          /\ UpsertProductHash(req[r].tenant, out[r][i].key, out[r][i].hash)
           Goal == productHash' = productHash \/ \E r \in Requests : Writes(r)
<1>1. ASSUME NEW r \in Requests, UpsertLine(r)
      PROVE  Goal
  <2>1. cur[r] = Len(out[r]) /\ out[r][cur[r]].hash \in Hashes /\ cur[r] \in Nat \ {0}
    BY <1>0, <1>1 DEF UpsertLine, CursorInv, HandlerTypeOK
  <2>2. cur[r] \in DOMAIN out[r] /\ out[r][cur[r]].hash # NoHash
    BY <1>0, <2>1, SentinelAssumption DEF HandlerTypeOK
  <2> QED
    BY <1>1, <2>2 DEF UpsertLine
<1>2. ASSUME NEW r \in Requests, PersistRow(r) \/ UpsertFails(r)
      PROVE  Goal
  <2>1. cur[r] \in DOMAIN out[r]
    BY <1>0, <1>2 DEF PersistRow, UpsertFails, HandlerTypeOK
  <2> QED
    BY <1>2, <2>1 DEF PersistRow, UpsertFails
<1>3. ASSUME NEW r \in Requests, NEW shape \in Shapes, Accept(r, shape)
      PROVE  Goal
  BY <1>3 DEF Accept, storeVars
<1>4. ASSUME NEW r \in Requests, HandlerStep(r) \/ HandlerFailure(r),
             ~UpsertLine(r), ~PersistRow(r), ~UpsertFails(r)
      PROVE  Goal
  BY <1>4 DEF HandlerStep, HandlerFailure, ProcessItem, ScanFails, BeginPersist,
     BuildRun, InsertRun, InsertRow, Respond, LookupFails, InsertRunFails,
     InsertRowFails, storeVars
<1>5. CASE ApiCrash
  BY <1>5 DEF ApiCrash, storeVars
<1>6. CASE WorkerNext
  BY <1>6 DEF WorkerNext, WorkerStep, SelectRuns, PollNothing, CommitClaim, ClaimFails, GetRun,
     LoadProducts, OnExecute, RecordOutcome, OutcomeDropped, EndJob, WorkerCrash, WorkerStart,
     storeVars
<1>7. CASE (Tick /\ UNCHANGED <<storeVars, handlerVars, workerVars, arrivals>>) \/ UNCHANGED vars
  BY <1>7 DEF storeVars, vars
<1> QED
  BY <1>1, <1>2, <1>3, <1>4, <1>5, <1>6, <1>7 DEF Next, ApiNext, Serve

(* The hash of an unchanged product was found in the table, so it was      *)
(* backed already; that of an enqueued one is backed by its own row.       *)
LEMMA BackedStep ==
    ASSUME TypeInv, CanonicalBacked, RowsBacked, [Next]_vars
    PROVE  CanonicalBacked' /\ RowsBacked'
<1>0. StoreTypeOK /\ HandlerTypeOK /\ CursorInv
  BY DEF TypeInv, TypeOK
<1>1. CanonicalBacked'
  <2>1. ASSUME NEW t \in Tenants, NEW k \in Keys, productHash'[t][k] # NoHash
        PROVE  Backed(t, k, productHash'[t][k])
    <3>1. CASE productHash'[t][k] = productHash[t][k]
      BY <2>1, <3>1 DEF CanonicalBacked, Backed
    <3>2. ASSUME NEW r \in Requests, NEW i \in DOMAIN out[r],
                 out[r][i].hash # NoHash,
                 UpsertProductHash(req[r].tenant, out[r][i].key, out[r][i].hash),
                 productHash'[t][k] # productHash[t][k]
          PROVE  Backed(t, k, productHash'[t][k])
      <4>1. Backed(req[r].tenant, out[r][i].key, out[r][i].hash)
        BY <3>2 DEF RowsBacked
      <4>2. /\ t = req[r].tenant /\ k = out[r][i].key
            /\ productHash'[t][k] = out[r][i].hash
        BY <1>0, <3>2 DEF UpsertProductHash, StoreTypeOK
      <4> QED
        BY <4>1, <4>2
    <3> QED
      BY <3>1, <3>2, HashWrites
  <2>2. ASSUME NEW t \in Tenants, NEW k \in Keys, NEW h, h = productHash'[t][k], h # NoHash
        PROVE  Backed(t, k, h)'
    BY <2>1, <2>2, BackedStays
  <2> QED
    BY <2>2 DEF CanonicalBacked, Backed
<1>2. ASSUME NEW r \in Requests, NEW i \in DOMAIN out'[r], out'[r][i].hash # NoHash
      PROVE  Backed(req[r].tenant, out[r][i].key, out[r][i].hash)'
  <2>1. CASE i \in DOMAIN out[r]
    <3> DEFINE t == req[r].tenant  k == out[r][i].key  h == out[r][i].hash
    <3>1. req'[r] = req[r] /\ out'[r][i] = out[r][i]
      BY <2>1, OutGrows
    <3>2. Backed(t, k, h)
      BY <1>2, <2>1, <3>1 DEF RowsBacked
    <3>3. ASSUME NEW t0, NEW k0, NEW h0, t0 = t, k0 = k, h0 = h
          PROVE  Backed(t0, k0, h0)'
      BY <3>2, <3>3, BackedStays
    <3>4. t' = t /\ k' = k /\ h' = h
      BY <3>1
    <3> QED
      BY <3>3, <3>4
  <2>2. CASE i \notin DOMAIN out[r]
    <3>1. ProcessItem(r)
      <4>1. out'[r] # out[r]
        BY <1>2, <2>2
      <4>2. ASSUME NEW q \in Requests, q # r,
                   (\E shape \in Shapes : Accept(q, shape)) \/ HandlerStep(q) \/ HandlerFailure(q)
            PROVE  out'[r] = out[r]
        BY <4>2, HandlerFrame
      <4>3. ASSUME NEW shape \in Shapes, Accept(r, shape)
            PROVE  out' = out
        BY <4>3 DEF Accept
      <4>4. ASSUME HandlerStep(r) \/ HandlerFailure(r), ~ProcessItem(r)
            PROVE  out' = out
        BY <4>4 DEF HandlerStep, HandlerFailure, UpsertLine, ScanFails, BeginPersist, PersistRow,
           BuildRun, InsertRun, InsertRow, Respond, LookupFails, UpsertFails, InsertRunFails,
           InsertRowFails
      <4>5. ApiCrash \/ WorkerNext \/ UNCHANGED vars
               \/ (Tick /\ UNCHANGED <<storeVars, handlerVars, workerVars, arrivals>>) => out' = out
        BY DEF ApiCrash, WorkerNext, handlerVars, vars
      <4> QED
        BY <4>1, <4>2, <4>3, <4>4, <4>5 DEF Next, ApiNext, Serve
    <3> DEFINE prev(item) == PreviousHash(req[r].tenant, item)
    <3>2. PICK item \in Item :
            /\ ProcessProduct(item, prev(item)) \in Row
            /\ item.valid => item.key \in Keys
            /\ out' = [out EXCEPT ![r] = Append(out[r], ProcessProduct(item, prev(item)))]
      BY <3>1, NewRow
    <3>3. req'[r] = req[r] /\ req[r].tenant \in Tenants
      BY <3>1, NewRow
    <3>4. out'[r] = Append(out[r], ProcessProduct(item, prev(item))) /\ out[r] \in Seq(Row)
      BY <1>0, <3>2 DEF HandlerTypeOK
    <3>5. PICK row \in Row : row = ProcessProduct(item, prev(item))
      BY <3>2
    <3>6. out'[r][i] = row
      BY <1>2, <2>2, <3>4, <3>5
    <3>7. item.valid /\ row.key = item.key /\ row.hash = item.hash
      BY <1>2, <3>5, <3>6 DEF ProcessProduct, Item
    <3>8. CASE row.disp = "enqueued"
      <4>1. row = [key |-> row.key, hash |-> row.hash, disp |-> "enqueued"]
        BY <3>8 DEF Row
      <4> QED
        BY <1>2, <3>6, <4>1 DEF Backed, Classified
    <3>9. CASE row.disp # "enqueued"
      <4>1. prev(item) = item.hash
        BY <3>5, <3>7, <3>9 DEF ProcessProduct, ComputeDisposition
      <4>2. productHash[req[r].tenant][item.key] = row.hash /\ row.hash # NoHash
        BY <1>2, <3>6, <3>7, <4>1 DEF PreviousHash, GetProductHash
      <4>3. Backed(req[r].tenant, item.key, row.hash)
        BY <3>2, <3>3, <3>7, <4>2 DEF CanonicalBacked, Backed
      <4>4. ASSUME NEW t0, NEW k0, NEW h0, t0 = req[r].tenant, k0 = item.key, h0 = row.hash
            PROVE  Backed(t0, k0, h0)'
        BY <4>3, <4>4, BackedStays
      <4> QED
        BY <3>3, <3>6, <3>7, <4>4
    <3> QED
      BY <3>8, <3>9
  <2> QED
    BY <2>1, <2>2
<1>3. RowsBacked'
  BY <1>2 DEF RowsBacked
<1> QED
  BY <1>1, <1>3
-----------------------------------------------------------------------------
(* Persisted(r) when nothing of r changes, or only the index of a loop     *)
(* that does not insert rows.                                              *)
LEMMA PersistedFrame ==
    ASSUME NEW r \in Requests, Persisted(r),
           /\ pc'[r] = pc[r] /\ req'[r] = req[r] /\ out'[r] = out[r] /\ sum'[r] = sum[r]
           /\ rec'[r] = rec[r] /\ resp'[r] = resp[r] /\ runProducts'[r] = runProducts[r],
           pc[r] = "insert_rows" => cur'[r] = cur[r],
           runs[r].status = "absent" <=> runs'[r].status = "absent",
           runs'[r].tenant = runs[r].tenant, runs'[r].sum = runs[r].sum
    PROVE  Persisted(r)'
  BY DEF Persisted, Unborn

(* Persisted(r) when the handler of r gives up after its inserts or before. *)
LEMMA PersistedDone ==
    ASSUME NEW r \in Requests, Persisted(r),
           pc'[r] = "done", resp'[r] # "ok",
           req'[r] = req[r], out'[r] = out[r], sum'[r] = sum[r],
           runProducts'[r] = runProducts[r], runs'[r] = runs[r]
    PROVE  Persisted(r)'
  BY DEF Persisted, Unborn

(* Every step of a handler keeps run_products a prefix of the results and  *)
(* the run that of the request.                                            *)
LEMMA HandlerPersists ==
    ASSUME TypeInv, OwnerInv, NEW r \in Requests, Persisted(r),
           (\E shape \in Shapes : Accept(r, shape)) \/ HandlerStep(r) \/ HandlerFailure(r)
    PROVE  Persisted(r)'
<1>0. StoreTypeOK /\ HandlerTypeOK /\ CursorInv /\ BirthInv
  BY DEF TypeInv, TypeOK, OwnerInv
<1>s. /\ out[r] \in Seq(Row) /\ runProducts[r] \in Seq(Row)
      /\ req[r].items \in Seq(Item)
      /\ cur[r] \in Nat \ {0}
  <2>1. NoShape.items \in Seq(Item) /\ \A s \in Shapes : s.items \in Seq(Item)
    BY ShapesAssumption DEF NoShape, Shape
  <2> QED
    BY <1>0, <2>1 DEF HandlerTypeOK, StoreTypeOK
<1>1. ASSUME NEW shape \in Shapes, Accept(r, shape)
      PROVE  Persisted(r)'
  <2>1. pc[r] = "idle" /\ out[r] = <<>> /\ runs[r].status = "absent" /\ runProducts[r] = <<>>
    BY <1>0, <1>1 DEF Accept, CursorInv, BirthInv, Unborn, Persisted
  <2>2. /\ out' = out /\ runs' = runs /\ runProducts' = runProducts
        /\ req'[r] = shape
        /\ \/ pc'[r] = "item" /\ resp' = resp
           \/ pc'[r] = "done" /\ resp'[r] # "ok"
    BY <1>0, <1>1 DEF Accept, Answer, Goto, storeVars, HandlerTypeOK
  <2>3. shape.items \in Seq(Item)
    BY ShapesAssumption DEF Shape
  <2> QED
    BY <2>1, <2>2, <2>3 DEF Persisted, Unborn
<1>2. CASE ProcessItem(r)
  <2>1. PICK row \in Row : out' = [out EXCEPT ![r] = Append(out[r], row)]
    BY <1>2, NewRow
  <2>2. cur[r] <= Len(req[r].items) /\ cur[r] = Len(out[r]) + 1 /\ req'[r] = req[r]
    BY <1>2, NewRow
  <2>3. /\ pc[r] = "item" /\ pc'[r] \in {"item", "upsert"}
        /\ resp' = resp /\ runs' = runs /\ runProducts' = runProducts
    BY <1>0, <1>2 DEF ProcessItem, Goto, storeVars, HandlerTypeOK
  <2>4. out'[r] = Append(out[r], row) /\ Len(out'[r]) = Len(out[r]) + 1
    BY <1>0, <1>s, <2>1 DEF HandlerTypeOK
  <2>5. runs[r].status = "absent" /\ runProducts[r] = <<>> /\ resp[r] # "ok"
    BY <1>0, <2>3 DEF BirthInv, Unborn, Persisted
  <2> QED
    BY <1>s, <2>2, <2>3, <2>4, <2>5 DEF Persisted, Unborn
<1>3. CASE UpsertLine(r)
  <2>1. /\ pc[r] = "upsert" /\ pc'[r] = "item"
        /\ UNCHANGED <<req, out, sum, rec, resp, runs, runProducts>>
    BY <1>0, <1>3 DEF UpsertLine, Goto, HandlerTypeOK
  <2> QED
    BY <2>1 DEF Persisted, Unborn
<1>4. CASE BeginPersist(r)
  <2>1. /\ pc[r] = "item" /\ pc'[r] = "persist" /\ cur[r] > Len(req[r].items)
        /\ UNCHANGED <<req, out, sum, rec, resp, runs, runProducts>>
    BY <1>0, <1>4 DEF BeginPersist, Goto, HandlerTypeOK, storeVars
  <2>2. Len(out[r]) = Len(req[r].items)
    BY <1>0, <1>s, <2>1 DEF CursorInv, Persisted
  <2> QED
    BY <2>1, <2>2 DEF Persisted, Unborn
<1>5. CASE PersistRow(r)
  <2>1. pc[r] = "persist" /\ UNCHANGED <<pc, req, out, sum, rec, resp, runs, runProducts>>
    BY <1>5 DEF PersistRow
  <2> QED
    BY <2>1, PersistedFrame
<1>6. CASE BuildRun(r)
  <2>1. /\ pc[r] \in {"item", "persist"} /\ pc'[r] = "insert_run"
        /\ rec'[r] = NewRunRecord(req[r].tenant, sum[r], clock)
        /\ UNCHANGED <<req, cur, out, sum, resp, runs, runProducts>>
        /\ pc[r] = "item" => cur[r] > Len(req[r].items)
    BY <1>0, <1>6 DEF BuildRun, Goto, HandlerTypeOK, storeVars
  <2>2. Len(out[r]) = Len(req[r].items)
    BY <1>0, <1>s, <2>1 DEF CursorInv, Persisted
  <2>3. rec'[r].tenant = req[r].tenant /\ rec'[r].sum = sum[r]
    BY <2>1 DEF NewRunRecord
  <2> QED
    BY <2>1, <2>2, <2>3 DEF Persisted, Unborn
<1>7. CASE InsertRun(r)
  <2>1. /\ pc[r] = "insert_run" /\ pc'[r] = "insert_rows" /\ cur'[r] = 1
        /\ runs'[r] = rec[r]
        /\ UNCHANGED <<req, out, sum, rec, resp, runProducts>>
    BY <1>0, <1>7 DEF InsertRun, InsertRunRow, Goto, HandlerTypeOK, StoreTypeOK
  <2>2. rec[r].status # "absent" /\ runProducts[r] = <<>>
    BY <1>0, <2>1 DEF BirthInv, Persisted, Unborn
  <2> QED
    BY <1>s, <2>1, <2>2 DEF Persisted, Unborn
<1>8. CASE InsertRunFails(r)
  <2>1. /\ pc[r] = "insert_run" /\ pc'[r] = "done" /\ resp'[r] = "error"
        /\ runs' = runs \/ runs'[r] = rec[r]
        /\ UNCHANGED <<req, out, sum, runProducts>>
    BY <1>0, <1>8 DEF InsertRunFails, InsertRunRow, Answer, Goto, HandlerTypeOK, StoreTypeOK
  <2> QED
    BY <1>s, <2>1 DEF Persisted, Unborn
<1>i. ASSUME InsertProductRow(r, out[r][cur[r]]), pc[r] = "insert_rows", cur[r] <= Len(out[r])
      PROVE  /\ Len(runProducts'[r]) = cur[r]
             /\ \A i \in 1..cur[r] : runProducts'[r][i] = out[r][i]
  <2>1. runProducts'[r] = Append(runProducts[r], out[r][cur[r]])
    BY <1>0, <1>i DEF InsertProductRow, StoreTypeOK
  <2>2. cur[r] = Len(runProducts[r]) + 1
    BY <1>i DEF Persisted
  <2>3. \A i \in 1..Len(runProducts[r]) : runProducts[r][i] = out[r][i]
    BY DEF Persisted
  <2>4. Len(runProducts'[r]) = Len(runProducts[r]) + 1
    BY <1>s, <2>1
  <2>5. ASSUME NEW i \in 1..cur[r] PROVE runProducts'[r][i] = out[r][i]
    BY <1>s, <2>1, <2>2, <2>3
  <2> QED
    BY <2>2, <2>4, <2>5
<1>9. CASE InsertRow(r)
  <2>1. /\ pc[r] = "insert_rows" /\ cur'[r] = cur[r] + 1 /\ cur[r] <= Len(out[r])
        /\ UNCHANGED <<pc, req, out, sum, rec, resp, runs>>
        /\ InsertProductRow(r, out[r][cur[r]])
    BY <1>0, <1>9 DEF InsertRow, HandlerTypeOK
  <2> QED
    BY <1>s, <1>i, <2>1 DEF Persisted, Unborn
<1>10. CASE InsertRowFails(r)
  <2>1. /\ pc[r] = "insert_rows" /\ pc'[r] = "done" /\ resp'[r] = "error"
        /\ cur[r] <= Len(out[r])
        /\ UNCHANGED <<req, out, sum, runs>>
        /\ runProducts' = runProducts \/ InsertProductRow(r, out[r][cur[r]])
    BY <1>0, <1>10 DEF InsertRowFails, Answer, Goto, HandlerTypeOK
  <2> QED
    BY <1>s, <1>i, <2>1 DEF Persisted, Unborn
<1>11. CASE Respond(r)
  <2>1. /\ pc[r] = "insert_rows" /\ pc'[r] = "done" /\ cur[r] > Len(out[r])
        /\ UNCHANGED <<req, out, sum, runs, runProducts>>
    BY <1>0, <1>11 DEF Respond, Answer, Goto, HandlerTypeOK, storeVars
  <2>2. Len(runProducts[r]) = Len(out[r]) /\ runs[r].status # "absent"
    BY <1>s, <2>1 DEF Persisted
  <2> QED
    BY <2>1, <2>2 DEF Persisted, Unborn
<1>12. CASE LookupFails(r) \/ UpsertFails(r) \/ ScanFails(r)
  <2>1. /\ pc'[r] = "done" /\ resp'[r] # "ok"
        /\ UNCHANGED <<req, out, sum, runs, runProducts>>
    BY <1>0, <1>12 DEF LookupFails, UpsertFails, ScanFails, Answer, Goto, HandlerTypeOK, storeVars
  <2> QED
    BY <2>1, PersistedDone
<1> QED
  BY <1>1, <1>2, <1>3, <1>4, <1>5, <1>6, <1>7, <1>8, <1>9, <1>10, <1>11, <1>12
     DEF HandlerStep, HandlerFailure

(* Workers change nothing of a run but the status of one that exists. *)
LEMMA WorkerRuns ==
    ASSUME TypeInv, OwnerInv, WorkerNext
    PROVE  /\ runProducts' = runProducts
           /\ \A r \in Requests :
                /\ runs[r].status = "absent" <=> runs'[r].status = "absent"
                /\ runs'[r].tenant = runs[r].tenant /\ runs'[r].sum = runs[r].sum
<1>0. StoreTypeOK /\ WorkerTypeOK /\ JobInv /\ ClaimInv
  BY DEF TypeInv, TypeOK, OwnerInv
<1> DEFINE Kept == \A r \in Requests :
                     /\ runs[r].status = "absent" <=> runs'[r].status = "absent"
                     /\ runs'[r].tenant = runs[r].tenant /\ runs'[r].sum = runs[r].sum
<1>1. ASSUME NEW S, NEW s \in RunStatuses \ {"absent"}, runs' = WithStatus(runs, S, s),
             \A r \in Requests : r \in S => runs[r].status # "absent"
      PROVE  Kept
  BY <1>0, <1>1 DEF WithStatus, StoreTypeOK, RunRecord
<1>2. ASSUME NEW w \in Workers, MarkProcessing(w)
      PROVE  Kept
  BY <1>1, <1>2 DEF MarkProcessing, RunStatuses
<1>3. ASSUME NEW w \in Workers, RecordOutcome(w)
      PROVE  Kept
  <2>1. PICK j \in Requests : j = job[w] /\ runs[j].status = "processing"
    BY <1>0, <1>3 DEF RecordOutcome, JobInv, WorkerTypeOK, ClaimInv
  <2>2. runs' = WithStatus(runs, {j}, "completed") \/ runs' = WithStatus(runs, {j}, "failed")
    BY <1>3, <2>1 DEF RecordOutcome, CompleteRun, FailRun
  <2> QED
    BY <1>1, <2>1, <2>2 DEF RunStatuses
<1>4. ASSUME NEW w \in Workers,
             \/ SelectRuns(w) \/ PollNothing(w) \/ GetRun(w) \/ LoadProducts(w) \/ OnExecute(w)
             \/ OutcomeDropped(w) \/ WorkerCrash(w) \/ WorkerStart(w)
      PROVE  runs' = runs
  BY <1>4 DEF SelectRuns, PollNothing, GetRun, LoadProducts, OnExecute, OutcomeDropped,
     WorkerCrash, WorkerStart, storeVars
<1>5. Kept
  BY <1>2, <1>3, <1>4 DEF WorkerNext, WorkerStep, CommitClaim, ClaimFails
<1>6. runProducts' = runProducts
  BY DEF WorkerNext, WorkerStep, SelectRuns, PollNothing, CommitClaim, ClaimFails, GetRun,
     LoadProducts, OnExecute, RecordOutcome, OutcomeDropped, EndJob, WorkerCrash, WorkerStart,
     storeVars
<1> QED
  BY <1>5, <1>6

LEMMA PersistStep ==
    ASSUME TypeInv, OwnerInv, PersistInv, [Next]_vars
    PROVE  PersistInv'
<1>0. StoreTypeOK /\ HandlerTypeOK
  BY DEF TypeInv, TypeOK
<1>1. ASSUME NEW r \in Requests,
             (\E shape \in Shapes : Accept(r, shape)) \/ HandlerStep(r) \/ HandlerFailure(r)
      PROVE  PersistInv'
  <2>1. Persisted(r)'
    BY <1>1, HandlerPersists DEF PersistInv
  <2>2. ASSUME NEW q \in Requests, q # r
        PROVE  Persisted(q)'
    <3>1. Persisted(q)
      BY DEF PersistInv
    <3> QED
      BY <1>1, <2>2, <3>1, HandlerFrame, PersistedFrame
  <2> QED
    BY <2>1, <2>2 DEF PersistInv
<1>2. CASE ApiCrash
  <2>1. ASSUME NEW r \in Requests
        PROVE  Persisted(r)'
    <3>1. UNCHANGED <<req, out, sum, runs, runProducts>>
      BY <1>2 DEF ApiCrash, storeVars
    <3>2. CASE r \in InFlight
      <4>1. pc'[r] = "done" /\ resp'[r] = "lost"
        BY <1>2, <3>2 DEF ApiCrash
      <4> QED
        BY <3>1, <4>1, PersistedDone DEF PersistInv
    <3>3. CASE r \notin InFlight
      <4>1. pc'[r] = pc[r] /\ resp'[r] = resp[r] /\ pc[r] \in {"idle", "done"}
        BY <1>2, <3>3 DEF ApiCrash, InFlight
      <4> QED
        BY <3>1, <4>1 DEF PersistInv, Persisted, Unborn
    <3> QED
      BY <3>2, <3>3
  <2> QED
    BY <2>1 DEF PersistInv
<1>3. CASE WorkerNext
  <2>1. UNCHANGED handlerVars
    BY <1>3 DEF WorkerNext
  <2> QED
    BY <1>3, <2>1, WorkerRuns, PersistedFrame DEF PersistInv, handlerVars
<1>4. CASE (Tick /\ UNCHANGED <<storeVars, handlerVars, workerVars, arrivals>>) \/ UNCHANGED vars
  BY <1>4, PersistedFrame DEF PersistInv, handlerVars, storeVars, vars
<1> QED
  BY <1>1, <1>2, <1>3, <1>4 DEF Next, ApiNext, Serve
-----------------------------------------------------------------------------
(* What the executor reads are rows of the run, all of them results of its *)
(* request.                                                                *)
LEMMA LoadStep ==
    ASSUME TypeInv, PersistInv, LoadInv, [Next]_vars
    PROVE  LoadInv'
<1>0. StoreTypeOK /\ HandlerTypeOK /\ WorkerTypeOK /\ JobInv
  BY DEF TypeInv, TypeOK
<1> DEFINE Read(w, row) == /\ job[w] # NoJob
                           /\ row.disp = "enqueued"
                           /\ \E i \in DOMAIN out[job[w]] : out[job[w]][i] = row
<1>1. ASSUME NEW w \in Workers, NEW row \in loaded[w], job'[w] = job[w]
      PROVE  Read(w, row)'
  <2>1. Read(w, row)
    BY DEF LoadInv
  <2>2. PICK j \in Requests : j = job[w]
    BY <1>0, <2>1 DEF WorkerTypeOK
  <2>3. PICK i \in DOMAIN out[j] : out[j][i] = row
    BY <2>1, <2>2
  <2>4. i \in DOMAIN out'[j] /\ out'[j][i] = row
    BY <2>3, OutGrows
  <2> QED
    BY <1>1, <2>1, <2>2, <2>4
<1>2. CASE UNCHANGED <<job, loaded>>
  BY <1>1, <1>2 DEF LoadInv
<1>3. ASSUME NEW v \in Workers, SelectRuns(v) \/ PollNothing(v) \/ CommitClaim(v) \/ ClaimFails(v)
                                \/ OnExecute(v) \/ WorkerStart(v)
      PROVE  LoadInv'
  BY <1>2, <1>3 DEF SelectRuns, PollNothing, CommitClaim, ClaimFails, OnExecute, WorkerStart,
     workerVars
<1>4. ASSUME NEW v \in Workers, GetRun(v)
      PROVE  LoadInv'
  <2>1. PICK r \in Requests : TakeJob(v, r)
    BY <1>4 DEF GetRun
  <2>2. loaded' = loaded /\ loaded[v] = {}
    <3>1. job[v] = NoJob
      BY <1>0, <2>1 DEF TakeJob, JobInv
    <3> QED
      BY <1>4, <3>1 DEF GetRun, LoadInv
  <2>3. \A w \in Workers \ {v} : job'[w] = job[w]
    BY <1>0, <2>1 DEF TakeJob, WorkerTypeOK
  <2> QED
    BY <1>1, <2>2, <2>3 DEF LoadInv
<1>5. ASSUME NEW v \in Workers, LoadProducts(v)
      PROVE  LoadInv'
  <2>1. job' = job /\ job[v] \in Requests /\ job[v] # NoJob
    BY <1>0, <1>5 DEF LoadProducts, JobInv, WorkerTypeOK
  <2>2. PICK j \in Requests : j = job[v]
    BY <2>1
  <2>3. ASSUME NEW row \in Enqueued(ListRunProducts(j, ProductLimit))
        PROVE  row.disp = "enqueued" /\ \E i \in DOMAIN out[j] : out[j][i] = row
    <3>1. row.disp = "enqueued" /\ row \in StoredRows(j)
      BY DEF Enqueued, ListRunProducts
    <3>2. PICK i \in DOMAIN runProducts[j] : runProducts[j][i] = row
      BY <3>1 DEF StoredRows
    <3>3. runProducts[j] \in Seq(Row) /\ out[j] \in Seq(Row)
      BY <1>0 DEF StoreTypeOK, HandlerTypeOK
    <3>4. i \in DOMAIN out[j] /\ out[j][i] = row
      BY <3>2, <3>3 DEF PersistInv, Persisted
    <3> QED
      BY <3>1, <3>4
  <2>4. /\ \A w \in Workers \ {v} : loaded'[w] = loaded[w]
        /\ \/ loaded'[v] = loaded[v]
           \/ loaded'[v] = Enqueued(ListRunProducts(j, ProductLimit))
    BY <1>0, <1>5, <2>2 DEF LoadProducts, WorkerTypeOK
  <2>5. ASSUME NEW row \in loaded'[v], loaded'[v] # loaded[v]
        PROVE  Read(v, row)'
    <3>1. row \in Enqueued(ListRunProducts(j, ProductLimit))
      BY <2>4, <2>5
    <3>2. PICK i \in DOMAIN out[j] : out[j][i] = row
      BY <2>3, <3>1
    <3>3. i \in DOMAIN out'[j] /\ out'[j][i] = row
      BY <3>2, OutGrows
    <3> QED
      BY <2>1, <2>2, <2>3, <3>1, <3>3
  <2> QED
    BY <1>1, <2>1, <2>4, <2>5 DEF LoadInv
<1>6. ASSUME NEW v \in Workers, RecordOutcome(v) \/ OutcomeDropped(v) \/ WorkerCrash(v)
      PROVE  LoadInv'
  <2>1. loaded' = [loaded EXCEPT ![v] = {}] /\ job' = [job EXCEPT ![v] = NoJob]
    BY <1>6 DEF RecordOutcome, OutcomeDropped, EndJob, WorkerCrash
  <2>2. loaded'[v] = {} /\ \A w \in Workers \ {v} : loaded'[w] = loaded[w] /\ job'[w] = job[w]
    BY <1>0, <2>1 DEF WorkerTypeOK
  <2> QED
    BY <1>1, <2>2 DEF LoadInv
<1>7. CASE ApiNext \/ (Tick /\ UNCHANGED <<storeVars, handlerVars, workerVars, arrivals>>) \/ UNCHANGED vars
  BY <1>2, <1>7 DEF ApiNext, Serve, workerVars, vars
<1> QED
  BY <1>3, <1>4, <1>5, <1>6, <1>7 DEF Next, WorkerNext, WorkerStep

(* Only OnExecute changes the channel, and it publishes what was loaded    *)
(* under the tenant of the run, which is that of the request.              *)
LEMMA ChannelStep ==
    ASSUME TypeInv, OwnerInv, PersistInv, LoadInv, ChannelBacked, [Next]_vars
    PROVE  ChannelBacked'
<1>0. StoreTypeOK /\ HandlerTypeOK /\ WorkerTypeOK /\ JobInv /\ ClaimInv
  BY DEF TypeInv, TypeOK, OwnerInv
<1> DEFINE Pushed(t, k, h) ==
             \E r \in Requests : pushes[r] > 0 /\ Classified(r, t, k, h, "enqueued")
<1>1. ASSUME NEW t, NEW k, NEW h, Pushed(t, k, h),
             \A r \in Requests : pushes'[r] >= pushes[r]
      PROVE  Pushed(t, k, h)'
  <2>1. PICK r \in Requests : pushes[r] > 0 /\ Classified(r, t, k, h, "enqueued")
    BY <1>1
  <2>2. Classified(r, t, k, h, "enqueued")'
    BY <2>1, ClassifiedStays
  <2>3. pushes'[r] > 0
    <3>1. pushes[r] \in Nat /\ pushes'[r] \in Nat
      BY <1>0, NextTypeInv DEF WorkerTypeOK, TypeInv, TypeOK
    <3> QED
      BY <1>1, <2>1, <3>1
  <2> QED
    BY <2>2, <2>3
<1>2. CASE UNCHANGED <<pushes, channel>>
  <2>1. ASSUME NEW t \in Tenants, NEW k \in Keys, NEW h, h = channel[t][k], h # NoHash
        PROVE  Pushed(t, k, h)'
    <3>1. Pushed(t, k, h)
      BY <2>1 DEF ChannelBacked
    <3>2. \A r \in Requests : pushes'[r] >= pushes[r]
      BY <1>0, <1>2 DEF WorkerTypeOK
    <3> QED
      BY <1>1, <3>1, <3>2
  <2> QED
    BY <1>2, <2>1 DEF ChannelBacked
<1>3. ASSUME NEW w \in Workers, OnExecute(w)
      PROVE  ChannelBacked'
  <2>1. PICK j \in Requests : j = job[w]
    BY <1>0, <1>3 DEF OnExecute, JobInv, WorkerTypeOK
  <2>2. runs[j].status = "processing" /\ j # NoJob
    BY <1>0, <2>1, WorkerAssumption DEF ClaimInv
  <2>3. runs[j].tenant = req[j].tenant
    BY <2>2 DEF PersistInv, Persisted
  <2>4. pushes' = [pushes EXCEPT ![j] = @ + 1]
    BY <1>3, <2>1 DEF OnExecute
  <2>5. pushes'[j] > 0 /\ \A r \in Requests : pushes'[r] >= pushes[r]
    BY <1>0, <2>4 DEF WorkerTypeOK
  <2>6. ASSUME NEW t \in Tenants, NEW k \in Keys, NEW h, h = channel'[t][k], h # NoHash
        PROVE  Pushed(t, k, h)'
    <3>1. CASE h = channel[t][k]
      BY <1>1, <2>5, <2>6, <3>1 DEF ChannelBacked
    <3>2. CASE h # channel[t][k]
      <4>1. channel' = Published(runs[j].tenant, loaded[w])
        BY <1>3, <2>1, <2>6, <3>2 DEF OnExecute
      <4>2. t = req[j].tenant /\ \E row \in loaded[w] : row.key = k
        BY <1>0, <2>3, <2>6, <3>2, <4>1 DEF Published, WorkerTypeOK
      <4>3. PICK row \in loaded[w] : row.key = k /\ row.hash = h
        <5>1. h = (CHOOSE row \in loaded[w] : row.key = k).hash
          BY <1>0, <2>3, <2>6, <4>1, <4>2 DEF Published, WorkerTypeOK
        <5> QED
          BY <4>2, <5>1
      <4>4. row \in Row /\ row.disp = "enqueued"
        BY <1>0, <4>3 DEF WorkerTypeOK, LoadInv
      <4>5. row = [key |-> k, hash |-> h, disp |-> "enqueued"]
        BY <4>3, <4>4 DEF Row
      <4>6. \E i \in DOMAIN out[j] : out[j][i] = row
        BY <2>1, <4>3 DEF LoadInv
      <4>7. Classified(j, t, k, h, "enqueued")
        BY <4>2, <4>5, <4>6 DEF Classified
      <4>8. Classified(j, t, k, h, "enqueued")'
        BY <4>7, ClassifiedStays
      <4> QED
        BY <2>5, <4>8
    <3> QED
      BY <3>1, <3>2
  <2> QED
    BY <2>6 DEF ChannelBacked
<1>4. ASSUME NEW w \in Workers,
             \/ SelectRuns(w) \/ PollNothing(w) \/ CommitClaim(w) \/ ClaimFails(w) \/ GetRun(w)
             \/ LoadProducts(w) \/ RecordOutcome(w) \/ OutcomeDropped(w) \/ WorkerCrash(w)
             \/ WorkerStart(w)
      PROVE  UNCHANGED <<pushes, channel>>
  BY <1>4 DEF SelectRuns, PollNothing, CommitClaim, ClaimFails, GetRun, LoadProducts,
     RecordOutcome, OutcomeDropped, EndJob, WorkerCrash, WorkerStart, workerVars
<1>5. CASE ApiNext \/ (Tick /\ UNCHANGED <<storeVars, handlerVars, workerVars, arrivals>>) \/ UNCHANGED vars
  BY <1>2, <1>5 DEF ApiNext, Serve, workerVars, vars
<1> QED
  BY <1>2, <1>3, <1>4, <1>5 DEF Next, WorkerNext, WorkerStep

LEMMA InitDataInv == Init => DataInv
<1> SUFFICES ASSUME Init PROVE DataInv
  OBVIOUS
<1> USE DEF Init, StoreInit, HandlerInit, WorkerInit
<1>1. CanonicalBacked /\ ChannelBacked
  BY DEF CanonicalBacked, ChannelBacked
<1>2. RowsBacked /\ LoadInv
  BY DEF RowsBacked, LoadInv
<1>3. PersistInv
  BY DEF PersistInv, Persisted, Unborn, NoRun, NoShape
<1> QED
  BY <1>1, <1>2, <1>3 DEF DataInv

LEMMA DataInvHolds == Spec => []DataInv
<1>1. Init => DataInv
  BY InitDataInv
<1>2. (TypeInv /\ OwnerInv) /\ DataInv /\ [Next]_vars => DataInv'
  BY BackedStep, PersistStep, LoadStep, ChannelStep DEF DataInv
<1>3. Spec => [](TypeInv /\ OwnerInv)
  BY OwnerInvHolds
<1> QED
  BY <1>1, <1>2, <1>3, PTL DEF Spec

(* The hash the store keeps for a product is always that of a content some *)
(* request of the tenant had classified as a change, although unchanged    *)
(* products are written too and long after they were looked up.            *)
THEOREM HashesComeFromChanges == Spec => []CanonicalBacked
<1>1. DataInv => CanonicalBacked
  BY DEF DataInv
<1> QED
  BY <1>1, DataInvHolds, PTL

(* A channel shows only what a request of that tenant had classified as a  *)
(* change and a worker executed.                                           *)
THEOREM ChannelsShowChanges == Spec => []ChannelBacked
<1>1. DataInv => ChannelBacked
  BY DEF DataInv
<1> QED
  BY <1>1, DataInvHolds, PTL

(* The answer 200 is given only for a run stored with all its products.    *)
THEOREM SuccessMeansStored == Spec => []SuccessPersisted
<1>1. TypeInv /\ OwnerInv /\ DataInv => SuccessPersisted
  <2> SUFFICES ASSUME TypeInv, DataInv, NEW r \in Requests, resp[r] = "ok"
               PROVE  /\ runs[r].status # "absent"
                      /\ runs[r].tenant = req[r].tenant
                      /\ runProducts[r] = out[r]
                      /\ Len(out[r]) = Len(req[r].items)
    BY DEF SuccessPersisted
  <2>1. Persisted(r)
    BY DEF DataInv, PersistInv
  <2>2. out[r] \in Seq(Row) /\ runProducts[r] \in Seq(Row)
    BY DEF TypeInv, TypeOK, StoreTypeOK, HandlerTypeOK
  <2>3. runProducts[r] = out[r]
    BY <2>1, <2>2 DEF Persisted
  <2> QED
    BY <2>1, <2>3 DEF Persisted
<1> QED
  BY <1>1, OwnerInvHolds, DataInvHolds, PTL
-----------------------------------------------------------------------------
(* The summary a handler has counted so far. *)
Counted(r) ==
    /\ sum[r].received = (IF req[r].kind = "json" THEN Len(req[r].items) ELSE Len(out[r]))
    /\ sum[r].valid + sum[r].rejected = Len(out[r])
    /\ sum[r].enqueued = CountOf(r, "enqueued")
    /\ sum[r].unchanged = CountOf(r, "unchanged")
    /\ sum[r].rejected = CountOf(r, "rejected")

CountInv == \A r \in Requests : Counted(r)

(* One more result adds one to the count of its disposition. *)
LEMMA CountAppend ==
    ASSUME NEW s \in Seq(Row), NEW row \in Row, NEW d \in Dispositions
    PROVE  LET Having(u) == Cardinality({i \in DOMAIN u : u[i].disp = d})
           IN  Having(Append(s, row)) = IF row.disp = d THEN Having(s) + 1 ELSE Having(s)
<1> DEFINE Old == {i \in DOMAIN s : s[i].disp = d}
           New == {i \in DOMAIN Append(s, row) : Append(s, row)[i].disp = d}
           n == Len(s) + 1
<1>1. IsFiniteSet(Old) /\ n \notin Old
  <2>1. IsFiniteSet(1..Len(s)) /\ Old \subseteq 1..Len(s)
    BY FS_Interval
  <2> QED
    BY <2>1, FS_Subset
<1>2. Cardinality(Old \cup {n}) = Cardinality(Old) + 1
  BY <1>1, FS_AddElement
<1>3. CASE row.disp = d
  <2>1. New = Old \cup {n}
    BY <1>3
  <2> QED
    BY <1>2, <1>3, <2>1
<1>4. CASE row.disp # d
  <2>1. New = Old
    BY <1>4
  <2> QED
    BY <1>4, <2>1
<1> QED
  BY <1>3, <1>4

LEMMA CountStep ==
    ASSUME TypeInv, CountInv, [Next]_vars
    PROVE  CountInv'
<1>0. StoreTypeOK /\ HandlerTypeOK /\ CursorInv
  BY DEF TypeInv, TypeOK
<1>1. ASSUME NEW r \in Requests, req'[r] = req[r], out'[r] = out[r], sum'[r] = sum[r]
      PROVE  Counted(r)'
  <2>1. ASSUME NEW d PROVE CountOf(r, d)' = CountOf(r, d)
    <3>1. {i \in DOMAIN out'[r] : out'[r][i].disp = d} = {i \in DOMAIN out[r] : out[r][i].disp = d}
      BY <1>1
    <3> QED
      BY <3>1 DEF CountOf
  <2> QED
    BY <1>1, <2>1 DEF CountInv, Counted
<1>2. CASE UNCHANGED <<req, out, sum>>
  BY <1>1, <1>2 DEF CountInv
<1>3. ASSUME NEW r \in Requests, NEW shape \in Shapes, Accept(r, shape)
      PROVE  CountInv'
  <2>1. /\ req'[r] = shape /\ out'[r] = <<>>
        /\ sum'[r] = EmptySummary(IF shape.kind = "json" THEN Len(shape.items) ELSE 0)
        /\ \A q \in Requests \ {r} : req'[q] = req[q] /\ out'[q] = out[q] /\ sum'[q] = sum[q]
    BY <1>0, <1>3 DEF Accept, HandlerTypeOK, CursorInv
  <2>2. ASSUME NEW d PROVE CountOf(r, d)' = 0
    <3>1. {i \in DOMAIN out'[r] : out'[r][i].disp = d} = {}
      BY <2>1
    <3> QED
      BY <3>1, FS_EmptySet DEF CountOf
  <2>3. Counted(r)'
    BY <2>1, <2>2 DEF Counted, EmptySummary
  <2> QED
    BY <1>1, <2>1, <2>3 DEF CountInv
<1>4. ASSUME NEW r \in Requests, ProcessItem(r)
      PROVE  CountInv'
  <2>1. PICK row \in Row :
          /\ out' = [out EXCEPT ![r] = Append(out[r], row)]
          /\ sum' = [sum EXCEPT ![r] = AddToSummary(sum[r], row, req[r].kind = "bulk")]
    BY <1>4, NewRow
  <2>2. req' = req /\ out[r] \in Seq(Row) /\ sum[r] \in Summary
    BY <1>0, <1>4 DEF ProcessItem, HandlerTypeOK
  <2>3. /\ out'[r] = Append(out[r], row)
        /\ sum'[r] = AddToSummary(sum[r], row, req[r].kind = "bulk")
        /\ \A q \in Requests \ {r} : out'[q] = out[q] /\ sum'[q] = sum[q]
    BY <1>0, <2>1 DEF HandlerTypeOK
  <2>4. ASSUME NEW d \in Dispositions PROVE CountOf(r, d)' = Bump(CountOf(r, d), row.disp = d)
    <3>1. PICK s \in Seq(Row) : s = out[r] /\ out'[r] = Append(s, row)
      BY <2>2, <2>3
    <3> DEFINE Having(u) == Cardinality({i \in DOMAIN u : u[i].disp = d})
    <3>2. Having(Append(s, row)) = IF row.disp = d THEN Having(s) + 1 ELSE Having(s)
      BY CountAppend, Zenon
    <3>3. CountOf(r, d)' = Having(Append(s, row)) /\ CountOf(r, d) = Having(s)
      BY <3>1, Zenon DEF CountOf
    <3> HIDE DEF Having
    <3> QED
      BY <3>2, <3>3 DEF Bump
  <2>5. req[r].kind \in {"json", "bulk"}
    BY <1>0, ShapesAssumption DEF HandlerTypeOK, Shape, NoShape
  <2>6. /\ sum'[r].received = Bump(sum[r].received, req[r].kind = "bulk")
        /\ sum'[r].valid = Bump(sum[r].valid, row.disp # "rejected")
        /\ sum'[r].rejected = Bump(sum[r].rejected, row.disp = "rejected")
        /\ sum'[r].unchanged = Bump(sum[r].unchanged, row.disp = "unchanged")
        /\ sum'[r].enqueued = Bump(sum[r].enqueued, row.disp = "enqueued")
    BY <2>2, <2>3 DEF AddToSummary, CountResult, Summary
  <2>7. Counted(r)
    BY DEF CountInv
  <2>8. Len(out'[r]) = Len(out[r]) + 1
    BY <2>2, <2>3
  <2>9. /\ sum'[r].enqueued = CountOf(r, "enqueued")'
        /\ sum'[r].unchanged = CountOf(r, "unchanged")'
        /\ sum'[r].rejected = CountOf(r, "rejected")'
    BY <2>4, <2>6, <2>7 DEF Counted, Dispositions
  <2>10. sum'[r].valid + sum'[r].rejected = Len(out'[r])
    <3>1. PICK a \in Nat, b \in Nat, n \in Nat :
            a = sum[r].valid /\ b = sum[r].rejected /\ n = Len(out[r])
      BY <2>2 DEF Summary
    <3>2. a + b = n /\ Len(out'[r]) = n + 1
      BY <2>7, <2>8, <3>1 DEF Counted
    <3>3. \/ sum'[r].valid = a /\ sum'[r].rejected = b + 1
          \/ sum'[r].valid = a + 1 /\ sum'[r].rejected = b
      BY <2>6, <3>1 DEF Bump
    <3>4. a + (b + 1) = n + 1 /\ (a + 1) + b = n + 1
      BY <3>2
    <3> QED
      BY <3>2, <3>3, <3>4
  <2>11. sum'[r].received = (IF req[r].kind = "json" THEN Len(req[r].items) ELSE Len(out'[r]))
    BY <2>5, <2>6, <2>7, <2>8 DEF Counted, Bump
  <2>12. Counted(r)'
    BY <2>2, <2>9, <2>10, <2>11 DEF Counted
  <2> QED
    BY <1>1, <2>2, <2>3, <2>12 DEF CountInv
<1>5. ASSUME NEW r \in Requests, HandlerStep(r) \/ HandlerFailure(r), ~ProcessItem(r)
      PROVE  UNCHANGED <<req, out, sum>>
  BY <1>5 DEF HandlerStep, HandlerFailure, UpsertLine, ScanFails, BeginPersist, PersistRow,
     BuildRun, InsertRun, InsertRow, Respond, LookupFails, UpsertFails, InsertRunFails,
     InsertRowFails
<1>6. CASE ApiCrash \/ WorkerNext \/ (Tick /\ UNCHANGED <<storeVars, handlerVars, workerVars, arrivals>>)
           \/ UNCHANGED vars
  BY <1>2, <1>6 DEF ApiCrash, WorkerNext, handlerVars, vars
<1> QED
  BY <1>2, <1>3, <1>4, <1>5, <1>6 DEF Next, ApiNext, Serve

(* The counters of every stored run agree with its products, for any body  *)
(* and in both handlers.                                                   *)
THEOREM SummariesAddUp == Spec => []SummaryAddsUp
<1>1. Init => CountInv
  <2> SUFFICES ASSUME Init, NEW r \in Requests PROVE Counted(r)
    BY DEF CountInv
  <2>1. out[r] = <<>> /\ req[r] = NoShape /\ sum[r] = EmptySummary(0)
    BY DEF Init, HandlerInit
  <2>2. ASSUME NEW d PROVE CountOf(r, d) = 0
    <3>1. {i \in DOMAIN out[r] : out[r][i].disp = d} = {}
      BY <2>1
    <3> QED
      BY <3>1, FS_EmptySet DEF CountOf
  <2> QED
    BY <2>1, <2>2 DEF Counted, EmptySummary, NoShape
<1>2. (TypeInv /\ OwnerInv) /\ CountInv /\ [Next]_vars => CountInv'
  BY CountStep
<1>3. DataInv /\ CountInv => SummaryAddsUp
  BY DEF DataInv, PersistInv, Persisted, CountInv, Counted, SummaryAddsUp
<1> QED
  BY <1>1, <1>2, <1>3, OwnerInvHolds, DataInvHolds, PTL DEF Spec
-----------------------------------------------------------------------------
(* The runs in the history are stored, and a run that will be pushed is    *)
(* stored as pending.                                                      *)
ArrivalInv ==
    /\ \A i \in DOMAIN arrivals : runs[arrivals[i]].status # "absent"
    /\ \A r \in Requests : pc[r] = "insert_run" /\ rec[r].push => rec[r].status = "has_changes"

(* What a claim's transaction selected has every pending run that precedes *)
(* one of its runs, until it commits: what is stored meanwhile precedes    *)
(* none of them.                                                           *)
BatchInv ==
    \A w \in Workers : wpc[w] = "claiming" =>
        \A q \in Claimable, r \in claims[w] : Precedes(q, r) => q \in claims[w]

OrderInv == ArrivalInv /\ BatchInv /\ OldestFirst
-----------------------------------------------------------------------------
(* A step of a handler stamps a run, inserts the run it has stamped, or    *)
(* leaves the runs alone.                                                  *)
LEMMA HandlerRuns ==
    ASSUME TypeInv, NEW r \in Requests,
           (\E shape \in Shapes : Accept(r, shape)) \/ HandlerStep(r) \/ HandlerFailure(r)
    PROVE  /\ pc[r] # "done"
           /\ pc[r] = "idle" => Cardinality(InFlight) < MaxInFlight
           /\ \/ runs' = runs /\ pc'[r] # "insert_run"
              \/ /\ runs' = runs
                 /\ pc[r] \in {"item", "persist"} /\ pc'[r] = "insert_run"
                 /\ rec'[r] = NewRunRecord(req[r].tenant, sum[r], clock)
              \/ /\ runs' = [runs EXCEPT ![r] = rec[r]]
                 /\ pc[r] = "insert_run" /\ pc'[r] # "insert_run"
<1> USE DEF storeVars, Goto, Answer
<1>0. pc \in [Requests -> PCs] /\ rec \in [Requests -> RunRecord]
  BY DEF TypeInv, TypeOK, HandlerTypeOK
<1>1. ASSUME NEW shape \in Shapes, Accept(r, shape)
      PROVE  /\ pc[r] = "idle" /\ Cardinality(InFlight) < MaxInFlight
             /\ runs' = runs /\ pc'[r] # "insert_run"
  BY <1>0, <1>1 DEF Accept
<1>2. CASE ProcessItem(r) \/ UpsertLine(r) \/ ScanFails(r)
  BY <1>0, <1>2 DEF ProcessItem, UpsertLine, ScanFails
<1>3. CASE BeginPersist(r) \/ PersistRow(r) \/ InsertRow(r) \/ Respond(r)
  BY <1>0, <1>3 DEF BeginPersist, PersistRow, InsertRow, Respond
<1>4. CASE LookupFails(r) \/ UpsertFails(r) \/ InsertRowFails(r)
  BY <1>0, <1>4 DEF LookupFails, UpsertFails, InsertRowFails
<1>5. CASE BuildRun(r)
  BY <1>0, <1>5 DEF BuildRun
<1>6. CASE InsertRun(r) \/ InsertRunFails(r)
  BY <1>0, <1>6 DEF InsertRun, InsertRunFails, InsertRunRow
<1> QED
  BY <1>1, <1>2, <1>3, <1>4, <1>5, <1>6 DEF HandlerStep, HandlerFailure

(* A worker changes no age, and takes a pending run only with the whole    *)
(* batch its transaction selected.                                         *)
LEMMA WorkerMarks ==
    ASSUME TypeInv, OwnerInv, WorkerNext
    PROVE  \A r \in Requests :
              /\ runs'[r].created = runs[r].created /\ runs'[r].push = runs[r].push
              /\ runs'[r].status = "absent" <=> runs[r].status = "absent"
              /\ runs'[r].status = "has_changes" => runs[r].status = "has_changes"
              /\ runs[r].status = "has_changes" /\ runs'[r].status # "has_changes" =>
                    \E w \in Workers :
                        /\ wpc[w] = "claiming" /\ r \in claims[w]
                        /\ \A q \in claims[w] : runs'[q].status # "has_changes"
<1>0. StoreTypeOK /\ WorkerTypeOK /\ JobInv /\ ClaimInv
  BY DEF TypeInv, TypeOK, OwnerInv
<1> DEFINE Kept == \A r \in Requests :
              /\ runs'[r].created = runs[r].created /\ runs'[r].push = runs[r].push
              /\ runs'[r].status = "absent" <=> runs[r].status = "absent"
              /\ runs'[r].status = "has_changes" => runs[r].status = "has_changes"
              /\ runs[r].status = "has_changes" /\ runs'[r].status # "has_changes" =>
                    \E w \in Workers :
                        /\ wpc[w] = "claiming" /\ r \in claims[w]
                        /\ \A q \in claims[w] : runs'[q].status # "has_changes"
<1>1. ASSUME NEW S, NEW s, runs' = WithStatus(runs, S, s)
      PROVE  \A r \in Requests :
                /\ runs'[r].created = runs[r].created /\ runs'[r].push = runs[r].push
                /\ runs'[r].status = IF r \in S THEN s ELSE runs[r].status
  BY <1>0, <1>1 DEF WithStatus, StoreTypeOK, RunRecord
<1>2. ASSUME NEW w \in Workers, wpc[w] = "claiming", MarkProcessing(w)
      PROVE  Kept
  <2>1. \A q \in claims[w] : q \in Requests /\ runs[q].status = "has_changes"
    BY <1>0, <1>2 DEF ClaimInv, Claimable
  <2>2. runs' = WithStatus(runs, claims[w], "processing")
    <3>1. claims[w] \cap {r \in Requests : runs[r].status = "has_changes"} = claims[w]
      BY <2>1
    <3> QED
      BY <1>2, <3>1 DEF MarkProcessing
  <2>3. \A r \in Requests :
                /\ runs'[r].created = runs[r].created /\ runs'[r].push = runs[r].push
                /\ runs'[r].status = IF r \in claims[w] THEN "processing" ELSE runs[r].status
    BY <1>1, <2>2
  <2> QED
    BY <1>2, <2>1, <2>3
<1>3. ASSUME NEW w \in Workers, RecordOutcome(w)
      PROVE  Kept
  <2>1. PICK j \in Requests : j = job[w] /\ runs[j].status = "processing"
    BY <1>0, <1>3 DEF RecordOutcome, JobInv, WorkerTypeOK, ClaimInv
  <2>2. PICK s \in {"completed", "failed"} : runs' = WithStatus(runs, {j}, s)
    BY <1>3, <2>1 DEF RecordOutcome, CompleteRun, FailRun
  <2>3. \A r \in Requests :
                /\ runs'[r].created = runs[r].created /\ runs'[r].push = runs[r].push
                /\ runs'[r].status = IF r \in {j} THEN s ELSE runs[r].status
    BY <1>1, <2>2
  <2> QED
    BY <2>1, <2>2, <2>3
<1>4. ASSUME NEW w \in Workers,
             \/ SelectRuns(w) \/ PollNothing(w) \/ GetRun(w) \/ LoadProducts(w) \/ OnExecute(w)
             \/ OutcomeDropped(w) \/ WorkerCrash(w) \/ WorkerStart(w)
      PROVE  runs' = runs
  BY <1>4 DEF SelectRuns, PollNothing, GetRun, LoadProducts, OnExecute, OutcomeDropped,
     WorkerCrash, WorkerStart, storeVars
<1>5. runs' = runs => Kept
  OBVIOUS
<1> HIDE DEF Kept
<1>6. Kept
  BY <1>2, <1>3, <1>4, <1>5 DEF WorkerNext, WorkerStep, CommitClaim, ClaimFails
<1> QED
  BY <1>6 DEF Kept

(* The runs in a transaction were selected by it, oldest first, or the     *)
(* transaction was there before.                                           *)
LEMMA WorkerSelects ==
    ASSUME TypeInv, WorkerNext, NEW w \in Workers, wpc'[w] = "claiming"
    PROVE  \/ wpc[w] = "claiming" /\ claims'[w] = claims[w]
           \/ claims'[w] \in ClaimBatches /\ runs' = runs
<1>0. wpc \in [Workers -> WPCs] /\ claims \in [Workers -> SUBSET Requests]
  BY DEF TypeInv, TypeOK, WorkerTypeOK
<1>1. PICK v \in Workers : \/ WorkerStep(v) \/ PollNothing(v)
                           \/ ClaimFails(v) \/ OutcomeDropped(v) \/ WorkerCrash(v)
  BY DEF WorkerNext
<1>2. CASE v # w
  <2>1. wpc'[w] = wpc[w] /\ claims'[w] = claims[w]
    BY <1>0, <1>1, <1>2 DEF WorkerStep, SelectRuns, PollNothing, CommitClaim, ClaimFails, GetRun,
       TakeJob, LoadProducts, OnExecute, RecordOutcome, OutcomeDropped, EndJob, WorkerCrash,
       WorkerStart, WGoto, workerVars
  <2> QED
    BY <2>1
<1>3. CASE v = w
  <2>1. CASE SelectRuns(w)
    BY <1>0, <2>1 DEF SelectRuns, storeVars
  <2>2. CASE PollNothing(w)
    BY <2>2 DEF PollNothing, workerVars
  <2>3. CASE \/ CommitClaim(w) \/ GetRun(w) \/ LoadProducts(w) \/ OnExecute(w) \/ RecordOutcome(w)
             \/ WorkerStart(w) \/ ClaimFails(w) \/ OutcomeDropped(w) \/ WorkerCrash(w)
    <3>1. wpc'[w] # "claiming"
      BY <1>0, <2>3 DEF CommitClaim, GetRun, LoadProducts, OnExecute, RecordOutcome, EndJob,
         WorkerStart, ClaimFails, OutcomeDropped, WorkerCrash, WGoto
    <3> QED
      BY <3>1
  <2> QED
    BY <1>1, <1>3, <2>1, <2>2, <2>3 DEF WorkerStep
<1> QED
  BY <1>2, <1>3
-----------------------------------------------------------------------------
LEMMA OrderInit == Init => OrderInv
<1> SUFFICES ASSUME Init PROVE OrderInv
  OBVIOUS
<1> USE DEF Init, StoreInit, HandlerInit, WorkerInit
<1>1. DOMAIN arrivals = {}
  OBVIOUS
<1>2. ArrivalInv
  BY <1>1 DEF ArrivalInv
<1>3. BatchInv /\ OldestFirst
  BY <1>1 DEF BatchInv, OldestFirst, Precedes
<1> QED
  BY <1>2, <1>3 DEF OrderInv

(* Ages are numbers. *)
LEMMA AgeType ==
    ASSUME TypeInv
    PROVE  \A r \in Requests : runs[r].created \in Nat /\ runs[r] \in RunRecord /\ rec[r] \in RunRecord
BY DEF TypeInv, TypeOK, StoreTypeOK, HandlerTypeOK, RunRecord

(* Runs, claims and jobs are left alone. *)
LEMMA OrderFrame ==
    ASSUME OrderInv, UNCHANGED <<runs, arrivals, wpc, claims, job>>,
           \A r \in Requests : pc'[r] = "insert_run" /\ rec'[r].push =>
              rec'[r].status = "has_changes"
    PROVE  OrderInv'
<1>1. ArrivalInv'
  BY DEF ArrivalInv, OrderInv
<1>2. \A q, r \in Requests : Precedes(q, r)' <=> Precedes(q, r)
  BY DEF Precedes
<1>3. BatchInv'
  <2> SUFFICES ASSUME NEW w \in Workers, wpc[w] = "claiming", NEW q \in Claimable, NEW r \in claims[w],
                      Precedes(q, r)
               PROVE  q \in claims[w]
    BY DEF BatchInv, Precedes, Claimable
  <2> QED
    BY DEF OrderInv, BatchInv
<1>4. OldestFirst'
  BY <1>2 DEF OldestFirst, OrderInv, Claimable, Held
<1> QED
  BY <1>1, <1>3, <1>4 DEF OrderInv

(* A step of a handler: what it stores comes last in the history. *)
LEMMA OrderHandler ==
    ASSUME TypeInv, OwnerInv, OrderInv, NEW r \in Requests,
           (\E shape \in Shapes : Accept(r, shape)) \/ HandlerStep(r) \/ HandlerFailure(r),
           runs' = runs => arrivals' = arrivals,
           arrivals' \in {arrivals, Append(arrivals, r)},
           UNCHANGED <<workerVars, clock>>
    PROVE  OrderInv'
<1>0. /\ runs \in [Requests -> RunRecord] /\ claims \in [Workers -> SUBSET Requests]
      /\ arrivals \in Seq(Requests) /\ BirthInv /\ ClaimInv
      /\ UNCHANGED <<wpc, claims, job>>
  BY DEF TypeInv, TypeOK, StoreTypeOK, WorkerTypeOK, OwnerInv, workerVars
<1>1. \A q \in Requests \ {r} : pc'[q] = pc[q] /\ rec'[q] = rec[q]
  BY HandlerFrame
<1>2. CASE runs' = runs /\ pc'[r] # "insert_run"
  BY <1>0, <1>1, <1>2, OrderFrame DEF OrderInv, ArrivalInv
<1>3. CASE /\ runs' = runs /\ pc'[r] = "insert_run"
           /\ rec'[r] = NewRunRecord(req[r].tenant, sum[r], clock)
  <2>1. rec'[r].push => rec'[r].status = "has_changes"
    <3>1. \A s : NewRunRecord(req[r].tenant, s, clock).push
                    => NewRunRecord(req[r].tenant, s, clock).status = "has_changes"
      BY DEF NewRunRecord, RunStatus, PushTriggered
    <3> QED
      BY <1>3, <3>1
  <2> QED
    BY <1>0, <1>1, <1>3, <2>1, OrderFrame DEF OrderInv, ArrivalInv
<1>4. CASE /\ runs' = [runs EXCEPT ![r] = rec[r]]
           /\ pc[r] = "insert_run" /\ pc'[r] # "insert_run"
  <2>1. /\ runs'[r] = rec[r] /\ \A q \in Requests \ {r} : runs'[q] = runs[q]
        /\ runs[r].status = "absent" /\ runs'[r].status # "absent"
        /\ runs'[r].push => r \in Claimable'
    BY <1>0, <1>4 DEF BirthInv, Unborn, OrderInv, ArrivalInv, Claimable
  <2>2. \A i \in DOMAIN arrivals : arrivals[i] \in Requests \ {r}
    BY <1>0, <2>1 DEF OrderInv, ArrivalInv
  <2>3. /\ DOMAIN arrivals = 1 .. Len(arrivals) /\ Len(arrivals) \in Nat
        /\ DOMAIN arrivals \subseteq DOMAIN arrivals'
        /\ \A i \in DOMAIN arrivals : arrivals'[i] = arrivals[i]
        /\ \A i \in DOMAIN arrivals' \ DOMAIN arrivals : i = Len(arrivals) + 1 /\ arrivals'[i] = r
        /\ DOMAIN arrivals' \subseteq 1 .. Len(arrivals) + 1
    BY <1>0
  <2>4. ArrivalInv'
    BY <1>1, <1>4, <2>1, <2>2, <2>3 DEF OrderInv, ArrivalInv
  <2>5. ASSUME NEW p \in Requests, NEW q \in Requests, Precedes(p, q)'
        PROVE  p # r /\ (q # r => Precedes(p, q))
    <3>1. PICK i \in DOMAIN arrivals', j \in DOMAIN arrivals' :
              i < j /\ arrivals'[i] = p /\ arrivals'[j] = q
      BY <2>5 DEF Precedes
    <3>2. i \in DOMAIN arrivals /\ p # r
      BY <2>2, <2>3, <3>1
    <3>3. CASE q # r
      <4>1. j \in DOMAIN arrivals
        BY <2>3, <3>1, <3>3
      <4>2. runs[p].created < runs[q].created
        BY <2>1, <2>5, <3>2, <3>3 DEF Precedes
      <4> QED
        BY <2>3, <3>1, <3>2, <4>1, <4>2 DEF Precedes
    <3> QED
      BY <3>2, <3>3
  <2>6. \A q \in Requests \ {r} : q \in Claimable' <=> q \in Claimable
    BY <2>1 DEF Claimable
  <2>7. \A w \in Workers : job[w] # r /\ (wpc[w] = "claiming" => r \notin claims[w])
    <3>1. NoJob # r
      BY WorkerAssumption
    <3> QED
      BY <1>0, <2>1, <3>1 DEF ClaimInv, Claimable
  <2>8. OldestFirst'
    <3> SUFFICES ASSUME NEW p \in Requests, NEW q \in Requests, Precedes(p, q)'
                 PROVE  /\ p \in Claimable' /\ runs'[q].push => q \in Claimable'
                        /\ \A w \in Workers : p \in Held(w)' => job'[w] # q
      BY DEF OldestFirst
    <3>1. \A w \in Workers : Held(w)' = Held(w)
      BY <1>0 DEF Held
    <3>2. CASE q = r
      BY <1>0, <2>1, <2>7, <3>2
    <3>3. CASE q # r
      BY <1>0, <2>1, <2>5, <2>6, <3>1, <3>3 DEF OrderInv, OldestFirst
    <3> QED
      BY <3>2, <3>3
  <2>9. BatchInv'
    <3> SUFFICES ASSUME NEW w \in Workers, wpc[w] = "claiming", NEW q \in Claimable',
                        NEW x \in claims[w], Precedes(q, x)'
                 PROVE  q \in claims[w]
      BY <1>0 DEF BatchInv
    <3>1. x \in Requests \ {r} /\ q \in Requests
      BY <1>0, <2>7 DEF Claimable
    <3>2. q \in Claimable /\ Precedes(q, x)
      BY <2>5, <2>6, <3>1
    <3> QED
      BY <3>2 DEF OrderInv, BatchInv
  <2> QED
    BY <2>4, <2>8, <2>9 DEF OrderInv
<1> QED
  BY <1>2, <1>3, <1>4, HandlerRuns

(* A worker takes the runs of its batch oldest first. *)
LEMMA WorkerTakes ==
    ASSUME TypeInv, OwnerInv, WorkerNext, NEW w \in Workers, NEW q \in Requests, NEW r \in Requests,
           q \in Held(w)', job'[w] = r
    PROVE  \/ q \in Held(w) /\ job[w] = r
           \/ runs[r].created <= runs[q].created
<1>0. /\ wpc \in [Workers -> WPCs] /\ claims \in [Workers -> SUBSET Requests]
      /\ job \in [Workers -> Requests \cup {NoJob}] /\ NoJob \notin Requests /\ JobInv
  BY WorkerAssumption DEF TypeInv, TypeOK, WorkerTypeOK
<1>1. PICK v \in Workers : \/ WorkerStep(v) \/ PollNothing(v)
                           \/ ClaimFails(v) \/ OutcomeDropped(v) \/ WorkerCrash(v)
  BY DEF WorkerNext
<1>2. CASE wpc'[w] = wpc[w] /\ claims'[w] = claims[w] /\ job'[w] = job[w]
  BY <1>2 DEF Held
<1>3. CASE v # w
  <2>1. wpc'[w] = wpc[w] /\ claims'[w] = claims[w] /\ job'[w] = job[w]
    BY <1>0, <1>1, <1>3 DEF WorkerStep, SelectRuns, PollNothing, CommitClaim, ClaimFails, GetRun,
       TakeJob, LoadProducts, OnExecute, RecordOutcome, OutcomeDropped, EndJob, WorkerCrash,
       WorkerStart, WGoto, workerVars
  <2> QED
    BY <1>2, <2>1
<1>4. CASE v = w
  <2>1. CASE PollNothing(w)
    BY <1>2, <2>1 DEF PollNothing, workerVars
  <2>2. CASE GetRun(w)
    <3>1. PICK x \in Requests : /\ x \in claims[w] /\ \A y \in claims[w] : runs[x].created <= runs[y].created
                                /\ job' = [job EXCEPT ![w] = x]
                                /\ claims' = [claims EXCEPT ![w] = @ \ {x}]
      BY <2>2 DEF GetRun, TakeJob, Oldest
    <3>2. x = r /\ claims'[w] \subseteq claims[w]
      BY <1>0, <3>1
    <3>3. q \in claims[w]
      BY <1>0, <3>1, <3>2 DEF Held
    <3> QED
      BY <3>1, <3>2, <3>3
  <2>3. CASE LoadProducts(w) \/ OnExecute(w)
    <3>1. wpc[w] # "claiming" /\ claims' = claims /\ job' = job
      BY <2>3 DEF LoadProducts, OnExecute
    <3> QED
      BY <3>1 DEF Held
  <2>4. CASE \/ SelectRuns(w) \/ CommitClaim(w) \/ ClaimFails(w) \/ WorkerStart(w)
    <3>1. wpc[w] \in {"idle", "claiming", "stopped"} /\ job' = job
      BY <2>4 DEF SelectRuns, CommitClaim, ClaimFails, WorkerStart
    <3>2. job[w] = NoJob
      BY <1>0, <3>1 DEF JobInv
    <3> QED
      BY <1>0, <3>1, <3>2
  <2>5. CASE RecordOutcome(w) \/ OutcomeDropped(w) \/ WorkerCrash(w)
    <3>1. job'[w] = NoJob
      BY <1>0, <2>5 DEF RecordOutcome, OutcomeDropped, EndJob, WorkerCrash
    <3> QED
      BY <1>0, <3>1
  <2> QED
    BY <1>1, <1>4, <2>1, <2>2, <2>3, <2>4, <2>5 DEF WorkerStep
<1> QED
  BY <1>3, <1>4

(* A step of a worker. *)
LEMMA OrderWorker ==
    ASSUME TypeInv, OwnerInv, OrderInv, WorkerNext
    PROVE  OrderInv'
<1>1. UNCHANGED <<pc, rec, arrivals>> /\ arrivals \in Seq(Requests)
  BY DEF WorkerNext, handlerVars, TypeInv, TypeOK
<1>2. ArrivalInv'
  BY <1>1, WorkerMarks DEF OrderInv, ArrivalInv
<1>3. \A q, r \in Requests : Precedes(q, r)' => Precedes(q, r)
  BY <1>1, WorkerMarks DEF Precedes
<1>4. \A q \in Requests : q \in Claimable' => q \in Claimable
  BY WorkerMarks DEF Claimable
<1>5. BatchInv'
  <2> SUFFICES ASSUME NEW w \in Workers, wpc'[w] = "claiming", NEW q \in Claimable', NEW r \in claims'[w],
                      Precedes(q, r)'
               PROVE  q \in claims'[w]
    BY DEF BatchInv
  <2>1. CASE wpc[w] = "claiming" /\ claims'[w] = claims[w]
    <3>1. r \in Requests /\ q \in Requests
      BY <2>1 DEF TypeInv, TypeOK, WorkerTypeOK, Claimable
    <3> QED
      BY <1>3, <1>4, <2>1, <3>1 DEF OrderInv, BatchInv
  <2>2. CASE claims'[w] \in ClaimBatches /\ runs' = runs
    <3>1. r \in Requests /\ q \in Claimable /\ q \in Requests
      BY <2>2 DEF ClaimBatches, Claimable
    <3>2. runs[q].created < runs[r].created
      BY <1>3, <3>1 DEF Precedes
    <3> QED
      BY <2>2, <3>1, <3>2, AgeType DEF ClaimBatches
  <2> QED
    BY <2>1, <2>2, WorkerSelects
<1>6. OldestFirst'
  <2> SUFFICES ASSUME NEW q \in Requests, NEW r \in Requests, Precedes(q, r)'
               PROVE  /\ q \in Claimable' /\ runs'[r].push => r \in Claimable'
                      /\ \A w \in Workers : q \in Held(w)' => job'[w] # r
    BY DEF OldestFirst
  <2>0. Precedes(q, r) /\ runs[q].created < runs[r].created
    BY <1>3 DEF Precedes
  <2>1. ASSUME q \in Claimable', runs'[r].push
        PROVE  r \in Claimable'
    <3>1. q \in Claimable /\ r \in Claimable /\ runs'[q].status = "has_changes"
      BY <1>4, <2>0, <2>1, WorkerMarks DEF OrderInv, OldestFirst, Claimable
    <3>2. CASE runs'[r].status # "has_changes"
      <4>1. PICK w \in Workers : /\ wpc[w] = "claiming" /\ r \in claims[w]
                                 /\ \A x \in claims[w] : runs'[x].status # "has_changes"
        BY <3>1, <3>2, WorkerMarks DEF Claimable
      <4>2. q \in claims[w]
        BY <2>0, <3>1, <4>1 DEF OrderInv, BatchInv
      <4> QED
        BY <3>1, <4>1, <4>2
    <3> QED
      BY <2>1, <3>2 DEF Claimable
  <2>2. ASSUME NEW w \in Workers, q \in Held(w)', job'[w] = r
        PROVE  FALSE
    BY <2>0, <2>2, WorkerTakes, AgeType DEF OrderInv, OldestFirst
  <2> QED
    BY <2>1, <2>2
<1> QED
  BY <1>2, <1>5, <1>6 DEF OrderInv

(* No run overtakes one that was stored before it in an earlier second,    *)
(* with any number of overlapping requests and workers: a transaction that *)
(* has a run has every pending run that precedes it, and keeps them to its *)
(* commit, because what is stored meanwhile precedes none of its runs.     *)
THEOREM ClaimsOldestFirst == Spec => []OldestFirst
<1>1. TypeInv /\ OwnerInv /\ OrderInv /\ [Next]_vars => OrderInv'
  <2> SUFFICES ASSUME TypeInv, OwnerInv, OrderInv, [Next]_vars PROVE OrderInv'
    OBVIOUS
  <2>1. ASSUME NEW r \in Requests, UNCHANGED <<workerVars, clock>>,
               \/ (\E shape \in Shapes : Accept(r, shape)) /\ UNCHANGED arrivals
               \/ Serve(r)
        PROVE  OrderInv'
    BY <2>1, OrderHandler DEF Serve, Arrive
  <2>2. CASE ApiNext /\ ApiCrash /\ UNCHANGED arrivals
    <3>1. /\ runs' = runs /\ UNCHANGED <<wpc, claims, job>>
          /\ \A r \in Requests : pc'[r] = IF r \in InFlight THEN "done" ELSE pc[r]
      BY <2>2 DEF ApiNext, ApiCrash, storeVars, workerVars
    <3>2. \A r \in Requests : pc'[r] # "insert_run"
      BY <3>1 DEF InFlight
    <3> QED
      BY <2>2, <3>1, <3>2, OrderFrame
  <2>3. CASE WorkerNext
    BY <2>3, OrderWorker
  <2>4. CASE (Tick /\ UNCHANGED <<storeVars, handlerVars, workerVars, arrivals>>) \/ UNCHANGED vars
    <3>1. UNCHANGED <<runs, wpc, claims, job, pc, rec, arrivals>>
      BY <2>4 DEF vars, storeVars, handlerVars, workerVars
    <3> QED
      BY <3>1, OrderFrame DEF OrderInv, ArrivalInv
  <2> QED
    BY <2>1, <2>2, <2>3, <2>4 DEF Next, ApiNext
<1>2. OrderInv => OldestFirst
  BY DEF OrderInv
<1> QED
  BY <1>1, <1>2, OrderInit, OwnerInvHolds, PTL DEF Spec
-----------------------------------------------------------------------------
(* No body is larger than what the executor reads of a run. *)
BodiesFit ==
    \A s \in Shapes : Len(s.items) <= ListCap /\ Len(s.items) <= ProductLimit

(* A run with no more rows than the limit is listed whole. *)
LEMMA ListsAll ==
    ASSUME TypeInv, NEW r \in Requests, NEW limit \in Nat,
           Len(runProducts[r]) <= ListCap, Len(runProducts[r]) <= limit
    PROVE  ListRunProducts(r, limit) = StoredRows(r)
<1> DEFINE n == Len(runProducts[r])
<1> DEFINE cut == IF limit > ListCap THEN ListCap ELSE limit
<1>1. runProducts[r] \in Seq(Row) /\ n \in Nat /\ DOMAIN runProducts[r] = 1 .. n
  BY DEF TypeInv, TypeOK, StoreTypeOK
<1>2. cut \in Nat /\ n <= cut
  BY StoreAssumption
<1>3. IsFiniteSet(StoredRows(r)) /\ Cardinality(StoredRows(r)) <= n
  <2> DEFINE f == [i \in 1 .. n |-> runProducts[r][i]]
  <2>1. IsFiniteSet(1 .. n) /\ Cardinality(1 .. n) = n
    BY <1>1, FS_Interval
  <2>2. f \in Surjection(1 .. n, StoredRows(r))
    <3>1. f \in [1 .. n -> StoredRows(r)]
      BY <1>1 DEF StoredRows
    <3>2. \A t \in StoredRows(r) : \E i \in 1 .. n : f[i] = t
      BY <1>1 DEF StoredRows
    <3> QED
      BY <3>1, <3>2 DEF Surjection
  <2> HIDE DEF f
  <2>3. IsFiniteSet(StoredRows(r)) /\ Cardinality(StoredRows(r)) <= Cardinality(1 .. n)
    BY <2>1, <2>2, FS_Surjection
  <2> QED
    BY <2>1, <2>3
<1>4. ASSUME NEW row \in StoredRows(r)
      PROVE  Cardinality({q \in StoredRows(r) : q.key < row.key}) < cut
  <2> DEFINE Less == {q \in StoredRows(r) : q.key < row.key}
  <2> DEFINE Others == StoredRows(r) \ {row}
  <2>1. row.key \in Nat
    <3>1. PICK i \in 1 .. n : row = runProducts[r][i]
      BY <1>1 DEF StoredRows
    <3>2. \A l \in Seq(Row) : \A k \in 1 .. Len(l) : l[k] \in Row
      OBVIOUS
    <3>3. row.key \in Keys \cup {NoKey}
      BY <1>1, <3>1, <3>2 DEF Row
    <3>4. \A k \in Keys \cup {NoKey} : k \in Nat
      BY KeysAssumption DEF NoKey
    <3> QED
      BY <3>3, <3>4, Zenon
  <2>2. Less \in SUBSET Others
    BY <2>1
  <2>3. IsFiniteSet(Others) /\ Cardinality(Others) = Cardinality(StoredRows(r)) - 1
    BY <1>3, FS_RemoveElement
  <2> HIDE DEF Less, Others
  <2>4. IsFiniteSet(Less) /\ Cardinality(Less) <= Cardinality(Others)
    BY <2>2, <2>3, FS_Subset
  <2>5. Cardinality(Less) \in Nat /\ Cardinality(StoredRows(r)) \in Nat
    BY <1>3, <2>4, FS_CardinalityType
  <2>6. Cardinality(Less) < cut
    BY <1>1, <1>2, <1>3, <2>3, <2>4, <2>5
  <2> QED
    BY <2>6 DEF Less
<1> QED
  BY <1>4 DEF ListRunProducts

(* Everything a successful request has enqueued is handed to OnExecute, as *)
(* long as the body is no larger than the executor's page and the hidden   *)
(* cap of the store.                                                       *)
THEOREM AnsweredRunsLoadWhole == BodiesFit => (Spec => LoadsWholeRun)
<1> SUFFICES ASSUME BodiesFit PROVE Spec => LoadsWholeRun
  OBVIOUS
<1> DEFINE Whole ==
        \A w \in Workers :
          (/\ wpc[w] = "list" /\ wpc'[w] = "execute"
           /\ resp[job[w]] = "ok")
          => loaded'[w] = Enqueued({out[job[w]][i] : i \in DOMAIN out[job[w]]})
<1>1. (TypeInv /\ OwnerInv) /\ DataInv /\ Next => Whole
  <2> SUFFICES ASSUME TypeInv, OwnerInv, DataInv, Next, NEW w \in Workers,
                      wpc[w] = "list", wpc'[w] = "execute", resp[job[w]] = "ok"
               PROVE  loaded'[w] = Enqueued({out[job[w]][i] : i \in DOMAIN out[job[w]]})
    OBVIOUS
  <2>0. /\ wpc \in [Workers -> WPCs] /\ loaded \in [Workers -> SUBSET Row]
        /\ job \in [Workers -> Requests \cup {NoJob}] /\ JobInv
    BY DEF TypeInv, TypeOK, WorkerTypeOK
  <2>1. PICK j \in Requests : j = job[w]
    BY <2>0 DEF JobInv
  <2>2. LoadProducts(w)
    <3>1. WorkerNext
      BY <2>0 DEF Next, ApiNext, Serve, workerVars
    <3>2. PICK v \in Workers : \/ WorkerStep(v) \/ PollNothing(v)
                               \/ ClaimFails(v) \/ OutcomeDropped(v) \/ WorkerCrash(v)
      BY <3>1 DEF WorkerNext
    <3>3. v = w
      BY <2>0, <3>2 DEF WorkerStep, SelectRuns, PollNothing, CommitClaim, ClaimFails, GetRun,
         TakeJob, LoadProducts, OnExecute, RecordOutcome, OutcomeDropped, EndJob, WorkerCrash,
         WorkerStart, WGoto, workerVars
    <3> QED
      BY <2>0, <3>2, <3>3 DEF WorkerStep, SelectRuns, PollNothing, CommitClaim, ClaimFails, GetRun,
         TakeJob, OnExecute, RecordOutcome, OutcomeDropped, EndJob, WorkerCrash,
         WorkerStart, WGoto, workerVars
  <2>3. loaded'[w] = Enqueued(ListRunProducts(j, ProductLimit))
    BY <2>0, <2>1, <2>2 DEF LoadProducts, WGoto
  <2>4. /\ Persisted(j) /\ out[j] \in Seq(Row) /\ runProducts[j] \in Seq(Row)
        /\ resp[j] = "ok"
    BY <2>1 DEF DataInv, PersistInv, TypeInv, TypeOK, HandlerTypeOK, StoreTypeOK
  <2>5. runProducts[j] = out[j] /\ Len(out[j]) = Len(req[j].items) /\ pc[j] = "done"
    BY <2>4 DEF Persisted
  <2>6. req[j] \in Shapes
    BY <2>5 DEF TypeInv, CursorInv
  <2>7. Len(runProducts[j]) <= ListCap /\ Len(runProducts[j]) <= ProductLimit
    BY <2>5, <2>6 DEF BodiesFit
  <2>8. ListRunProducts(j, ProductLimit) = StoredRows(j)
    BY <2>7, ListsAll, WorkerAssumption
  <2> QED
    BY <2>1, <2>3, <2>5, <2>8 DEF StoredRows
<1>2. (TypeInv /\ OwnerInv) /\ DataInv /\ [Next]_vars => [Whole]_vars
  BY <1>1
<1> QED
  BY <1>2, OwnerInvHolds, DataInvHolds, PTL DEF Spec, LoadsWholeRun
-----------------------------------------------------------------------------
(* Nothing goes wrong: Store calls succeed, the API process lives, bodies  *)
(* are read to their end, tenants exist and no body holds a key twice.     *)
Undisturbed ==
    /\ ~FaultsHappen /\ ~ApiMayCrash
    /\ \A s \in Shapes :
          /\ s.tenant \in TenantRows
          /\ s.body # "cut"
          /\ \A i, j \in DOMAIN s.items : s.items[i].key = s.items[j].key => i = j

(* A result has its item's key, and a hash unless it is rejected. *)
ResultOf(row, item) == row.key = item.key /\ (row.disp # "rejected" => row.hash # NoHash)

(* The results are those of the items, one after the other. *)
ResultsInv ==
    \A r \in Requests : \A i \in 1 .. Len(out[r]) : ResultOf(out[r][i], req[r].items[i])

(* A request that is over without success had no results. *)
NoneFails == \A r \in Requests : pc[r] = "done" => resp[r] = "ok" \/ out[r] = <<>>

(* A run is pushed when it has changes. *)
PushesInv ==
    \A r \in Requests :
        /\ pc[r] = "insert_run" => (rec[r].push <=> rec[r].sum.enqueued > 0)
        /\ runs[r].status # "absent" => (runs[r].push <=> runs[r].sum.enqueued > 0)

SmoothInv == ResultsInv /\ NoneFails /\ PushesInv

LEMMA ResultsStep ==
    ASSUME TypeInv, PersistInv, ResultsInv, [Next]_vars
    PROVE  ResultsInv'
<1>0. HandlerTypeOK /\ CursorInv
  BY DEF TypeInv, TypeOK
<1>1. ASSUME NEW r \in Requests, ProcessItem(r)
      PROVE  ResultsInv'
  <2> DEFINE item == req[r].items[cur[r]]
  <2> DEFINE row == ProcessProduct(item, PreviousHash(req[r].tenant, item))
  <2>1. ResultOf(row, item)
    <3>1. item \in Item
      BY <1>0, <1>1, ItemFacts DEF ProcessItem, CursorInv, HandlerTypeOK
    <3> QED
      BY <3>1, SentinelAssumption DEF ProcessProduct, ResultOf, Item
  <2>2. out' = [out EXCEPT ![r] = Append(out[r], row)] /\ req' = req
    BY <1>1 DEF ProcessItem
  <2>3. out[r] \in Seq(Row) /\ cur[r] = Len(out[r]) + 1 /\ row \in Row
    <3>1. row \in Row
      <4>1. /\ req[r] \in Shapes /\ cur[r] \in Nat \ {0} /\ cur[r] <= Len(req[r].items)
        BY <1>0, <1>1 DEF ProcessItem, CursorInv, HandlerTypeOK
      <4>2. req[r].tenant \in Tenants /\ item \in Item /\ (item.valid => item.key \in Keys)
        BY <4>1, ItemFacts
      <4>3. PreviousHash(req[r].tenant, item) \in Hashes \cup {NoHash}
        BY <4>2 DEF PreviousHash, GetProductHash, StoreTypeOK, TypeInv, TypeOK
      <4> QED
        BY <4>2, <4>3, ProcessProductType
    <3> QED
      BY <1>0, <1>1, <3>1 DEF ProcessItem, CursorInv, HandlerTypeOK
  <2> HIDE DEF row
  <2>4. ASSUME NEW q \in Requests, NEW i \in 1 .. Len(out'[q])
        PROVE  ResultOf(out'[q][i], req[q].items[i])
    <3>1. CASE q # r
      <4>1. out'[q] = out[q]
        BY <1>0, <2>2, <3>1 DEF HandlerTypeOK
      <4> QED
        BY <4>1 DEF ResultsInv
    <3>2. CASE q = r
      <4>1. out'[q] = Append(out[r], row)
        BY <1>0, <2>2, <3>2 DEF HandlerTypeOK
      <4>2. Len(Append(out[r], row)) = Len(out[r]) + 1
        BY <2>3
      <4>3. CASE i = Len(out[r]) + 1
        <5>1. Append(out[r], row)[i] = row
          BY <2>3, <4>3
        <5> QED
          BY <2>1, <2>3, <3>2, <4>1, <4>3, <5>1
      <4>4. CASE i \in 1 .. Len(out[r])
        <5>1. Append(out[r], row)[i] = out[r][i]
          BY <2>3, <4>4
        <5> QED
          BY <3>2, <4>1, <4>4, <5>1 DEF ResultsInv
      <4> QED
        BY <2>3, <4>1, <4>2, <4>3, <4>4
    <3> QED
      BY <3>1, <3>2
  <2> QED
    BY <2>2, <2>4 DEF ResultsInv
<1>2. ASSUME NEW r \in Requests, NEW shape \in Shapes, Accept(r, shape)
      PROVE  ResultsInv'
  <2>1. out' = out /\ out[r] = <<>> /\ \A q \in Requests \ {r} : req'[q] = req[q]
    BY <1>0, <1>2 DEF Accept, CursorInv, HandlerTypeOK
  <2>2. Len(<<>>) = 0
    OBVIOUS
  <2> QED
    BY <2>1, <2>2 DEF ResultsInv
<1>3. ASSUME out' = out, req' = req PROVE ResultsInv'
  BY <1>3 DEF ResultsInv
<1>4. ASSUME NEW r \in Requests, HandlerFailure(r) \/ (HandlerStep(r) /\ ~ProcessItem(r))
      PROVE  out' = out /\ req' = req
  BY <1>4 DEF HandlerStep, HandlerFailure, UpsertLine, ScanFails, BeginPersist, PersistRow,
     BuildRun, InsertRun, InsertRow, Respond, LookupFails, UpsertFails, InsertRunFails,
     InsertRowFails
<1>5. CASE ApiCrash \/ WorkerNext \/ (Tick /\ UNCHANGED <<storeVars, handlerVars, workerVars, arrivals>>)
           \/ UNCHANGED vars
  BY <1>3, <1>5 DEF ApiCrash, WorkerNext, handlerVars, vars
<1> QED
  BY <1>1, <1>2, <1>3, <1>4, <1>5 DEF Next, ApiNext, Serve

LEMMA PushesStep ==
    ASSUME TypeInv, OwnerInv, PushesInv, [Next]_vars
    PROVE  PushesInv'
<1>0. /\ runs \in [Requests -> RunRecord] /\ pc \in [Requests -> PCs]
      /\ rec \in [Requests -> RunRecord]
  BY DEF TypeInv, TypeOK, StoreTypeOK, HandlerTypeOK
<1>1. ASSUME NEW r \in Requests,
             (\E shape \in Shapes : Accept(r, shape)) \/ HandlerStep(r) \/ HandlerFailure(r)
      PROVE  PushesInv'
  <2>1. \A q \in Requests \ {r} : pc'[q] = pc[q] /\ rec'[q] = rec[q] /\ runs'[q] = runs[q]
    BY <1>1, HandlerFrame
  <2>2. CASE runs' = runs /\ pc'[r] # "insert_run"
    BY <2>1, <2>2 DEF PushesInv
  <2>3. CASE /\ runs' = runs /\ pc'[r] = "insert_run"
             /\ rec'[r] = NewRunRecord(req[r].tenant, sum[r], clock)
    <3>1. \A t, s, now : NewRunRecord(t, s, now).push <=> NewRunRecord(t, s, now).sum.enqueued > 0
      BY DEF NewRunRecord, PushTriggered
    <3>2. rec'[r].push <=> rec'[r].sum.enqueued > 0
      BY <2>3, <3>1, Zenon
    <3> QED
      BY <2>1, <2>3, <3>2 DEF PushesInv
  <2>4. CASE /\ runs' = [runs EXCEPT ![r] = rec[r]]
             /\ pc[r] = "insert_run" /\ pc'[r] # "insert_run"
    <3>1. runs'[r] = rec[r]
      BY <1>0, <2>4
    <3> QED
      BY <2>1, <2>4, <3>1 DEF PushesInv
  <2> QED
    BY <1>1, <2>2, <2>3, <2>4, HandlerRuns
<1>2. CASE ApiCrash
  BY <1>2 DEF ApiCrash, storeVars, PushesInv, InFlight
<1>3. CASE WorkerNext
  <2>1. UNCHANGED <<pc, rec>>
    BY <1>3 DEF WorkerNext, handlerVars
  <2>2. \A r \in Requests :
            /\ runs[r].status = "absent" <=> runs'[r].status = "absent"
            /\ runs'[r].push = runs[r].push /\ runs'[r].sum = runs[r].sum
    BY <1>3, WorkerMarks, WorkerRuns
  <2> QED
    BY <2>1, <2>2 DEF PushesInv
<1>4. CASE (Tick /\ UNCHANGED <<storeVars, handlerVars, workerVars, arrivals>>) \/ UNCHANGED vars
  BY <1>4 DEF PushesInv, storeVars, handlerVars, vars
<1> QED
  BY <1>1, <1>2, <1>3, <1>4 DEF Next, ApiNext, Serve

(* Undisturbed, a request with results is answered with success. *)
LEMMA SmoothStep ==
    ASSUME Undisturbed, TypeInv, PersistInv, ResultsInv, NoneFails, [Next]_vars
    PROVE  NoneFails'
<1>0. HandlerTypeOK /\ CursorInv
  BY DEF TypeInv, TypeOK
<1>1. ASSUME NEW r \in Requests,
             (\E shape \in Shapes : Accept(r, shape)) \/ HandlerStep(r) \/ HandlerFailure(r)
      PROVE  NoneFails'
  <2>1. \A q \in Requests \ {r} : pc'[q] = pc[q] /\ resp'[q] = resp[q] /\ out'[q] = out[q]
    BY <1>1, HandlerFrame
  <2> SUFFICES pc'[r] = "done" => resp'[r] = "ok" \/ out'[r] = <<>>
    BY <2>1 DEF NoneFails
  <2>2. pc[r] # "idle" => req[r] \in Shapes
    BY <1>0 DEF CursorInv
  <2>3. CASE \E shape \in Shapes : Accept(r, shape)
    BY <1>0, <2>3 DEF Accept, CursorInv
  <2>4. CASE HandlerStep(r)
    <3>1. CASE Respond(r)
      BY <1>0, <3>1 DEF Respond, Answer, HandlerTypeOK
    <3>2. ~ScanFails(r)
      BY <2>2 DEF ScanFails, Undisturbed
    <3>3. CASE HandlerStep(r) /\ ~Respond(r) /\ ~ScanFails(r)
      <4>1. pc'[r] # "done"
        BY <1>0, <3>3 DEF HandlerStep, ProcessItem, UpsertLine, BeginPersist, PersistRow,
           BuildRun, InsertRun, InsertRow, Goto, HandlerTypeOK
      <4> QED
        BY <4>1
    <3> QED
      BY <2>4, <3>1, <3>2, <3>3
  <2>5. CASE HandlerFailure(r)
    <3>1. ~LookupFails(r) /\ ~UpsertFails(r)
      BY DEF LookupFails, UpsertFails, Undisturbed
    <3>2. ~InsertRunFails(r)
      BY <2>2 DEF InsertRunFails, TenantExists, Undisturbed
    <3>3. ~InsertRowFails(r)
      <4> SUFFICES ASSUME InsertRowFails(r) PROVE FALSE
        OBVIOUS
      <4>1. /\ pc[r] = "insert_rows" /\ cur[r] <= Len(out[r])
            /\ DuplicateRow(r, out[r][cur[r]])
        BY DEF InsertRowFails, Undisturbed
      <4>2. /\ req[r] \in Shapes /\ Persisted(r) /\ cur[r] \in Nat \ {0}
            /\ out[r] \in Seq(Row) /\ runProducts[r] \in Seq(Row)
        BY <1>0, <2>2, <4>1
           DEF PersistInv, HandlerTypeOK, TypeInv, TypeOK, StoreTypeOK
      <4>3. PICK c \in Nat, n \in Nat, m \in Nat :
                c = cur[r] /\ n = Len(runProducts[r]) /\ m = Len(out[r])
        BY <4>2
      <4>4. /\ c = n + 1 /\ c <= m /\ n <= m /\ m = Len(req[r].items)
            /\ \A i \in 1 .. n : runProducts[r][i] = out[r][i]
        BY <4>1, <4>2, <4>3 DEF Persisted
      <4>5. PICK i \in 1 .. n : runProducts[r][i].key = out[r][c].key
        BY <4>1, <4>2, <4>3 DEF DuplicateRow
      <4>6. /\ i \in 1 .. m /\ c \in 1 .. m /\ i # c
        BY <4>4
      <4>7. req[r].items[i].key = req[r].items[c].key
        BY <4>3, <4>4, <4>5, <4>6 DEF ResultsInv, ResultOf
      <4>8. DOMAIN req[r].items = 1 .. m
        <5>1. req[r].items \in Seq(Item)
          BY <4>2, ShapesAssumption DEF Shape
        <5> QED
          BY <4>4, <5>1
      <4> QED
        BY <4>2, <4>6, <4>7, <4>8 DEF Undisturbed
    <3> QED
      BY <2>5, <3>1, <3>2, <3>3 DEF HandlerFailure
  <2> QED
    BY <1>1, <2>3, <2>4, <2>5
<1>2. ~ApiCrash
  BY DEF ApiCrash, Undisturbed
<1>3. CASE WorkerNext \/ (Tick /\ UNCHANGED <<storeVars, handlerVars, workerVars, arrivals>>)
           \/ UNCHANGED vars
  BY <1>3 DEF WorkerNext, NoneFails, handlerVars, vars
<1> QED
  BY <1>1, <1>2, <1>3 DEF Next, ApiNext, Serve

(* Undisturbed, a product is answered 'unchanged' only when its content is *)
(* scheduled or about to be: the hash that was read was written by a       *)
(* handler that goes on to store its run and its rows.                     *)
THEOREM UnchangedIsScheduled == Undisturbed => (Spec => []UnchangedWasScheduled)
<1> SUFFICES ASSUME Undisturbed PROVE Spec => []UnchangedWasScheduled
  OBVIOUS
<1>1. Init => SmoothInv
  <2> SUFFICES ASSUME Init PROVE SmoothInv
    OBVIOUS
  <2> USE DEF Init, StoreInit, HandlerInit
  <2>1. Len(<<>>) = 0
    OBVIOUS
  <2>2. ResultsInv /\ NoneFails
    BY <2>1 DEF ResultsInv, NoneFails
  <2>3. PushesInv
    BY DEF PushesInv, NoRun
  <2> QED
    BY <2>2, <2>3 DEF SmoothInv
<1>2. (TypeInv /\ OwnerInv) /\ DataInv /\ SmoothInv /\ [Next]_vars => SmoothInv'
  BY ResultsStep, PushesStep, SmoothStep DEF SmoothInv, DataInv
<1>3. (TypeInv /\ OwnerInv) /\ DataInv /\ SummaryAddsUp /\ SmoothInv => UnchangedWasScheduled
  <2> SUFFICES ASSUME TypeInv, DataInv, SummaryAddsUp, SmoothInv,
                      NEW r \in Requests, resp[r] = "ok", NEW i \in DOMAIN out[r],
                      out[r][i].disp = "unchanged"
               PROVE  \E q \in Requests :
                /\ Classified(q, req[r].tenant, out[r][i].key, out[r][i].hash, "enqueued")
                /\ \/ q \in InFlight
                   \/ runs[q].push /\ [out[r][i] EXCEPT !.disp = "enqueued"] \in StoredRows(q)
    BY DEF UnchangedWasScheduled
  <2>0. \A q \in Requests : /\ out[q] \in Seq(Row) /\ DOMAIN out[q] = 1 .. Len(out[q])
                            /\ runProducts[q] \in Seq(Row)
    BY DEF TypeInv, TypeOK, StoreTypeOK, HandlerTypeOK
  <2>1. PICK row \in Row : row = out[r][i] /\ row.disp = "unchanged" /\ row.hash # NoHash
    <3>1. out[r][i] \in Row
      BY <2>0
    <3>2. ResultOf(out[r][i], req[r].items[i])
      BY <2>0 DEF SmoothInv, ResultsInv
    <3> QED
      BY <3>1, <3>2 DEF ResultOf
  <2>2. PICK q \in Requests : Classified(q, req[r].tenant, row.key, row.hash, "enqueued")
    BY <2>1 DEF DataInv, RowsBacked, Backed
  <2>3. SUFFICES ASSUME q \notin InFlight
                 PROVE  runs[q].push /\ [row EXCEPT !.disp = "enqueued"] \in StoredRows(q)
    BY <2>1, <2>2
  <2> DEFINE new == [key |-> row.key, hash |-> row.hash, disp |-> "enqueued"]
  <2>4. [row EXCEPT !.disp = "enqueued"] = new
    BY DEF Row
  <2>5. PICK j \in DOMAIN out[q] : out[q][j] = new
    BY <2>2 DEF Classified
  <2>6. resp[q] = "ok"
    <3>1. out[q] # <<>>
      BY <2>5
    <3>2. pc[q] # "idle"
      BY <3>1 DEF TypeInv, CursorInv
    <3> QED
      BY <2>3, <3>1, <3>2 DEF InFlight, SmoothInv, NoneFails
  <2>7. /\ runs[q].status # "absent" /\ Len(runProducts[q]) = Len(out[q])
        /\ \A k \in 1 .. Len(out[q]) : runProducts[q][k] = out[q][k]
    BY <2>6 DEF DataInv, PersistInv, Persisted
  <2>8. new \in StoredRows(q)
    <3>1. j \in 1 .. Len(out[q]) /\ DOMAIN runProducts[q] = 1 .. Len(out[q])
      BY <2>0, <2>7
    <3> QED
      BY <2>5, <2>7, <3>1 DEF StoredRows
  <2>9. CountOf(q, "enqueued") > 0
    <3> DEFINE S == {k \in DOMAIN out[q] : out[q][k].disp = "enqueued"}
    <3>1. j \in S
      BY <2>5
    <3>2. IsFiniteSet(1 .. Len(out[q])) /\ S \in SUBSET (1 .. Len(out[q]))
      <4>1. Len(out[q]) \in Nat
        BY <2>0
      <4>2. IsFiniteSet(1 .. Len(out[q]))
        BY <4>1, FS_Interval
      <4> QED
        BY <2>0, <4>2
    <3> HIDE DEF S
    <3>3. IsFiniteSet(S)
      BY <3>2, FS_Subset
    <3>4. Cardinality(S) \in Nat /\ Cardinality(S) # 0
      BY <3>1, <3>3, FS_CardinalityType, FS_EmptySet
    <3>5. Cardinality(S) > 0
      BY <3>4
    <3> QED
      BY <3>5 DEF CountOf, S
  <2>10. runs[q].push
    BY <2>7, <2>9 DEF SummaryAddsUp, SmoothInv, PushesInv
  <2> QED
    BY <2>4, <2>8, <2>10
<1> QED
  BY <1>1, <1>2, <1>3, OwnerInvHolds, DataInvHolds, SummariesAddUp, PTL DEF Spec
=============================================================================
