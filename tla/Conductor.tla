----------------------------- MODULE Conductor -----------------------------
(***************************************************************************)
(* The whole pipeline: clients send upsert requests to the API service,    *)
(* which records hashes, runs and run products in the shared tables, and   *)
(* the worker processes claim the runs and push their products.  Steps of  *)
(* different requests and of different workers interleave at every         *)
(* statement.                                                              *)
(***************************************************************************)
EXTENDS UpsertHandlers, Worker

VARIABLE arrivals  \* history: the runs, in the order they were stored

vars == <<storeVars, clock, handlerVars, workerVars, arrivals>>

Init == StoreInit /\ HandlerInit /\ WorkerInit /\ arrivals = <<>>

(* A handler changes the row of its run only by storing it. *)
Arrive(r) ==
    arrivals' = IF runs'[r] = runs[r] THEN arrivals ELSE Append(arrivals, r)

Serve(r) == (HandlerStep(r) \/ HandlerFailure(r)) /\ Arrive(r)

ApiNext ==
    /\ \/ \E r \in Requests :
            \/ (\E shape \in Shapes : Accept(r, shape)) /\ UNCHANGED arrivals
            \/ Serve(r)
       \/ ApiCrash /\ UNCHANGED arrivals
    /\ UNCHANGED <<workerVars, clock>>

WorkerNext ==
    /\ \E w \in Workers :
          \/ WorkerStep(w) \/ PollNothing(w)
          \/ ClaimFails(w) \/ OutcomeDropped(w) \/ WorkerCrash(w)
    /\ UNCHANGED <<handlerVars, clock, arrivals>>

Next ==
    \/ ApiNext
    \/ WorkerNext
    \/ Tick /\ UNCHANGED <<storeVars, handlerVars, workerVars, arrivals>>

Spec == Init /\ [][Next]_vars

(* The Go scheduler and the database serve every goroutine and connection, *)
(* the ticker keeps firing and the platform restarts a worker.  Clients    *)
(* need not send anything, and nothing has to fail.                        *)
Fairness ==
    /\ \A r \in Requests : WF_vars(Serve(r) /\ UNCHANGED <<workerVars, clock>>)
    /\ \A w \in Workers : WF_vars(WorkerStep(w) /\ UNCHANGED <<handlerVars, clock, arrivals>>)

FairSpec == Spec /\ Fairness
-----------------------------------------------------------------------------
(* Every variable holds values of the type its Go or SQL counterpart has;  *)
(* in particular a worker never holds a row that is not a product result.  *)
TypeOK == StoreTypeOK /\ HandlerTypeOK /\ WorkerTypeOK /\ arrivals \in Seq(Requests)

(* The runs worker w has claimed in a committed transaction and not        *)
(* resolved.                                                               *)
Held(w) ==
    IF wpc[w] = "claiming" THEN {}
    ELSE claims[w] \cup ({job[w]} \ {NoJob})

(* ClaimRuns' FOR UPDATE and its UPDATE keep two workers apart: no run is  *)
(* in the hands of two of them, neither inside the claim's transaction nor *)
(* after it, and a run a worker holds is marked 'processing'.              *)
SingleOwner ==
    /\ \A v, w \in Workers : v # w =>
          /\ Held(v) \cap Held(w) = {}
          /\ wpc[v] = "claiming" => claims[v] \cap (claims[w] \cup Held(w)) = {}
    /\ \A w \in Workers : \A r \in Held(w) : runs[r].status = "processing"

(* Run q was stored before run r and in an earlier second: so it is when a *)
(* client sends the second request after the answer to the first, and a    *)
(* second has passed.                                                      *)
Precedes(q, r) ==
    /\ runs[q].created < runs[r].created
    /\ \E i, j \in DOMAIN arrivals : i < j /\ arrivals[i] = q /\ arrivals[j] = r

(* A run does not overtake one that precedes it, whichever worker claims   *)
(* them, whatever the worker dies of and whatever is stored between its    *)
(* SELECT and its commit: while the first is pending the second is not     *)
(* claimed, and a worker that has claimed both executes them in order.     *)
(* Two workers that have one each may push them in either order.           *)
OldestFirst ==
    \A q, r \in Requests : Precedes(q, r) =>
        /\ q \in Claimable /\ runs[r].push => r \in Claimable
        /\ \A w \in Workers : q \in Held(w) => job[w] # r

(* OnExecute is called at most once for a run, whatever crashes, restarts  *)
(* and failing Store calls come in between.                                *)
AtMostOnce == \A r \in Requests : pushes[r] <= 1

(* Row (k, h, disposition) is among the results of a request of tenant t.  *)
Classified(r, t, k, h, disp) ==
    /\ req[r].tenant = t
    /\ \E i \in DOMAIN out[r] : out[r][i] = [key |-> k, hash |-> h, disp |-> disp]

(* What a channel shows for a tenant's product was classified 'enqueued'   *)
(* by a request of that very tenant, whose run was executed: nothing       *)
(* rejected or unchanged is published, and no other tenant's product.      *)
ChannelBacked ==
    \A t \in Tenants, k \in Keys : channel[t][k] # NoHash =>
        \E r \in Requests : pushes[r] > 0 /\ Classified(r, t, k, channel[t][k], "enqueued")

(* A canonical hash was classified 'enqueued' by some request of the       *)
(* tenant, although handlers also write the hash of unchanged products and *)
(* read it long before they write it.                                      *)
CanonicalBacked ==
    \A t \in Tenants, k \in Keys : productHash[t][k] # NoHash =>
        \E r \in Requests : Classified(r, t, k, productHash[t][k], "enqueued")

(* A 200 answer means that persistence succeeded: the run is stored, every *)
(* product of the body has its run_products row, and the rows say what the *)
(* answer says.                                                            *)
SuccessPersisted ==
    \A r \in Requests : resp[r] = "ok" =>
        /\ runs[r].status # "absent"
        /\ runs[r].tenant = req[r].tenant
        /\ runProducts[r] = out[r]
        /\ Len(out[r]) = Len(req[r].items)

(* The number of results with a disposition. *)
CountOf(r, disp) == Cardinality({i \in DOMAIN out[r] : out[r][i].disp = disp})

(* The counters of a stored run add up to its products, in both handlers:  *)
(* received is the size of the body, and each disposition is counted once. *)
SummaryAddsUp ==
    \A r \in Requests : runs[r].status # "absent" =>
        LET s == runs[r].sum
        IN  /\ s.received = Len(req[r].items)
            /\ s.received = s.valid + s.rejected
            /\ s.enqueued = CountOf(r, "enqueued")
            /\ s.unchanged = CountOf(r, "unchanged")
            /\ s.rejected = CountOf(r, "rejected")

(* A run whose request was answered when the executor reads its products   *)
(* is read whole: exactly the products that were answered 'enqueued' reach *)
(* OnExecute, through InsertRunProducts, the table and the cut-off read.   *)
LoadsWholeRun ==
    [][\A w \in Workers :
          (/\ wpc[w] = "list" /\ wpc'[w] = "execute"
           /\ resp[job[w]] = "ok")
          => loaded'[w] = Enqueued({out[job[w]][i] : i \in DOMAIN out[job[w]]})]_vars

(* The products of a run that OnExecute is about to receive are the        *)
(* enqueued products of its request.                                       *)
ExecutedWhole ==
    \A w \in Workers : wpc[w] = "execute" =>
        loaded[w] = {row \in {out[job[w]][i] : i \in DOMAIN out[job[w]]} :
                        row.disp = "enqueued"}

(* A product answered 'unchanged' is one whose content some request of the *)
(* tenant got scheduled: its enqueued row is stored with a run, or its     *)
(* request is still being served.                                          *)
UnchangedWasScheduled ==
    \A r \in Requests : resp[r] = "ok" =>
        \A i \in DOMAIN out[r] : out[r][i].disp = "unchanged" =>
            \E q \in Requests :
                /\ Classified(q, req[r].tenant, out[r][i].key, out[r][i].hash, "enqueued")
                /\ \/ q \in InFlight
                   \/ runs[q].push /\ [out[r][i] EXCEPT !.disp = "enqueued"] \in StoredRows(q)

(* The tables, read as a queue, behave like the atomic queue RunQueue.     *)
Queue == INSTANCE RunQueue WITH
            status <- [r \in Requests |-> runs[r].status],
            attempts <- pushes

QueueRefined == Queue!Spec

(* Every run with pending changes is eventually completed or failed.       *)
RunsFinish ==
    \A r \in Requests :
        runs[r].status = "has_changes" ~> runs[r].status \in {"completed", "failed"}

(* Every request that is accepted is eventually answered.                  *)
RequestsAnswered ==
    \A r \in Requests : pc[r] # "idle" ~> (pc[r] = "done" /\ resp[r] # "none")
=============================================================================
