------------------------------- MODULE Upload -------------------------------
(***************************************************************************)
(* An upload from end to end on the API service: the IdempotencyMiddleware *)
(* of an upsert endpoint around the handler it wraps.  Gateway has the     *)
(* middlewares in detail and a handler of one step; here the handler is    *)
(* the one of UpsertHandlers and the calls carry bodies.                   *)
(*                                                                         *)
(* The middleware reads the body of a keyed call itself and drops the      *)
(* error: the handler is given what arrived as if it were everything.      *)
(* Cached answers outlive the instance; Gateway has their expiry.          *)
(***************************************************************************)
EXTENDS UpsertHandlers

CONSTANTS IdemKeys,  \* Idempotency-Key values
          MaxOpen,   \* bound on the calls the middleware has at the same time
          None       \* no key, no record, no answer

ASSUME UploadAssumption ==
    /\ None \notin IdemKeys \cup Requests
    /\ MaxOpen \in Nat \ {0}
    /\ \A s \in Shapes : s.body = "cut" => [s EXCEPT !.body = "whole"] \in Shapes

VARIABLES stage,  \* where a call is in the middleware
          sent,   \* what the client sent, as far as it arrived
          idem,   \* its Idempotency-Key
          cache,  \* table idempotency
          given,  \* the answer that was written
          log     \* history: the lookups and the writes of hashes, in their order

middlewareVars == <<stage, sent, idem, cache, given>>
vars == <<storeVars, clock, handlerVars, middlewareVars, log>>

(* The primary key of table idempotency; the kind of a call stands for its *)
(* endpoint.                                                               *)
Scopes == Tenants \X {"json", "bulk"} \X IdemKeys

(* A status and the call whose handler wrote the body, if any did. *)
Reply == [code : {200, 400, 500}, of : Requests \cup {None}]

ASSUME ReplyAssumption == None \notin Reply

(* Call r looked a product up, with this result, or wrote its hash. *)
Event(op, r, row) == [op |-> op, by |-> r, tenant |-> req[r].tenant, row |-> row]

Events == [op : {"look", "write"}, by : Requests, tenant : Tenants \cup {NoTenant}, row : Row]

(* Every variable of the middleware keeps its type: in particular what is  *)
(* cached is always an answer that can be replayed.                        *)
TypeOK ==
    /\ stage \in [Requests -> {"client", "lookup", "handler", "store", "over"}]
    /\ sent \in [Requests -> Shapes \cup {NoShape}]
    /\ idem \in [Requests -> IdemKeys \cup {None}]
    /\ cache \in [Scopes -> Reply \cup {None}]
    /\ given \in [Requests -> Reply \cup {None}]
    /\ log \in Seq(Events)

Init ==
    /\ StoreInit /\ HandlerInit
    /\ stage = [r \in Requests |-> "client"]
    /\ sent = [r \in Requests |-> NoShape]
    /\ idem = [r \in Requests |-> None]
    /\ cache = [s \in Scopes |-> None]
    /\ given = [r \in Requests |-> None]
    /\ log = <<>>

Open == {r \in Requests : stage[r] \notin {"client", "over"}}

Enter(r, label) == stage' = [stage EXCEPT ![r] = label]

Write(r, reply) == given' = [given EXCEPT ![r] = reply]

Scope(r) == <<sent[r].tenant, sent[r].kind, idem[r]>>
-----------------------------------------------------------------------------
(* A client calls, with a key or without one; it may repeat a call. *)
Send(r, shape, key) ==
    /\ stage[r] = "client"
    /\ Cardinality(Open) < MaxOpen
    /\ sent' = [sent EXCEPT ![r] = shape]
    /\ idem' = [idem EXCEPT ![r] = key]
    /\ Enter(r, IF key = None THEN "handler" ELSE "lookup")
    /\ UNCHANGED <<cache, given, handlerVars, storeVars, log>>

(* GetIdempotency: a hit is the answer, whatever the body of this call. *)
Lookup(r) ==
    /\ stage[r] = "lookup"
    /\ \/ /\ cache[Scope(r)] # None
          /\ Write(r, cache[Scope(r)])
          /\ Enter(r, "over")
       \/ /\ cache[Scope(r)] = None
          /\ Enter(r, "handler")
          /\ UNCHANGED given
       \/ /\ FaultsHappen
          /\ Write(r, [code |-> 500, of |-> None])
          /\ Enter(r, "over")
    /\ UNCHANGED <<sent, idem, cache, handlerVars, storeVars, log>>

(* Mutant: the body is read before the key is looked at. *)
BodiesSeen_Always(shape, key) ==
    IF shape.body = "cut" THEN {shape, [shape EXCEPT !.body = "whole"]} ELSE {shape}

(* What the handler of a keyed call reads: a body cut off on the wire has  *)
(* an end now; one that is cut off inside its gzip stream, or by a line    *)
(* above the limit, still has not.                                         *)
BodiesSeen(shape, key) ==
    IF key # None /\ shape.body = "cut"
    THEN {shape, [shape EXCEPT !.body = "whole"]}
    ELSE {shape}

(* Next.ServeHTTP, to its first Store call. *)
Serve(r) ==
    /\ stage[r] = "handler"
    /\ \E body \in BodiesSeen(sent[r], idem[r]) : Accept(r, body)
    /\ UNCHANGED <<middlewareVars, log>>

(* The step is UpsertProductHash: the loop goes on, or it fails and leaves *)
(* its mark.                                                               *)
Writes(r) ==
    /\ pc[r] \in {"upsert", "persist"} /\ cur[r] <= Len(out[r])
    /\ out[r][cur[r]].hash # NoHash
    /\ pc'[r] # "done" \/ productHash' # productHash

Remember(r) ==
    log' = IF Len(out'[r]) > Len(out[r]) THEN Append(log, Event("look", r, out'[r][Len(out'[r])]))
           ELSE IF Writes(r) THEN Append(log, Event("write", r, out[r][cur[r]]))
           ELSE log

(* The rest of the handler. *)
Work(r) ==
    /\ HandlerStep(r) \/ HandlerFailure(r)
    /\ Remember(r)
    /\ UNCHANGED middlewareVars

(* Mutant: the status of a refusal is not recorded. *)
CodeOf_NoStatus(answer) ==
    CASE answer = "ok" -> 200 [] answer = "bad_request" -> 0 [] answer = "error" -> 500

CodeOf(answer) ==
    CASE answer = "ok" -> 200 [] answer = "bad_request" -> 400 [] answer = "error" -> 500

(* The handler has returned: its answer is written. *)
Return(r) ==
    /\ stage[r] = "handler"
    /\ pc[r] = "done"
    /\ Write(r, [code |-> CodeOf(resp[r]), of |-> r])
    /\ Enter(r, IF idem[r] = None THEN "over" ELSE "store")
    /\ UNCHANGED <<sent, idem, cache, handlerVars, storeVars, log>>

(* PutIdempotency, for every status.  It fails for a tenant that has no    *)
(* row; the error is dropped.                                              *)
Store(r) ==
    /\ stage[r] = "store"
    /\ \/ /\ TenantExists(sent[r].tenant)
          /\ cache' = [cache EXCEPT ![Scope(r)] = given[r]]
       \/ /\ ~TenantExists(sent[r].tenant) \/ FaultsHappen
          /\ UNCHANGED cache
    /\ Enter(r, "over")
    /\ UNCHANGED <<sent, idem, given, handlerVars, storeVars, log>>

(* The process dies with every call it was serving. *)
Crash ==
    /\ ApiMayCrash
    /\ Open # {}
    /\ \/ ApiCrash
       \/ InFlight = {} /\ UNCHANGED <<handlerVars, storeVars>>
    /\ stage' = [r \in Requests |-> IF r \in Open THEN "over" ELSE stage[r]]
    /\ UNCHANGED <<sent, idem, cache, given, log>>

Next ==
    /\ \/ \E r \in Requests :
             \/ \E shape \in Shapes, key \in IdemKeys \cup {None} : Send(r, shape, key)
             \/ Lookup(r) \/ Serve(r) \/ Work(r) \/ Return(r) \/ Store(r)
       \/ Crash
    /\ UNCHANGED clock

Spec == Init /\ [][Next]_vars
-----------------------------------------------------------------------------
(* Call r was answered with this status, by a handler or from the cache. *)
Answered(r, code) == given[r] # None /\ given[r].code = code /\ given[r].of # None

(* What a client can count on when it is answered 200: the answer is that  *)
(* of a call of its tenant to the same endpoint, its own or one with its   *)
(* key; every product of that call that arrived has a result, in order,    *)
(* and the results are stored.  Without a key a body that was cut off is   *)
(* never answered 200.  With a key it may be, and another body with the    *)
(* key gets the same answer: the key is not bound to the body, and the     *)
(* error of reading it is dropped.                                         *)
AnswerAccounts ==
    \A r \in Requests : Answered(r, 200) =>
        LET d == given[r].of
        IN  /\ sent[d].tenant = sent[r].tenant /\ sent[d].kind = sent[r].kind
            /\ d # r => idem[r] # None /\ idem[d] = idem[r]
            /\ Len(out[d]) = Len(sent[d].items)
            /\ \A i \in DOMAIN out[d] : out[d][i].key = sent[d].items[i].key
            /\ runs[d].status # "absent" /\ runProducts[d] = out[d]
            /\ sent[d].body = "cut" => idem[d] # None

(* A client that is answered 400, at once or by a replay of it, knows that *)
(* nothing was scheduled, though hashes may have been written.             *)
RefusalSchedulesNothing ==
    \A r \in Requests : Answered(r, 400) => runs[given[r].of].status = "absent"

(* The content of a product is scheduled once, however often the upload is *)
(* repeated after errors, crashes and lost answers, with its key or        *)
(* without, one after the other or at the same time.  Two runs have it     *)
(* only if the second call looked the product up before the first had      *)
(* written its hash, or if between this write and that lookup a call wrote *)
(* another content.                                                        *)
ScheduledOnce ==
    \A q, r \in Requests : \A row \in StoredRows(q) \cap StoredRows(r) :
        (q # r /\ row.disp = "enqueued" /\ req[q].tenant = req[r].tenant)
        => \E w \in DOMAIN log :
              /\ log[w] = Event("write", q, row)
              /\ \A l \in DOMAIN log : (l > w /\ log[l] = Event("look", r, row)) =>
                    \E x \in w + 1 .. l - 1 :
                       /\ log[x].op = "write" /\ log[x].tenant = req[r].tenant
                       /\ log[x].row.key = row.key /\ log[x].row.hash # row.hash
=============================================================================
