---------------------------- MODULE LegacyIngest ----------------------------
(***************************************************************************)
(* The self-contained endpoints of internal/ingest, without tenants and    *)
(* without a database: the JSON and the NDJSON upsert handler over a hash  *)
(* store in memory, behind an idempotency middleware with a store of its   *)
(* own.  Products are the JSON documents of module Products.  Each store   *)
(* has a mutex that is held for one read or write, so that requests        *)
(* interleave between them.                                                *)
(***************************************************************************)
EXTENDS Products

CONSTANTS Requests,   \* calls
          Plans,      \* what the calls send: handler, Idempotency-Key, body, or nothing
          NoCall,     \* the call is not made
          NoIdemKey,  \* no Idempotency-Key header
          NoHash,     \* the empty hash string
          NoProduct,  \* nothing is stored
          TTL,        \* how long an answer is replayed; 0 is forever
          MaxClock    \* bound on the clock

ASSUME LegacyAssumption ==
    /\ TTL \in Nat /\ MaxClock \in Nat
    /\ \A plan \in Plans : \A r \in Requests : plan[r] # NoCall =>
          /\ plan[r].kind \in {"json", "bulk"}
          /\ plan[r].method \in {"POST", "GET"}
          /\ plan[r].body \in {"whole", "cut", "bad_encoding"}

(* A body is a list of JSON values, NoProduct is not a product, and        *)
(* SHA-256 is never the empty string.                                      *)
ASSUME BodyAssumption ==
    \A plan \in Plans : \A r \in Requests : plan[r] # NoCall /\ plan[r].json.t = "array" =>
        LET items == plan[r].json.a
        IN  /\ Len(items) \in Nat /\ DOMAIN items = 1 .. Len(items)
            /\ \A i \in DOMAIN items :
                  /\ IsDocument(items[i])
                  /\ ParseSingleProduct(items[i]) # NoProduct
                  /\ HashNormalized(ParseSingleProduct(items[i])) # NoHash

(* The delta engine; hashes are normalized products. *)
Delta == INSTANCE Processor WITH
            Tenants <- {}, Keys <- {}, Hashes <- {}, NoTenant <- 0

VARIABLES call,     \* what the request sends
          pc,       \* where its handler is
          next,     \* the product it deals with
          out,      \* its results so far
          answer,   \* what it was answered
          hashes,   \* MemoryHashStore.hashes
          content,  \* history: the product each of these hashes was made from
          records,  \* MemoryIdempotencyStore.records
          expired,  \* history: the keys with a record that was found expired
          clock

requestVars == <<call, pc, next, out, answer>>
hashVars == <<hashes, content>>
recordVars == <<records, expired>>
vars == <<requestVars, hashVars, recordVars, clock>>

NoAnswer == [code |-> 0]

Labels == {"idle", "lookup", "expired", "begin", "process", "update", "set", "remember", "done"}

(* Every step leaves the program counters and answers among the ones the   *)
(* handlers have, and stores nothing but hashes of accepted products.      *)
TypeOK ==
    /\ pc \in [Requests -> Labels]
    /\ \A r \in Requests : next[r] \in 1 .. Len(out[r]) + 1
    /\ \A r \in Requests : answer[r].code \in {0, 200, 400, 405, 500}
    /\ DOMAIN hashes = DOMAIN content
    /\ \A k \in DOMAIN hashes : k # <<>> /\ hashes[k] # NoHash
    /\ \A k \in DOMAIN records : records[k].answer.code \in {200, 400, 405, 500}
    /\ clock \in 0 .. MaxClock

Init ==
    /\ call \in Plans
    /\ pc = [r \in Requests |-> "idle"]
    /\ next = [r \in Requests |-> 1]
    /\ out = [r \in Requests |-> <<>>]
    /\ answer = [r \in Requests |-> NoAnswer]
    /\ hashes = <<>> /\ content = <<>>
    /\ records = <<>> /\ expired = {}
    /\ clock = 0

(* m[k] = v on a Go map. *)
Put(m, k, v) == [x \in DOMAIN m \cup {k} |-> IF x = k THEN v ELSE m[x]]

Goto(r, label) == pc' = [pc EXCEPT ![r] = label]

Keyed(r) == call[r].key # NoIdemKey
-----------------------------------------------------------------------------
(* The middleware *)

Receive(r) ==
    /\ pc[r] = "idle" /\ call[r] # NoCall
    /\ Goto(r, IF Keyed(r) THEN "lookup" ELSE "begin")
    /\ UNCHANGED <<call, next, out, answer, hashVars, recordVars, clock>>

(* Mutant: an answer is kept forever. *)
IsExpired_Never(rec) == FALSE

IsExpired(rec) == TTL > 0 /\ clock - rec.created > TTL

(* Get, under the read lock, and the replay of what it found. *)
Lookup(r) ==
    /\ pc[r] = "lookup"
    /\ LET k == call[r].key
       IN  \/ /\ k \notin DOMAIN records
              /\ Goto(r, "begin")
              /\ UNCHANGED <<answer, expired>>
           \/ /\ k \in DOMAIN records /\ IsExpired(records[k])
              /\ Goto(r, "expired")
              /\ expired' = expired \cup {k}
              /\ UNCHANGED answer
           \/ /\ k \in DOMAIN records /\ ~IsExpired(records[k])
              /\ answer' = [answer EXCEPT ![r] =
                    [code |-> records[k].answer.code, replay |-> records[k], at |-> clock]]
              /\ Goto(r, "done")
              /\ UNCHANGED expired
    /\ UNCHANGED <<call, next, out, hashVars, records, clock>>

(* The rest of Get, under the write lock: whatever is there now is         *)
(* deleted.                                                                *)
DeleteExpired(r) ==
    /\ pc[r] = "expired"
    /\ records' = [k \in DOMAIN records \ {call[r].key} |-> records[k]]
    /\ Goto(r, "begin")
    /\ UNCHANGED <<call, next, out, answer, hashVars, expired, clock>>

(* Mutant: only a success is remembered. *)
Remember_OnlySuccess(r) ==
    /\ pc[r] = "remember"
    /\ records' = IF answer[r].code = 200
                  THEN Put(records, call[r].key, [answer |-> answer[r], by |-> r, created |-> clock])
                  ELSE records
    /\ Goto(r, "done")
    /\ UNCHANGED <<call, next, out, answer, hashVars, expired, clock>>

(* Set, after the handler; by is history. *)
Remember(r) ==
    /\ pc[r] = "remember"
    /\ records' = Put(records, call[r].key, [answer |-> answer[r], by |-> r, created |-> clock])
    /\ Goto(r, "done")
    /\ UNCHANGED <<call, next, out, answer, hashVars, expired, clock>>
-----------------------------------------------------------------------------
(* The handlers *)

Respond(r, a) ==
    /\ answer' = [answer EXCEPT ![r] = a]
    /\ Goto(r, IF Keyed(r) THEN "remember" ELSE "done")

Refuse(r) == Respond(r, [code |-> 400])

Items(r) == IF call[r].json.t = "array" THEN call[r].json.a ELSE <<>>

(* Another method is refused, and NewRunID may fail for want of random     *)
(* bytes.  The JSON body is read and parsed as a whole; a bulk body is     *)
(* only unwrapped.                                                         *)
Begin(r) ==
    /\ pc[r] = "begin"
    /\ LET post == call[r].method = "POST"
           refused == \/ call[r].kind = "json" /\ (call[r].body = "cut" \/ BodyError(call[r].json))
                      \/ call[r].kind = "bulk" /\ call[r].body = "bad_encoding"
       IN  \/ ~post /\ Respond(r, [code |-> 405])
           \/ post /\ Respond(r, [code |-> 500])
           \/ post /\ refused /\ Refuse(r)
           \/ post /\ ~refused /\ Goto(r, "process") /\ UNCHANGED answer
    /\ UNCHANGED <<call, next, out, hashVars, recordVars, clock>>

KeyOf(p) == p.text["product_key"]

(* ProcessProduct with MemoryHashStore.Get for the lookup; item and        *)
(* against are history.                                                    *)
Process(item) ==
    LET p == ParseSingleProduct(item)
        k == KeyOf(p)
        known == k \in DOMAIN hashes
        hash == HashNormalized(p)
    IN  IF ~IsValid(p)
        THEN [key |-> k, hash |-> NoHash, disp |-> "rejected", item |-> item, against |-> NoProduct]
        ELSE [key |-> k, hash |-> hash,
              disp |-> Delta!ComputeDisposition(IF known THEN hashes[k] ELSE NoHash, hash),
              item |-> item, against |-> IF known THEN content[k] ELSE NoProduct]

Rejected(item) ==
    [key |-> <<>>, hash |-> NoHash, disp |-> "rejected", item |-> item, against |-> NoProduct]

(* One product: of the parsed body, or of a line with its own errors. *)
ProcessNext(r) ==
    /\ pc[r] = "process"
    /\ next[r] <= Len(Items(r))
    /\ LET item == Items(r)[next[r]]
           row == IF call[r].kind = "bulk" /\ LineError(item) THEN Rejected(item) ELSE Process(item)
       IN  /\ out' = [out EXCEPT ![r] = Append(@, row)]
           /\ \/ /\ call[r].kind = "bulk" /\ row.disp = "enqueued"
                 /\ Goto(r, "set")
                 /\ UNCHANGED next
              \/ /\ call[r].kind = "json" \/ row.disp # "enqueued"
                 /\ next' = [next EXCEPT ![r] = @ + 1]
                 /\ UNCHANGED pc
    /\ UNCHANGED <<call, answer, hashVars, recordVars, clock>>

(* MemoryHashStore.Set *)
SetHash(row) ==
    /\ hashes' = Put(hashes, row.key, row.hash)
    /\ content' = Put(content, row.key, ParseSingleProduct(row.item))

(* The bulk handler stores the hash of a line it enqueued, then goes on. *)
SetLine(r) ==
    /\ pc[r] = "set"
    /\ SetHash(out[r][next[r]])
    /\ next' = [next EXCEPT ![r] = @ + 1]
    /\ Goto(r, "process")
    /\ UNCHANGED <<call, out, answer, recordVars, clock>>

(* All products are processed: the JSON handler turns to the store. *)
EndProcess(r) ==
    /\ pc[r] = "process" /\ call[r].kind = "json"
    /\ next[r] > Len(Items(r))
    /\ next' = [next EXCEPT ![r] = 1]
    /\ Goto(r, "update")
    /\ UNCHANGED <<call, out, answer, hashVars, recordVars, clock>>

(* Mutant: the hash of a rejected product is stored too. *)
Stores_Everything(row) == row.key # <<>>

Stores(row) == row.hash # NoHash /\ row.disp \in {"enqueued", "unchanged"}

UpdateNext(r) ==
    /\ pc[r] = "update"
    /\ next[r] <= Len(out[r])
    /\ LET row == out[r][next[r]]
       IN  \/ Stores(row) /\ SetHash(row)
           \/ ~Stores(row) /\ UNCHANGED hashVars
    /\ next' = [next EXCEPT ![r] = @ + 1]
    /\ UNCHANGED <<call, pc, out, answer, recordVars, clock>>

Summary(r) ==
    LET received == Delta!EmptySummary(Len(out[r]))
    IN  FoldLeft(Delta!CountResult, received, out[r])

(* The answer.  A bulk body that breaks off is refused only here, with its *)
(* lines already stored.                                                   *)
End(r) ==
    /\ \/ pc[r] = "update" /\ next[r] > Len(out[r])
       \/ pc[r] = "process" /\ call[r].kind = "bulk" /\ next[r] > Len(Items(r))
    /\ \/ call[r].body = "cut" /\ Refuse(r)
       \/ /\ call[r].body # "cut"
          /\ Respond(r, [code |-> 200, status |-> Delta!RunStatus(Summary(r)), sum |-> Summary(r),
                         warnings |-> UNION {UnknownKeys(out[r][i].item) :
                                                i \in {j \in DOMAIN out[r] : ~LineError(out[r][j].item)}}])
    /\ UNCHANGED <<call, next, out, hashVars, recordVars, clock>>

(* Time passes; nobody can tell before there is a record. *)
Tick ==
    /\ clock < MaxClock /\ records # <<>>
    /\ clock' = clock + 1
    /\ UNCHANGED <<requestVars, hashVars, recordVars>>

Next ==
    \/ \E r \in Requests :
          \/ Receive(r) \/ Lookup(r) \/ DeleteExpired(r) \/ Begin(r) \/ ProcessNext(r) \/ SetLine(r)
          \/ EndProcess(r) \/ UpdateNext(r) \/ End(r) \/ Remember(r)
    \/ Tick

Spec == Init /\ [][Next]_vars
-----------------------------------------------------------------------------
(* Errors of decoding are dropped in the hope that validation notices: a   *)
(* product is accepted exactly when what the client sent is complete.  No  *)
(* null, no wrong type, no text of white space and no half-decoded price   *)
(* slips through, and neither an odd optional field nor a member that is   *)
(* spelled in another case or repeated costs a good product.               *)
ValidationExact ==
    \A r \in Requests : \A i \in DOMAIN out[r] :
        LET row == out[r][i]
        IN  row.disp # "rejected" <=> ~LineError(row.item) /\ Complete(row.item)

(* 'unchanged' means unchanged: the product has the content of the one     *)
(* whose hash was stored when it was looked up, up to the order of links;  *)
(* and whatever differs in content is enqueued.                            *)
DeltaExact ==
    \A r \in Requests : \A i \in DOMAIN out[r] :
        LET row == out[r][i]
        IN  row.disp # "rejected" =>
               (row.disp = "unchanged"
                <=> /\ row.against # NoProduct
                    /\ SameContent(ParseSingleProduct(row.item), row.against))

(* A stored hash was at some time enqueued, although the JSON handler also *)
(* stores what it found unchanged a while ago.                             *)
StoredWasEnqueued ==
    \A k \in DOMAIN hashes :
        \E r \in Requests : \E i \in DOMAIN out[r] :
            out[r][i].key = k /\ out[r][i].hash = hashes[k] /\ out[r][i].disp = "enqueued"

(* A replayed answer is the one a call with the same key was given, at     *)
(* most TTL ago.                                                           *)
ReplayIsFresh ==
    \A r \in Requests : "replay" \in DOMAIN answer[r] =>
        LET rec == answer[r].replay
        IN  /\ call[rec.by].key = call[r].key
            /\ rec.answer = answer[rec.by]
            /\ TTL > 0 => answer[r].at - rec.created <= TTL

(* Once a call is over, whatever it was answered, no call with its key is  *)
(* executed again; unless a record of that key was found expired, since    *)
(* the deletion that follows may hit a newer record.                       *)
ExecutedOncePerKey ==
    [][\A r \in Requests :
          (pc[r] = "lookup" /\ pc'[r] = "begin" /\ call[r].key \notin expired) =>
             \A q \in Requests \ {r} :
                ~(pc[q] = "done" /\ call[q].key = call[r].key)]_vars
=============================================================================
