---------------------------- MODULE LegacyProofs ----------------------------
(***************************************************************************)
(* Proofs about LegacyIngest: its two stores under concurrent calls, for   *)
(* any calls, bodies and lifetime of an answer; and, with ProductProofs,   *)
(* that the results of the handlers say what is true of the documents.     *)
(***************************************************************************)
EXTENDS LegacyIngest, ProductProofs

(* The content of product k with this hash was enqueued by some call. *)
Enqueued(k, hash) ==
    \E r \in Requests : \E i \in DOMAIN out[r] :
        out[r][i].key = k /\ out[r][i].hash = hash /\ out[r][i].disp = "enqueued"

(* Where a handler is in its body and in its results. *)
PlaceInv ==
    /\ call \in Plans
    /\ pc \in [Requests -> Labels]
    /\ next \in [Requests -> Nat]
    /\ DOMAIN out = Requests /\ DOMAIN answer = Requests
    /\ clock \in Nat /\ clock <= MaxClock
    /\ \A r \in Requests :
          /\ out[r] \in Seq(ToSet(out[r]))
          /\ next[r] \in 1 .. Len(out[r]) + 1
          /\ pc[r] \in {"idle", "lookup", "expired", "begin", "process"} => next[r] = Len(out[r]) + 1
          /\ pc[r] = "set" =>
                /\ next[r] = Len(out[r])
                /\ out[r][next[r]].disp = "enqueued"

(* What the middleware knows of a call. *)
CallInv ==
    \A r \in Requests :
        /\ pc[r] # "idle" => call[r] # NoCall
        /\ pc[r] \in {"lookup", "expired", "remember"} => Keyed(r)
        /\ pc[r] = "expired" => call[r].key \in expired
        /\ answer[r].code \in {0, 200, 400, 405, 500}
        /\ pc[r] = "remember" => answer[r].code # 0
        /\ "replay" \in DOMAIN answer[r] => pc[r] = "done"

(* A record holds the answer of a call with its key that is over. *)
RecordInv ==
    \A k \in DOMAIN records :
        /\ records[k].by \in Requests
        /\ pc[records[k].by] = "done"
        /\ call[records[k].by].key = k
        /\ records[k].answer = answer[records[k].by]
        /\ records[k].answer.code \in {200, 400, 405, 500}
        /\ records[k].created \in Nat

(* The answer a replay repeats is final. *)
ReplayInv ==
    \A r \in Requests : "replay" \in DOMAIN answer[r] =>
        LET rec == answer[r].replay
        IN  rec.by \in Requests /\ pc[rec.by] = "done"

(* The key of a call that is over has a record, or had one that expired. *)
DoneInv ==
    \A q \in Requests : pc[q] = "done" /\ Keyed(q) => call[q].key \in DOMAIN records \cup expired

(* A result that may be stored was enqueued, by this call or another. *)
RowInv ==
    \A r \in Requests : \A i \in DOMAIN out[r] :
        out[r][i].disp # "rejected" =>
            /\ out[r][i].key # <<>> /\ out[r][i].hash # NoHash
            /\ Enqueued(out[r][i].key, out[r][i].hash)

HashInv ==
    /\ DOMAIN hashes = DOMAIN content
    /\ \A k \in DOMAIN hashes : k # <<>> /\ hashes[k] # NoHash /\ Enqueued(k, hashes[k])

LegacyInv ==
    /\ PlaceInv /\ CallInv /\ RecordInv /\ ReplayInv /\ ReplayIsFresh /\ DoneInv
    /\ RowInv /\ HashInv
-----------------------------------------------------------------------------
LEMMA AppendRow ==
    ASSUME NEW s, s \in Seq(ToSet(s)), NEW row
    PROVE  /\ Append(s, row) \in Seq(ToSet(Append(s, row)))
           /\ Len(Append(s, row)) = Len(s) + 1 /\ Len(s) \in Nat
           /\ DOMAIN s = 1 .. Len(s)
           /\ DOMAIN Append(s, row) = 1 .. Len(s) + 1
           /\ \A i \in 1 .. Len(s) : Append(s, row)[i] = s[i]
           /\ Append(s, row)[Len(s) + 1] = row
<1> DEFINE S == ToSet(s) \cup {row}
<1> DEFINE u == Append(s, row)
<1>1. s \in Seq(S)
  <2>1. Len(s) \in Nat /\ DOMAIN s = 1 .. Len(s) /\ \A i \in 1 .. Len(s) : s[i] \in ToSet(s)
    OBVIOUS
  <2> QED
    BY <2>1
<1>2. /\ u \in Seq(S) /\ Len(u) = Len(s) + 1 /\ Len(s) \in Nat
      /\ DOMAIN s = 1 .. Len(s) /\ DOMAIN u = 1 .. Len(s) + 1
      /\ \A i \in 1 .. Len(s) : u[i] = s[i]
      /\ u[Len(s) + 1] = row
  BY <1>1
<1>3. \A i \in 1 .. Len(u) : u[i] \in ToSet(u)
  BY <1>2 DEF ToSet
<1>4. u \in Seq(ToSet(u))
  BY <1>2, <1>3
<1> QED
  BY <1>2, <1>4

(* What BodyAssumption says of the items of a call. *)
LEMMA ItemFacts ==
    ASSUME call \in Plans, NEW r \in Requests, call[r] # NoCall, call[r].json.t = "array"
    PROVE  /\ Items(r) = call[r].json.a
           /\ Len(Items(r)) \in Nat /\ DOMAIN Items(r) = 1 .. Len(Items(r))
           /\ \A j \in DOMAIN Items(r) :
                 /\ IsDocument(Items(r)[j])
                 /\ ParseSingleProduct(Items(r)[j]) # NoProduct
                 /\ HashNormalized(ParseSingleProduct(Items(r)[j])) # NoHash
<1>1. Items(r) = call[r].json.a
  BY DEF Items
<1> QED
  BY <1>1, BodyAssumption

LEMMA InvInit == Init => LegacyInv
<1> SUFFICES ASSUME Init PROVE LegacyInv
  OBVIOUS
<1>1. PlaceInv
  <2>1. <<>> \in Seq(ToSet(<<>>)) /\ Len(<<>>) = 0
    OBVIOUS
  <2> QED
    BY <2>1, LegacyAssumption DEF Init, PlaceInv, Labels
<1>2. CallInv /\ ReplayInv /\ ReplayIsFresh /\ DoneInv
  BY DEF Init, CallInv, ReplayInv, ReplayIsFresh, DoneInv, NoAnswer
<1>3. RecordInv /\ RowInv /\ HashInv
  BY DEF Init, RecordInv, RowInv, HashInv
<1> QED
  BY <1>1, <1>2, <1>3 DEF LegacyInv
-----------------------------------------------------------------------------
(* The steps of one request. *)
Step(r) ==
    \/ Receive(r) \/ Lookup(r) \/ DeleteExpired(r) \/ Begin(r) \/ ProcessNext(r) \/ SetLine(r)
    \/ EndProcess(r) \/ UpdateNext(r) \/ End(r) \/ Remember(r)

LEMMA StepFrame ==
    ASSUME LegacyInv, NEW r \in Requests, Step(r)
    PROVE  /\ call' = call /\ clock' = clock
           /\ DOMAIN out' = Requests /\ DOMAIN answer' = Requests
           /\ \A q \in Requests \ {r} :
                 pc'[q] = pc[q] /\ next'[q] = next[q] /\ out'[q] = out[q] /\ answer'[q] = answer[q]
           /\ pc[r] # "done"
<1> USE DEF LegacyInv, PlaceInv, Goto, Respond, Refuse
<1>1. CASE Receive(r)
  BY <1>1 DEF Receive
<1>2. CASE Lookup(r)
  BY <1>2 DEF Lookup
<1>3. CASE DeleteExpired(r)
  BY <1>3 DEF DeleteExpired
<1>4. CASE Begin(r)
  BY <1>4 DEF Begin
<1>5. CASE ProcessNext(r)
  BY <1>5 DEF ProcessNext
<1>6. CASE SetLine(r)
  BY <1>6 DEF SetLine
<1>7. CASE EndProcess(r)
  BY <1>7 DEF EndProcess
<1>8. CASE UpdateNext(r)
  BY <1>8 DEF UpdateNext
<1>9. CASE End(r)
  BY <1>9 DEF End
<1>10. CASE Remember(r)
  BY <1>10 DEF Remember
<1> QED
  BY <1>1, <1>2, <1>3, <1>4, <1>5, <1>6, <1>7, <1>8, <1>9, <1>10 DEF Step

(* What a step changes of its own request: the label, the place in the     *)
(* body and the results.                                                   *)
PlaceOK(r) ==
    /\ pc[r] \in Labels
    /\ next[r] \in Nat
    /\ out[r] \in Seq(ToSet(out[r]))
    /\ next[r] \in 1 .. Len(out[r]) + 1
    /\ pc[r] \in {"idle", "lookup", "expired", "begin", "process"} => next[r] = Len(out[r]) + 1
    /\ pc[r] = "set" =>
          /\ next[r] = Len(out[r])
          /\ out[r][next[r]].disp = "enqueued"

LEMMA PlaceStep ==
    ASSUME LegacyInv, NEW r \in Requests, Step(r)
    PROVE  PlaceInv'
<1> USE DEF LegacyInv
<1>0. /\ PlaceOK(r) /\ Len(out[r]) \in Nat
      /\ DOMAIN pc = Requests /\ DOMAIN next = Requests /\ DOMAIN out = Requests
  BY DEF PlaceInv, PlaceOK
<1>a. ASSUME PlaceOK(r)', pc' \in [Requests -> Labels], next' \in [Requests -> Nat]
      PROVE  PlaceInv'
  <2>1. /\ call' = call /\ clock' = clock
        /\ DOMAIN out' = Requests /\ DOMAIN answer' = Requests
        /\ \A q \in Requests \ {r} : pc'[q] = pc[q] /\ next'[q] = next[q] /\ out'[q] = out[q]
    BY StepFrame
  <2>2. ASSUME NEW q \in Requests, q # r
        PROVE  PlaceOK(q)'
    <3>1. PlaceOK(q)
      BY DEF PlaceInv, PlaceOK
    <3> QED
      BY <2>1, <2>2, <3>1 DEF PlaceOK
  <2>3. \A q \in Requests : PlaceOK(q)'
    BY <1>a, <2>2
  <2>4. call' \in Plans /\ clock' \in Nat /\ clock' <= MaxClock
    BY <2>1 DEF PlaceInv
  <2> QED
    BY <1>a, <2>1, <2>3, <2>4 DEF PlaceInv, PlaceOK
<1>1. CASE Receive(r) \/ Lookup(r) \/ DeleteExpired(r) \/ Begin(r) \/ End(r) \/ Remember(r)
  <2>1. /\ next' = next /\ out' = out
        /\ \E l \in Labels \ {"set"} : pc' = [pc EXCEPT ![r] = l]
        /\ pc'[r] \in {"idle", "lookup", "expired", "begin", "process"} => next[r] = Len(out[r]) + 1
    <3> USE <1>0 DEF Goto, Labels, PlaceOK
    <3>1. CASE Receive(r)
      BY <3>1 DEF Receive
    <3>2. CASE Lookup(r)
      BY <3>2 DEF Lookup
    <3>3. CASE DeleteExpired(r) \/ Remember(r)
      BY <3>3 DEF DeleteExpired, Remember
    <3>4. CASE Begin(r)
      BY <3>4 DEF Begin, Respond, Refuse
    <3>5. CASE End(r)
      BY <3>5 DEF End, Respond, Refuse
    <3> QED
      BY <1>1, <3>1, <3>2, <3>3, <3>4, <3>5
  <2>2. PlaceOK(r)'
    BY <1>0, <2>1 DEF PlaceOK
  <2>3. pc' \in [Requests -> Labels] /\ next' \in [Requests -> Nat]
    BY <2>1 DEF PlaceInv
  <2> QED
    BY <1>a, <2>2, <2>3
<1>2. CASE ProcessNext(r)
  <2>1. PICK row : /\ out' = [out EXCEPT ![r] = Append(@, row)]
                   /\ \/ /\ row.disp = "enqueued" /\ pc' = [pc EXCEPT ![r] = "set"]
                         /\ next' = next
                      \/ /\ pc' = pc
                         /\ next' = [next EXCEPT ![r] = @ + 1]
    BY <1>2 DEF ProcessNext, Goto
  <2>2. out'[r] = Append(out[r], row)
    BY <1>0, <2>1
  <2>3. /\ out'[r] \in Seq(ToSet(out'[r])) /\ Len(out'[r]) = Len(out[r]) + 1
        /\ out'[r][Len(out[r]) + 1] = row
    BY <1>0, <2>2, AppendRow DEF PlaceOK
  <2>4. pc[r] = "process" /\ next[r] = Len(out[r]) + 1
    BY <1>0, <1>2 DEF ProcessNext, PlaceOK
  <2>5. pc' \in [Requests -> Labels] /\ next' \in [Requests -> Nat]
    <3>1. pc' \in [Requests -> Labels]
      BY <2>1 DEF PlaceInv, Labels
    <3>2. next[r] + 1 \in Nat
      BY DEF PlaceInv
    <3>3. next' \in [Requests -> Nat]
      BY <2>1, <3>2 DEF PlaceInv
    <3> QED
      BY <3>1, <3>3
  <2>6. PlaceOK(r)'
    <3>1. CASE row.disp = "enqueued" /\ pc' = [pc EXCEPT ![r] = "set"] /\ next' = next
      BY <1>0, <2>3, <2>4, <3>1 DEF PlaceOK, Labels
    <3>2. CASE pc' = pc /\ next' = [next EXCEPT ![r] = @ + 1]
      BY <1>0, <2>3, <2>4, <3>2 DEF PlaceOK, Labels
    <3> QED
      BY <2>1, <3>1, <3>2
  <2> QED
    BY <1>a, <2>5, <2>6
<1>3. CASE SetLine(r) \/ UpdateNext(r)
  <2>1. /\ out' = out /\ next' = [next EXCEPT ![r] = @ + 1] /\ next[r] <= Len(out[r])
        /\ \/ pc' = pc /\ pc[r] = "update"
           \/ pc' = [pc EXCEPT ![r] = "process"] /\ next[r] = Len(out[r])
    BY <1>0, <1>3 DEF SetLine, UpdateNext, Goto, PlaceOK
  <2>2. pc' \in [Requests -> Labels] /\ next' \in [Requests -> Nat]
    BY <2>1 DEF PlaceInv, Labels
  <2>3. PlaceOK(r)'
    BY <1>0, <2>1 DEF PlaceOK, Labels
  <2> QED
    BY <1>a, <2>2, <2>3
<1>4. CASE EndProcess(r)
  <2>1. out' = out /\ next' = [next EXCEPT ![r] = 1] /\ pc' = [pc EXCEPT ![r] = "update"]
    BY <1>4 DEF EndProcess, Goto
  <2>2. pc' \in [Requests -> Labels] /\ next' \in [Requests -> Nat]
    BY <2>1 DEF PlaceInv, Labels
  <2>3. PlaceOK(r)'
    BY <1>0, <2>1 DEF PlaceOK, Labels
  <2> QED
    BY <1>a, <2>2, <2>3
<1> QED
  BY <1>1, <1>2, <1>3, <1>4 DEF Step

LEMMA CallStep ==
    ASSUME LegacyInv, NEW r \in Requests, Step(r)
    PROVE  CallInv'
<1> USE DEF LegacyInv
<1> DEFINE OK == /\ call[r] # NoCall
                 /\ pc'[r] \in {"lookup", "expired", "remember"} => Keyed(r)
                 /\ pc'[r] = "expired" => call[r].key \in expired'
                 /\ answer'[r].code \in {0, 200, 400, 405, 500}
                 /\ pc'[r] = "remember" => answer'[r].code # 0
                 /\ "replay" \in DOMAIN answer'[r] => pc'[r] = "done"
<1>0. /\ DOMAIN pc = Requests /\ DOMAIN answer = Requests
      /\ pc[r] # "idle" => call[r] # NoCall
      /\ pc[r] \in {"lookup", "expired", "remember"} => Keyed(r)
      /\ answer[r].code \in {0, 200, 400, 405, 500}
      /\ pc[r] = "remember" => answer[r].code # 0
      /\ "replay" \in DOMAIN answer[r] => pc[r] = "done"
  BY DEF PlaceInv, CallInv
<1>1. expired \subseteq expired'
  BY DEF Step, Receive, Lookup, DeleteExpired, Begin, ProcessNext, SetLine, EndProcess, UpdateNext,
         End, Remember, recordVars
<1>2. OK
  <2> USE <1>0 DEF Goto
  <2>1. CASE Receive(r)
    BY <2>1 DEF Receive
  <2>2. CASE Lookup(r)
    <3>1. CASE answer' = answer
      BY <2>2, <3>1 DEF Lookup
    <3>2. CASE /\ call[r].key \in DOMAIN records
               /\ answer' = [answer EXCEPT ![r] =
                      [code |-> records[call[r].key].answer.code, replay |-> records[call[r].key], at |-> clock]]
               /\ pc' = [pc EXCEPT ![r] = "done"]
      BY <2>2, <3>2 DEF Lookup, RecordInv
    <3> QED
      BY <2>2, <3>1, <3>2 DEF Lookup
  <2>3. CASE DeleteExpired(r) \/ Remember(r) \/ SetLine(r) \/ EndProcess(r) \/ UpdateNext(r)
    BY <2>3 DEF DeleteExpired, Remember, SetLine, EndProcess, UpdateNext
  <2>4. CASE ProcessNext(r)
    BY <2>4 DEF ProcessNext
  <2>5. ASSUME NEW a, Respond(r, a), a.code \in {200, 400, 405, 500}, "replay" \notin DOMAIN a,
               pc[r] # "idle"
        PROVE  OK
    BY <2>5 DEF Respond
  <2>6. CASE Begin(r)
    <3>1. CASE answer' = answer /\ pc' = [pc EXCEPT ![r] = "process"]
      BY <2>6, <3>1 DEF Begin
    <3>2. CASE Respond(r, [code |-> 405]) \/ Respond(r, [code |-> 500]) \/ Respond(r, [code |-> 400])
      BY <2>5, <2>6, <3>2 DEF Begin
    <3> QED
      BY <2>6, <3>1, <3>2 DEF Begin, Refuse
  <2>7. CASE End(r)
    <3> DEFINE status == Delta!RunStatus(Summary(r))
               warnings == UNION {UnknownKeys(out[r][i].item) :
                                     i \in {j \in DOMAIN out[r] : ~LineError(out[r][j].item)}}
               ok == [code |-> 200, status |-> status, sum |-> Summary(r), warnings |-> warnings]
    <3>1. Respond(r, [code |-> 400]) \/ Respond(r, ok)
      BY <2>7 DEF End, Refuse
    <3> HIDE DEF status, warnings
    <3>2. ok.code = 200 /\ "replay" \notin DOMAIN ok
      OBVIOUS
    <3> HIDE DEF ok
    <3>3. pc[r] # "idle"
      BY <2>7 DEF End
    <3>4. CASE Respond(r, ok)
      BY <2>5, <3>2, <3>3, <3>4
    <3>5. CASE Respond(r, [code |-> 400])
      BY <2>5, <3>3, <3>5
    <3> QED
      BY <3>1, <3>4, <3>5
  <2> QED
    BY <2>1, <2>2, <2>3, <2>4, <2>6, <2>7 DEF Step
<1> QED
  BY <1>1, <1>2, StepFrame DEF CallInv, Keyed

(* The middleware's store is written by Remember and DeleteExpired alone. *)
LEMMA RecordFrame ==
    ASSUME LegacyInv, NEW r \in Requests, Step(r)
    PROVE  \/ records' = records
           \/ DeleteExpired(r)
           \/ Remember(r)
BY DEF Step, Receive, Lookup, Begin, ProcessNext, SetLine, EndProcess, UpdateNext, End, recordVars

(* What was answered to a call that is over stays so, and the records of   *)
(* the finished calls with it.                                             *)
LEMMA RecordStep ==
    ASSUME LegacyInv, NEW r \in Requests, Step(r)
    PROVE  RecordInv'
<1> USE DEF LegacyInv
<1>0. /\ call' = call /\ pc[r] # "done"
      /\ \A q \in Requests : pc[q] = "done" => pc'[q] = "done" /\ answer'[q] = answer[q]
  BY StepFrame
<1>1. CASE records' = records
  BY <1>0, <1>1 DEF RecordInv
<1>2. CASE DeleteExpired(r)
  <2>1. /\ DOMAIN records' \subseteq DOMAIN records
        /\ \A k \in DOMAIN records' : records'[k] = records[k]
    BY <1>2 DEF DeleteExpired
  <2> QED
    BY <1>0, <2>1 DEF RecordInv
<1>3. CASE Remember(r)
  <2> DEFINE new == [answer |-> answer[r], by |-> r, created |-> clock]
  <2>1. /\ DOMAIN records' = DOMAIN records \cup {call[r].key}
        /\ records'[call[r].key] = new
        /\ \A k \in DOMAIN records : k # call[r].key => records'[k] = records[k]
    BY <1>3 DEF Remember, Put
  <2>2. /\ new.answer = answer[r] /\ new.by = r /\ new.created = clock
    OBVIOUS
  <2>3. /\ pc'[r] = "done" /\ answer' = answer /\ clock \in Nat
        /\ answer[r].code \in {200, 400, 405, 500}
    BY <1>3 DEF Remember, Goto, PlaceInv, CallInv
  <2> HIDE DEF new
  <2>4. SUFFICES ASSUME NEW k \in DOMAIN records'
                 PROVE  /\ records'[k].by \in Requests
                        /\ pc'[records'[k].by] = "done"
                        /\ call[records'[k].by].key = k
                        /\ records'[k].answer = answer'[records'[k].by]
                        /\ records'[k].answer.code \in {200, 400, 405, 500}
                        /\ records'[k].created \in Nat
    BY <1>0 DEF RecordInv
  <2>5. CASE k = call[r].key
    BY <2>1, <2>2, <2>3, <2>5
  <2>6. CASE k # call[r].key
    BY <1>0, <2>1, <2>3, <2>4, <2>6 DEF RecordInv
  <2> QED
    BY <2>5, <2>6
<1> QED
  BY <1>1, <1>2, <1>3, RecordFrame

LEMMA ReplayStep ==
    ASSUME LegacyInv, NEW r \in Requests, Step(r)
    PROVE  ReplayInv' /\ ReplayIsFresh'
<1> USE DEF LegacyInv
<1>0. /\ call' = call /\ pc[r] # "done"
      /\ \A q \in Requests \ {r} : answer'[q] = answer[q]
      /\ \A q \in Requests : pc[q] = "done" => pc'[q] = "done" /\ answer'[q] = answer[q]
  BY StepFrame
<1>1. ASSUME "replay" \in DOMAIN answer'[r]
      PROVE  LET rec == answer'[r].replay
             IN  /\ rec.by \in Requests /\ pc[rec.by] = "done"
                 /\ call[rec.by].key = call[r].key
                 /\ rec.answer = answer[rec.by]
                 /\ TTL > 0 => answer'[r].at - rec.created <= TTL
  <2>1. pc'[r] = "done" /\ "replay" \notin DOMAIN answer[r]
    BY <1>0, <1>1, CallStep DEF CallInv
  <2>2. CASE Lookup(r)
    <3> DEFINE rec == records[call[r].key]
               new == [code |-> rec.answer.code, replay |-> rec, at |-> clock]
    <3>1. /\ call[r].key \in DOMAIN records
          /\ ~IsExpired(rec)
          /\ answer' = [answer EXCEPT ![r] = new]
      BY <2>1, <2>2 DEF Lookup, Goto, PlaceInv
    <3>2. answer'[r] = new
      BY <3>1 DEF PlaceInv
    <3>3. answer'[r].replay = rec /\ answer'[r].at = clock
      BY <3>2
    <3>4. /\ rec.by \in Requests /\ pc[rec.by] = "done" /\ call[rec.by].key = call[r].key
          /\ rec.answer = answer[rec.by] /\ rec.created \in Nat
      BY <3>1 DEF RecordInv
    <3>5. TTL > 0 => clock - rec.created <= TTL
      BY <3>1, <3>4, LegacyAssumption DEF IsExpired, PlaceInv
    <3> QED
      BY <3>3, <3>4, <3>5
  <2>3. CASE Receive(r) \/ DeleteExpired(r) \/ ProcessNext(r) \/ SetLine(r) \/ EndProcess(r)
             \/ UpdateNext(r) \/ Remember(r)
    <3>1. answer' = answer
      BY <2>3 DEF Receive, DeleteExpired, ProcessNext, SetLine, EndProcess, UpdateNext, Remember
    <3> QED
      BY <1>1, <2>1, <3>1
  <2>4. CASE Begin(r)
    <3>1. \/ answer' = answer
          \/ answer'[r] = [code |-> 400] \/ answer'[r] = [code |-> 405] \/ answer'[r] = [code |-> 500]
      BY <2>4 DEF Begin, Respond, Refuse, PlaceInv
    <3> QED
      BY <1>1, <2>1, <3>1
  <2>5. CASE End(r)
    <3> DEFINE status == Delta!RunStatus(Summary(r))
               warnings == UNION {UnknownKeys(out[r][i].item) :
                                     i \in {j \in DOMAIN out[r] : ~LineError(out[r][j].item)}}
               ok == [code |-> 200, status |-> status, sum |-> Summary(r), warnings |-> warnings]
    <3>1. Respond(r, [code |-> 400]) \/ Respond(r, ok)
      BY <2>5 DEF End, Refuse
    <3> HIDE DEF status, warnings
    <3>2. "replay" \notin DOMAIN ok /\ "replay" \notin DOMAIN [code |-> 400]
      OBVIOUS
    <3> HIDE DEF ok
    <3> QED
      BY <1>1, <3>1, <3>2 DEF Respond, PlaceInv
  <2> QED
    BY <2>2, <2>3, <2>4, <2>5 DEF Step
<1>2. ReplayInv'
  BY <1>0, <1>1 DEF ReplayInv
<1>3. ReplayIsFresh'
  BY <1>0, <1>1 DEF ReplayInv, ReplayIsFresh
<1> QED
  BY <1>2, <1>3

(* A record only goes when it was found expired. *)
LEMMA DoneStep ==
    ASSUME LegacyInv, NEW r \in Requests, Step(r)
    PROVE  DoneInv'
<1> USE DEF LegacyInv
<1>0. /\ call' = call
      /\ \A q \in Requests \ {r} : pc'[q] = pc[q]
  BY StepFrame
<1>1. expired \subseteq expired'
  BY DEF Step, Receive, Lookup, DeleteExpired, Begin, ProcessNext, SetLine, EndProcess, UpdateNext,
         End, Remember, recordVars
<1>2. DOMAIN records \subseteq DOMAIN records' \cup expired
  <2>1. CASE DeleteExpired(r)
    BY <2>1 DEF DeleteExpired, CallInv
  <2>2. CASE Remember(r)
    BY <2>2 DEF Remember, Put
  <2> QED
    BY <2>1, <2>2, RecordFrame
<1>3. ASSUME pc'[r] = "done", Keyed(r)
      PROVE  call[r].key \in DOMAIN records' \cup expired'
  <2>1. CASE Lookup(r)
    BY <1>3, <2>1 DEF Lookup, Goto, PlaceInv
  <2>2. CASE Remember(r)
    BY <2>2 DEF Remember, Put
  <2>3. CASE Receive(r) \/ DeleteExpired(r) \/ SetLine(r) \/ EndProcess(r) \/ UpdateNext(r)
    BY <1>3, <2>3 DEF Receive, DeleteExpired, SetLine, EndProcess, UpdateNext, Goto, PlaceInv
  <2>4. CASE ProcessNext(r)
    BY <1>3, <2>4 DEF ProcessNext, Goto, PlaceInv
  <2>5. CASE Begin(r)
    BY <1>3, <2>5 DEF Begin, Respond, Refuse, Goto, PlaceInv
  <2>6. CASE End(r)
    BY <1>3, <2>6 DEF End, Respond, Refuse, Goto, PlaceInv
  <2> QED
    BY <2>1, <2>2, <2>3, <2>4, <2>5, <2>6 DEF Step
<1> QED
  BY <1>0, <1>1, <1>2, <1>3 DEF DoneInv, Keyed
-----------------------------------------------------------------------------
(* Results are only appended, by ProcessNext. *)
LEMMA OutGrows ==
    ASSUME LegacyInv, NEW r \in Requests, Step(r)
    PROVE  /\ \A q \in Requests : \A i \in DOMAIN out[q] :
                 i \in DOMAIN out'[q] /\ out'[q][i] = out[q][i]
           /\ out' = out \/ ProcessNext(r)
<1> USE DEF LegacyInv
<1>1. out' = out \/ ProcessNext(r)
  BY DEF Step, Receive, Lookup, DeleteExpired, Begin, SetLine, EndProcess, UpdateNext, End, Remember
<1>2. CASE ProcessNext(r)
  <2>1. PICK row : out' = [out EXCEPT ![r] = Append(@, row)]
    BY <1>2 DEF ProcessNext
  <2>2. out'[r] = Append(out[r], row) /\ \A q \in Requests \ {r} : out'[q] = out[q]
    BY <2>1 DEF PlaceInv
  <2>3. \A i \in DOMAIN out[r] : i \in DOMAIN out'[r] /\ out'[r][i] = out[r][i]
    BY <2>2, AppendRow DEF PlaceInv
  <2> QED
    BY <1>2, <2>2, <2>3
<1> QED
  BY <1>1, <1>2

(* Enqueued, after the step. *)
NowEnqueued(k, hash) ==
    \E r \in Requests : \E i \in DOMAIN out'[r] :
        out'[r][i].key = k /\ out'[r][i].hash = hash /\ out'[r][i].disp = "enqueued"

LEMMA EnqueuedStays ==
    ASSUME LegacyInv, NEW r \in Requests, Step(r), NEW k, NEW hash, Enqueued(k, hash)
    PROVE  NowEnqueued(k, hash)
BY OutGrows DEF Enqueued, NowEnqueued

(* A product that is accepted has a key and a hash, and is unchanged only  *)
(* against a hash that was stored.                                         *)
LEMMA ProcessRow ==
    ASSUME NEW item, HashNormalized(ParseSingleProduct(item)) # NoHash,
           Process(item).disp # "rejected"
    PROVE  LET row == Process(item)
           IN  /\ row.key # <<>> /\ row.hash # NoHash
               /\ \/ row.disp = "enqueued"
                  \/ row.key \in DOMAIN hashes /\ hashes[row.key] = row.hash
<1> DEFINE p == ParseSingleProduct(item)
           k == KeyOf(p)
           hash == HashNormalized(p)
           old == IF k \in DOMAIN hashes THEN hashes[k] ELSE NoHash
           against == IF k \in DOMAIN hashes THEN content[k] ELSE NoProduct
           disp == Delta!ComputeDisposition(old, hash)
<1>0. hash # NoHash
  OBVIOUS
<1>1. CASE ~IsValid(p)
  <2>1. Process(item) = [key |-> k, hash |-> NoHash, disp |-> "rejected", item |-> item,
                         against |-> NoProduct]
    BY <1>1 DEF Process
  <2> QED
    BY <2>1
<1>2. CASE IsValid(p)
  <2>1. Process(item) = [key |-> k, hash |-> hash, disp |-> disp, item |-> item, against |-> against]
    BY <1>2 DEF Process
  <2>2. disp = "enqueued" \/ (old # NoHash /\ old = hash)
    BY DEF Delta!ComputeDisposition
  <2>3. k # <<>>
    <3>1. ~IsBlank(k)
      BY <1>2 DEF IsValid, ValidateProductBase, RequiredText, KeyOf
    <3>2. IsBlank(<<>>)
      BY DEF IsBlank
    <3> QED
      BY <3>1, <3>2
  <2>4. old # NoHash => k \in DOMAIN hashes /\ old = hashes[k]
    OBVIOUS
  <2> HIDE DEF p, k, hash, old, against, disp
  <2>5. /\ Process(item).key = k /\ Process(item).hash = hash /\ Process(item).disp = disp
    BY <2>1
  <2> QED
    BY <1>0, <2>2, <2>3, <2>4, <2>5
<1> QED
  BY <1>1, <1>2

LEMMA RowStep ==
    ASSUME LegacyInv, NEW r \in Requests, Step(r)
    PROVE  RowInv'
<1> USE DEF LegacyInv
<1>1. SUFFICES ASSUME NEW q \in Requests, NEW i \in DOMAIN out'[q], out'[q][i].disp # "rejected"
               PROVE  /\ out'[q][i].key # <<>> /\ out'[q][i].hash # NoHash
                      /\ NowEnqueued(out'[q][i].key, out'[q][i].hash)
  BY DEF RowInv, Enqueued, NowEnqueued
<1>2. CASE i \in DOMAIN out[q]
  <2>1. out'[q][i] = out[q][i]
    BY <1>2, OutGrows
  <2>2. /\ out[q][i].key # <<>> /\ out[q][i].hash # NoHash
        /\ Enqueued(out[q][i].key, out[q][i].hash)
    BY <1>1, <1>2, <2>1 DEF RowInv
  <2>3. NowEnqueued(out[q][i].key, out[q][i].hash)
    BY <2>2, EnqueuedStays
  <2> QED
    BY <2>1, <2>2, <2>3
<1>3. CASE i \notin DOMAIN out[q]
  <2>1. ProcessNext(r) /\ q = r
    BY <1>1, <1>3, OutGrows, StepFrame
  <2> DEFINE item == Items(r)[next[r]]
             row == IF call[r].kind = "bulk" /\ LineError(item) THEN Rejected(item) ELSE Process(item)
  <2>2. out' = [out EXCEPT ![r] = Append(@, row)] /\ pc[r] = "process" /\ next[r] <= Len(Items(r))
    BY <2>1 DEF ProcessNext
  <2> HIDE DEF row
  <2>3. out'[r] = Append(out[r], row)
    BY <2>2 DEF PlaceInv
  <2>4. out'[r][i] = row
    BY <1>1, <1>3, <2>1, <2>3, AppendRow DEF PlaceInv
  <2>5. HashNormalized(ParseSingleProduct(item)) # NoHash
    <3>1. call \in Plans /\ call[r] # NoCall /\ next[r] \in Nat /\ next[r] >= 1
      BY <2>2 DEF PlaceInv, CallInv
    <3>2. call[r].json.t = "array"
      BY <2>2, <3>1 DEF Items
    <3>3. /\ Items(r) = call[r].json.a
          /\ Len(Items(r)) \in Nat /\ DOMAIN Items(r) = 1 .. Len(Items(r))
          /\ \A j \in DOMAIN Items(r) : HashNormalized(ParseSingleProduct(Items(r)[j])) # NoHash
      BY <3>1, <3>2, ItemFacts
    <3> QED
      BY <2>2, <3>1, <3>3
  <2>6. row = Process(item) /\ row.disp # "rejected"
    <3>1. Rejected(item).disp = "rejected"
      BY DEF Rejected
    <3> QED
      BY <1>1, <2>1, <2>4, <3>1 DEF row
  <2>7. /\ row.key # <<>> /\ row.hash # NoHash
        /\ \/ row.disp = "enqueued"
           \/ row.key \in DOMAIN hashes /\ hashes[row.key] = row.hash
    BY <2>5, <2>6, ProcessRow
  <2>8. NowEnqueued(out'[q][i].key, out'[q][i].hash)
    <3>1. CASE row.disp = "enqueued"
      BY <1>1, <2>1, <2>4, <3>1 DEF NowEnqueued
    <3>2. CASE row.key \in DOMAIN hashes /\ hashes[row.key] = row.hash
      <4>1. Enqueued(row.key, row.hash)
        BY <3>2 DEF HashInv
      <4> QED
        BY <2>1, <2>4, <4>1, EnqueuedStays
    <3> QED
      BY <2>7, <3>1, <3>2
  <2> QED
    BY <2>1, <2>4, <2>7, <2>8
<1> QED
  BY <1>2, <1>3

LEMMA HashStep ==
    ASSUME LegacyInv, NEW r \in Requests, Step(r)
    PROVE  HashInv'
<1> USE DEF LegacyInv
<1>1. CASE UNCHANGED hashVars
  <2>1. ASSUME NEW k \in DOMAIN hashes PROVE NowEnqueued(k, hashes[k])
    <3>1. Enqueued(k, hashes[k])
      BY DEF HashInv
    <3> QED
      BY <3>1, EnqueuedStays
  <2> QED
    BY <1>1, <2>1 DEF HashInv, hashVars, Enqueued, NowEnqueued
<1>2. ASSUME NEW j \in DOMAIN out[r], SetHash(out[r][j]), out[r][j].disp # "rejected"
      PROVE  HashInv'
  <2> DEFINE row == out[r][j]
  <2>1. /\ DOMAIN hashes' = DOMAIN hashes \cup {row.key}
        /\ DOMAIN content' = DOMAIN content \cup {row.key}
        /\ hashes'[row.key] = row.hash
        /\ \A k \in DOMAIN hashes : k # row.key => hashes'[k] = hashes[k]
    BY <1>2 DEF SetHash, Put
  <2>2. row.key # <<>> /\ row.hash # NoHash /\ Enqueued(row.key, row.hash)
    BY <1>2 DEF RowInv
  <2> HIDE DEF row
  <2>3. ASSUME NEW k \in DOMAIN hashes'
        PROVE  k # <<>> /\ hashes'[k] # NoHash /\ NowEnqueued(k, hashes'[k])
    <3>1. CASE k = row.key
      BY <2>1, <2>2, <3>1, EnqueuedStays
    <3>2. CASE k # row.key
      <4>1. k # <<>> /\ hashes[k] # NoHash /\ Enqueued(k, hashes[k]) /\ hashes'[k] = hashes[k]
        BY <2>1, <3>2 DEF HashInv
      <4> QED
        BY <4>1, EnqueuedStays
    <3> QED
      BY <3>1, <3>2
  <2> QED
    BY <2>1, <2>3 DEF HashInv, Enqueued, NowEnqueued
<1>3. CASE SetLine(r)
  <2>1. /\ next[r] \in DOMAIN out[r] /\ out[r][next[r]].disp = "enqueued"
    BY <1>3 DEF SetLine, PlaceInv
  <2> QED
    BY <1>2, <1>3, <2>1 DEF SetLine
<1>4. CASE UpdateNext(r) /\ ~UNCHANGED hashVars
  <2>1. next[r] \in DOMAIN out[r] /\ Stores(out[r][next[r]]) /\ SetHash(out[r][next[r]])
    BY <1>4 DEF UpdateNext, PlaceInv
  <2> QED
    BY <1>2, <2>1 DEF Stores
<1>5. UNCHANGED hashVars \/ SetLine(r) \/ UpdateNext(r)
  BY DEF Step, Receive, Lookup, DeleteExpired, Begin, ProcessNext, EndProcess, End, Remember
<1> QED
  BY <1>1, <1>3, <1>4, <1>5

LEMMA TickStep == LegacyInv /\ Tick => LegacyInv'
<1> SUFFICES ASSUME LegacyInv, Tick PROVE LegacyInv'
  OBVIOUS
<1> USE DEF LegacyInv, Tick, requestVars, hashVars, recordVars
<1>1. PlaceInv'
  BY LegacyAssumption DEF PlaceInv
<1>2. CallInv' /\ RecordInv' /\ ReplayInv' /\ ReplayIsFresh' /\ DoneInv'
  BY DEF CallInv, RecordInv, ReplayInv, ReplayIsFresh, DoneInv, Keyed
<1>3. RowInv' /\ HashInv'
  BY DEF RowInv, HashInv, Enqueued
<1> QED
  BY <1>1, <1>2, <1>3

THEOREM LegacyInvHolds == Spec => []LegacyInv
<1>1. LegacyInv /\ [Next]_vars => LegacyInv'
  <2> SUFFICES ASSUME LegacyInv, [Next]_vars PROVE LegacyInv'
    OBVIOUS
  <2>1. CASE UNCHANGED vars
    <3> USE <2>1 DEF LegacyInv, vars, requestVars, hashVars, recordVars
    <3>1. PlaceInv' /\ CallInv'
      BY DEF PlaceInv, CallInv, Keyed
    <3>2. RecordInv' /\ ReplayInv' /\ ReplayIsFresh' /\ DoneInv'
      BY DEF RecordInv, ReplayInv, ReplayIsFresh, DoneInv, Keyed
    <3>3. RowInv' /\ HashInv'
      BY DEF RowInv, HashInv, Enqueued
    <3> QED
      BY <3>1, <3>2, <3>3
  <2>2. ASSUME NEW r \in Requests, Step(r) PROVE LegacyInv'
    BY <2>2, PlaceStep, CallStep, RecordStep, ReplayStep, DoneStep, RowStep, HashStep DEF LegacyInv
  <2> QED
    BY <2>1, <2>2, TickStep DEF Next, Step
<1> QED
  BY InvInit, <1>1, PTL DEF Spec

(* Type correctness of the legacy endpoints. *)
THEOREM TypeCorrect == Spec => []TypeOK
<1>1. LegacyInv => TypeOK
  BY LegacyAssumption DEF LegacyInv, PlaceInv, CallInv, RecordInv, HashInv, TypeOK
<1> QED
  BY LegacyInvHolds, <1>1, PTL

(* Whatever MemoryHashStore holds was enqueued, although the JSON handler  *)
(* stores hashes it compared a while ago: they too were stored before, or  *)
(* are its own.                                                            *)
THEOREM StoredWasEnqueuedHolds == Spec => []StoredWasEnqueued
<1>1. LegacyInv => StoredWasEnqueued
  BY DEF LegacyInv, HashInv, Enqueued, StoredWasEnqueued
<1> QED
  BY LegacyInvHolds, <1>1, PTL

(* A replay repeats what a call with the same key was answered, at most    *)
(* TTL ago.                                                                *)
THEOREM ReplayIsFreshHolds == Spec => []ReplayIsFresh
<1>1. LegacyInv => ReplayIsFresh
  BY DEF LegacyInv
<1> QED
  BY LegacyInvHolds, <1>1, PTL

(* No call is executed whose key an earlier call was answered under, as    *)
(* long as no record of the key was found expired.                         *)
THEOREM ExecutedOncePerKeyHolds == Spec => ExecutedOncePerKey
<1>1. ASSUME LegacyInv, [Next]_vars, NEW r \in Requests,
             pc[r] = "lookup", pc'[r] = "begin", call[r].key \notin expired,
             NEW q \in Requests \ {r}, pc[q] = "done", call[q].key = call[r].key
      PROVE  FALSE
  <2> USE <1>1 DEF LegacyInv
  <2>1. call[r].key \in DOMAIN records
    BY DEF DoneInv, CallInv, Keyed
  <2>2. Lookup(r)
    <3>1. pc' # pc
      OBVIOUS
    <3>2. ~UNCHANGED vars /\ ~Tick
      BY <3>1 DEF vars, requestVars, Tick
    <3>3. PICK s \in Requests : Step(s)
      BY <3>2 DEF Next, Step
    <3>4. s = r
      BY <3>3, StepFrame
    <3> QED
      BY <3>3, <3>4 DEF Step, Receive, DeleteExpired, Begin, ProcessNext, SetLine, EndProcess,
                        UpdateNext, End, Remember
  <2> QED
    BY <2>1, <2>2 DEF Lookup, Goto, PlaceInv
<1>2. LegacyInv /\ [Next]_vars =>
        [\A r \in Requests :
            (pc[r] = "lookup" /\ pc'[r] = "begin" /\ call[r].key \notin expired) =>
               \A q \in Requests \ {r} : ~(pc[q] = "done" /\ call[q].key = call[r].key)]_vars
  BY <1>1
<1> QED
  BY LegacyInvHolds, <1>2, PTL DEF Spec, ExecutedOncePerKey
-----------------------------------------------------------------------------
(* The documents the calls send. *)
Sent == UNION {ToSet(Items(r)) : r \in {q \in Requests : call[q] # NoCall}}

(* A JSON body that is processed was parsed as a whole. *)
ParsedInv ==
    \A r \in Requests :
        pc[r] \in {"process", "set"} /\ call[r].kind = "json" => ~BodyError(call[r].json)

(* What a result says of its document, against the content it was compared *)
(* with.                                                                   *)
VerdictOK(row) ==
    LET p == ParseSingleProduct(row.item)
    IN  /\ row.item \in Sent
        /\ row.disp # "rejected" <=> ~LineError(row.item) /\ IsValid(p)
        /\ row.against = NoProduct \/ \E d \in Sent : row.against = ParseSingleProduct(d)
        /\ row.disp # "rejected" =>
              /\ row.hash = HashNormalized(p)
              /\ row.disp = "unchanged"
                 <=> row.against # NoProduct /\ HashNormalized(row.against) = row.hash

VerdictInv == \A r \in Requests : \A i \in DOMAIN out[r] : VerdictOK(out[r][i])

(* A stored hash is the hash of the content it stands for. *)
ContentInv ==
    \A k \in DOMAIN hashes :
        /\ hashes[k] = HashNormalized(content[k])
        /\ \E d \in Sent : content[k] = ParseSingleProduct(d)

ExactInv == ParsedInv /\ VerdictInv /\ ContentInv

(* Documents are what BodyAssumption says they are. *)
LEMMA SentFacts ==
    ASSUME call \in Plans, NEW d \in Sent
    PROVE  /\ IsDocument(d)
           /\ ParseSingleProduct(d) # NoProduct
           /\ HashNormalized(ParseSingleProduct(d)) # NoHash
<1>1. PICK r \in Requests : call[r] # NoCall /\ d \in ToSet(Items(r))
  BY DEF Sent
<1>2. PICK j \in DOMAIN Items(r) : d = Items(r)[j]
  BY <1>1 DEF ToSet
<1>3. CASE call[r].json.t = "array"
  BY <1>1, <1>2, <1>3, ItemFacts
<1>4. CASE call[r].json.t # "array"
  <2>1. Items(r) = <<>>
    BY <1>4 DEF Items
  <2> QED
    BY <1>2, <2>1
<1> QED
  BY <1>3, <1>4

(* What a handler says of the next document. *)
LEMMA NextVerdict ==
    ASSUME LegacyInv, ParsedInv, ContentInv, NEW r \in Requests,
           pc[r] = "process", next[r] <= Len(Items(r))
    PROVE  LET item == Items(r)[next[r]]
           IN  VerdictOK(IF call[r].kind = "bulk" /\ LineError(item) THEN Rejected(item) ELSE Process(item))
<1> USE DEF LegacyInv
<1> DEFINE item == Items(r)[next[r]]
           row == IF call[r].kind = "bulk" /\ LineError(item) THEN Rejected(item) ELSE Process(item)
<1>0. call \in Plans /\ call[r] # NoCall /\ next[r] \in Nat /\ next[r] >= 1
  BY DEF PlaceInv, CallInv
<1>1. call[r].json.t = "array"
  BY <1>0 DEF Items
<1>2. /\ Items(r) = call[r].json.a
      /\ Len(Items(r)) \in Nat /\ DOMAIN Items(r) = 1 .. Len(Items(r))
  BY <1>0, <1>1, ItemFacts
<1>3. next[r] \in DOMAIN Items(r)
  BY <1>0, <1>2
<1>4. item \in Sent
  BY <1>0, <1>3 DEF Sent, ToSet
<1>5. call[r].kind = "bulk" \/ ~LineError(item)
  <2>1. call[r].kind \in {"json", "bulk"}
    BY <1>0, LegacyAssumption
  <2>2. ASSUME call[r].kind = "json" PROVE ~LineError(item)
    <3>1. ~BodyError(call[r].json)
      BY <2>2 DEF ParsedInv
    <3> QED
      BY <1>1, <1>2, <1>3, <3>1 DEF BodyError
  <2> QED
    BY <2>1, <2>2
<1> HIDE DEF item
<1>6. CASE LineError(item)
  <2>1. row = [key |-> <<>>, hash |-> NoHash, disp |-> "rejected", item |-> item, against |-> NoProduct]
    BY <1>5, <1>6 DEF Rejected
  <2>2. row.disp = "rejected" /\ row.item = item /\ row.against = NoProduct
    BY <2>1
  <2> HIDE DEF row
  <2>3. VerdictOK(row)
    BY <1>4, <1>6, <2>2 DEF VerdictOK
  <2> QED
    BY <2>3 DEF row, item
<1>7. CASE ~LineError(item) /\ ~IsValid(ParseSingleProduct(item))
  <2>1. row = [key |-> KeyOf(ParseSingleProduct(item)), hash |-> NoHash, disp |-> "rejected",
               item |-> item, against |-> NoProduct]
    BY <1>7 DEF Process
  <2>2. row.disp = "rejected" /\ row.item = item /\ row.against = NoProduct
    BY <2>1
  <2> HIDE DEF row
  <2>3. VerdictOK(row)
    BY <1>4, <1>7, <2>2 DEF VerdictOK
  <2> QED
    BY <2>3 DEF row, item
<1>8. CASE ~LineError(item) /\ IsValid(ParseSingleProduct(item))
  <2> DEFINE p == ParseSingleProduct(item)
             k == KeyOf(p)
             hash == HashNormalized(p)
             old == IF k \in DOMAIN hashes THEN hashes[k] ELSE NoHash
             against == IF k \in DOMAIN hashes THEN content[k] ELSE NoProduct
             disp == Delta!ComputeDisposition(old, hash)
  <2>1. row = [key |-> k, hash |-> hash, disp |-> disp, item |-> item, against |-> against]
    BY <1>8 DEF Process
  <2>2. disp = IF old # NoHash /\ old = hash THEN "unchanged" ELSE "enqueued"
    BY DEF Delta!ComputeDisposition
  <2>3. hash # NoHash
    BY <1>0, <1>4, SentFacts
  <2>4. ASSUME k \in DOMAIN hashes
        PROVE  /\ old # NoHash /\ old = HashNormalized(against) /\ against # NoProduct
               /\ \E d \in Sent : against = ParseSingleProduct(d)
    <3>1. /\ hashes[k] = HashNormalized(content[k]) /\ hashes[k] # NoHash
          /\ \E d \in Sent : content[k] = ParseSingleProduct(d)
      BY <2>4 DEF ContentInv, HashInv
    <3>2. content[k] # NoProduct
      BY <1>0, <3>1, SentFacts
    <3> QED
      BY <2>4, <3>1, <3>2
  <2>5. ASSUME k \notin DOMAIN hashes
        PROVE  old = NoHash /\ against = NoProduct
    BY <2>5
  <2>6. hash = HashNormalized(ParseSingleProduct(item))
    OBVIOUS
  <2> HIDE DEF p, k, hash, old, against, disp, row
  <2>7. row.hash = hash /\ row.disp = disp /\ row.item = item /\ row.against = against
    BY <2>1
  <2>8. disp = "unchanged" <=> against # NoProduct /\ HashNormalized(against) = hash
    BY <2>2, <2>4, <2>5
  <2>9. disp # "rejected"
    BY <2>2
  <2>10. against = NoProduct \/ \E d \in Sent : against = ParseSingleProduct(d)
    BY <2>4, <2>5
  <2>11. VerdictOK(row)
    BY <1>4, <1>8, <2>6, <2>7, <2>8, <2>9, <2>10 DEF VerdictOK
  <2> QED
    BY <2>11 DEF row, item
<1> QED
  BY <1>6, <1>7, <1>8

LEMMA ExactInit == Init => ExactInv
BY DEF Init, ExactInv, ParsedInv, VerdictInv, ContentInv

LEMMA ExactStep ==
    ASSUME LegacyInv, ExactInv, NEW r \in Requests, Step(r)
    PROVE  ExactInv'
<1> USE DEF LegacyInv, ExactInv
<1>0. /\ call' = call
      /\ \A q \in Requests \ {r} : pc'[q] = pc[q]
  BY StepFrame
<1>1. Sent' = Sent
  BY <1>0 DEF Sent, Items
<1>2. ParsedInv'
  <2>1. ASSUME pc'[r] \in {"process", "set"}, call[r].kind = "json" PROVE ~BodyError(call[r].json)
    <3> USE <2>1 DEF PlaceInv, Goto
    <3>1. CASE pc[r] \in {"process", "set"}
      BY <3>1 DEF ParsedInv
    <3>2. CASE Begin(r)
      BY <3>2 DEF Begin, Respond, Refuse
    <3>3. CASE Receive(r) \/ Lookup(r) \/ DeleteExpired(r) \/ UpdateNext(r) \/ Remember(r)
      BY <3>1, <3>3 DEF Receive, Lookup, DeleteExpired, UpdateNext, Remember
    <3>4. CASE SetLine(r) \/ EndProcess(r) \/ ProcessNext(r)
      BY <3>1, <3>4 DEF SetLine, EndProcess, ProcessNext
    <3>5. CASE End(r)
      BY <3>1, <3>5 DEF End, Respond, Refuse
    <3> QED
      BY <3>2, <3>3, <3>4, <3>5 DEF Step
  <2> QED
    BY <1>0, <2>1 DEF ParsedInv
<1>3. ASSUME NEW q \in Requests, NEW i \in DOMAIN out'[q]
      PROVE  VerdictOK(out'[q][i])
  <2>1. CASE i \in DOMAIN out[q]
    <3>1. out'[q][i] = out[q][i]
      BY <2>1, OutGrows
    <3> QED
      BY <2>1, <3>1 DEF VerdictInv
  <2>2. CASE i \notin DOMAIN out[q]
    <3>1. ProcessNext(r) /\ q = r
      BY <1>3, <2>2, OutGrows, StepFrame
    <3> DEFINE item == Items(r)[next[r]]
               row == IF call[r].kind = "bulk" /\ LineError(item) THEN Rejected(item) ELSE Process(item)
    <3>2. out' = [out EXCEPT ![r] = Append(@, row)] /\ pc[r] = "process" /\ next[r] <= Len(Items(r))
      BY <3>1 DEF ProcessNext
    <3>3. VerdictOK(row)
      BY <3>2, NextVerdict
    <3> HIDE DEF row
    <3>4. out'[r] = Append(out[r], row)
      BY <3>2 DEF PlaceInv
    <3>5. out'[r][i] = row
      BY <1>3, <2>2, <3>1, <3>4, AppendRow DEF PlaceInv
    <3> QED
      BY <3>1, <3>3, <3>5
  <2> QED
    BY <2>1, <2>2
<1>4. VerdictInv'
  BY <1>1, <1>3 DEF VerdictInv, VerdictOK
<1>5. ContentInv'
  <2>1. CASE UNCHANGED hashVars
    BY <1>1, <2>1 DEF ContentInv, hashVars
  <2>2. ASSUME NEW j \in DOMAIN out[r], SetHash(out[r][j]), out[r][j].disp # "rejected"
        PROVE  ContentInv'
    <3> DEFINE row == out[r][j]
    <3>1. /\ DOMAIN hashes' = DOMAIN hashes \cup {row.key}
          /\ hashes'[row.key] = row.hash /\ content'[row.key] = ParseSingleProduct(row.item)
          /\ \A k \in DOMAIN hashes : k # row.key => hashes'[k] = hashes[k] /\ content'[k] = content[k]
      BY <2>2 DEF SetHash, Put, HashInv
    <3>2. row.item \in Sent /\ row.hash = HashNormalized(ParseSingleProduct(row.item))
      BY <2>2 DEF VerdictInv, VerdictOK
    <3> HIDE DEF row
    <3>3. ASSUME NEW k \in DOMAIN hashes'
          PROVE  /\ hashes'[k] = HashNormalized(content'[k])
                 /\ \E d \in Sent : content'[k] = ParseSingleProduct(d)
      <4>1. CASE k = row.key
        BY <3>1, <3>2, <4>1
      <4>2. CASE k # row.key
        BY <3>1, <4>2 DEF ContentInv
      <4> QED
        BY <4>1, <4>2
    <3> QED
      BY <1>1, <3>3 DEF ContentInv
  <2>3. CASE SetLine(r)
    <3>1. next[r] \in DOMAIN out[r] /\ out[r][next[r]].disp = "enqueued"
      BY <2>3 DEF SetLine, PlaceInv
    <3> QED
      BY <2>2, <2>3, <3>1 DEF SetLine
  <2>4. CASE UpdateNext(r) /\ ~UNCHANGED hashVars
    <3>1. next[r] \in DOMAIN out[r] /\ Stores(out[r][next[r]]) /\ SetHash(out[r][next[r]])
      BY <2>4 DEF UpdateNext, PlaceInv
    <3> QED
      BY <2>2, <3>1 DEF Stores
  <2>5. UNCHANGED hashVars \/ SetLine(r) \/ UpdateNext(r)
    BY DEF Step, Receive, Lookup, DeleteExpired, Begin, ProcessNext, EndProcess, End, Remember
  <2> QED
    BY <2>1, <2>3, <2>4, <2>5
<1> QED
  BY <1>2, <1>4, <1>5

(* Every result says what is true of its document and of the content it    *)
(* was compared with, and every stored hash is that of its content.        *)
THEOREM ExactInvHolds == Spec => []ExactInv
<1>1. LegacyInv /\ ExactInv /\ [Next]_vars => ExactInv'
  <2> SUFFICES ASSUME LegacyInv, ExactInv, [Next]_vars PROVE ExactInv'
    OBVIOUS
  <2>1. CASE UNCHANGED vars \/ Tick
    <3>1. UNCHANGED <<requestVars, hashVars>>
      BY <2>1 DEF vars, Tick
    <3> USE <3>1 DEF ExactInv, requestVars, hashVars
    <3>2. Sent' = Sent
      BY DEF Sent, Items
    <3>3. ParsedInv'
      BY DEF ParsedInv
    <3>4. VerdictInv'
      BY <3>2 DEF VerdictInv, VerdictOK
    <3>5. ContentInv'
      BY <3>2 DEF ContentInv
    <3> QED
      BY <3>3, <3>4, <3>5
  <2>2. ASSUME NEW r \in Requests, Step(r) PROVE ExactInv'
    BY <2>2, ExactStep
  <2> QED
    BY <2>1, <2>2 DEF Next, Step
<1> QED
  BY ExactInit, LegacyInvHolds, <1>1, PTL DEF Spec

(* Errors of decoding are dropped, and validation notices: every handler   *)
(* accepts exactly the complete products, however long their texts, lists  *)
(* and objects are and however the members of a price or a control are     *)
(* spelled and repeated.                                                   *)
THEOREM ValidationExactHolds == Spec => []ValidationExact
<1>1. LegacyInv /\ ExactInv => ValidationExact
  <2> SUFFICES ASSUME LegacyInv, ExactInv, NEW r \in Requests, NEW i \in DOMAIN out[r]
               PROVE  out[r][i].disp # "rejected" <=>
                         ~LineError(out[r][i].item) /\ Complete(out[r][i].item)
    BY DEF ValidationExact
  <2> DEFINE row == out[r][i]
  <2>1. VerdictOK(row)
    BY DEF ExactInv, VerdictInv
  <2>2. call \in Plans
    BY DEF LegacyInv, PlaceInv
  <2> HIDE DEF row
  <2>3. IsDocument(row.item)
    BY <2>1, <2>2, SentFacts DEF VerdictOK
  <2>4. IsValid(ParseSingleProduct(row.item)) <=> Complete(row.item)
    BY <2>3, ValidExact
  <2>5. row.disp # "rejected" <=> ~LineError(row.item) /\ Complete(row.item)
    BY <2>1, <2>4 DEF VerdictOK
  <2> QED
    BY <2>5 DEF row
<1> QED
  BY LegacyInvHolds, ExactInvHolds, <1>1, PTL

(* 'unchanged' is said of a product exactly when its content is the one    *)
(* whose hash was stored when it was looked up, up to the order of links.  *)
THEOREM DeltaExactHolds == Spec => []DeltaExact
<1>1. LegacyInv /\ ExactInv => DeltaExact
  <2> SUFFICES ASSUME LegacyInv, ExactInv, NEW r \in Requests, NEW i \in DOMAIN out[r],
                      out[r][i].disp # "rejected"
               PROVE  out[r][i].disp = "unchanged"
                      <=> /\ out[r][i].against # NoProduct
                          /\ SameContent(ParseSingleProduct(out[r][i].item), out[r][i].against)
    BY DEF DeltaExact
  <2> DEFINE row == out[r][i]
  <2>1. VerdictOK(row) /\ row.disp # "rejected"
    BY DEF ExactInv, VerdictInv
  <2>2. call \in Plans
    BY DEF LegacyInv, PlaceInv
  <2> HIDE DEF row
  <2>3. IsDocument(row.item)
    BY <2>1, <2>2, SentFacts DEF VerdictOK
  <2>4. ASSUME row.against # NoProduct
        PROVE  HashNormalized(row.against) = row.hash
               <=> SameContent(ParseSingleProduct(row.item), row.against)
    <3>1. PICK d \in Sent : row.against = ParseSingleProduct(d)
      BY <2>1, <2>4 DEF VerdictOK
    <3>2. IsDocument(d)
      BY <2>2, SentFacts
    <3>3. row.hash = HashNormalized(ParseSingleProduct(row.item))
      BY <2>1 DEF VerdictOK
    <3> QED
      BY <2>3, <3>1, <3>2, <3>3, HashExact
  <2>5. row.disp = "unchanged"
        <=> /\ row.against # NoProduct
            /\ SameContent(ParseSingleProduct(row.item), row.against)
    BY <2>1, <2>4 DEF VerdictOK
  <2> QED
    BY <2>5 DEF row
<1> QED
  BY LegacyInvHolds, ExactInvHolds, <1>1, PTL
=============================================================================
