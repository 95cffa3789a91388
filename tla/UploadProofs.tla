---------------------------- MODULE UploadProofs ----------------------------
(***************************************************************************)
(* Proofs about Upload: what an answer tells the client, for any number of *)
(* concurrent calls and any bodies, with failing Store calls and crashes.  *)
(***************************************************************************)
EXTENDS Upload, FiniteSetTheorems, TLAPS

IsList(s) == s \in Seq({s[i] : i \in DOMAIN s})

(* The handler of r by the place it is at: results follow the body, the    *)
(* run exists from InsertRun on, and run_products follows the results.     *)
HandlerOK(r) ==
    /\ IsList(out[r]) /\ IsList(runProducts[r])
    /\ pc[r] # "idle" => req[r] \in Shapes
    /\ pc[r] = "idle" => out[r] = <<>> /\ cur[r] = 1
    /\ pc[r] = "item" => Len(out[r]) + 1 = cur[r]
    /\ pc[r] = "upsert" => Len(out[r]) = cur[r]
    /\ pc[r] # "idle" => Len(out[r]) <= Len(req[r].items)
    /\ pc[r] # "idle" => \A i \in 1 .. Len(out[r]) : out[r][i].key = req[r].items[i].key
    /\ pc[r] \in {"persist", "insert_run", "insert_rows"} => Len(out[r]) = Len(req[r].items)
    /\ pc[r] \in {"idle", "item", "upsert", "persist", "insert_run"} =>
          runs[r].status = "absent" /\ runProducts[r] = <<>>
    /\ pc[r] = "insert_run" => rec[r].status # "absent"
    /\ pc[r] \in {"insert_run", "insert_rows"} => req[r].body = "whole"
    /\ pc[r] = "persist" => req[r].kind = "json"
    /\ pc[r] \in {"item", "upsert", "persist"} => req[r].body # "malformed"
    /\ pc[r] = "insert_rows" =>
          /\ runs[r].status # "absent"
          /\ Len(runProducts[r]) + 1 = cur[r]
          /\ cur[r] <= Len(out[r]) + 1
          /\ \A i \in 1 .. Len(runProducts[r]) : runProducts[r][i] = out[r][i]
    /\ pc[r] # "done" => resp[r] = "none"
    /\ pc[r] = "done" => resp[r] \in {"ok", "bad_request", "error", "lost"}
    /\ resp[r] = "ok" =>
          /\ runs[r].status # "absent" /\ runProducts[r] = out[r]
          /\ Len(out[r]) = Len(req[r].items) /\ req[r].body = "whole"
    /\ resp[r] = "bad_request" => runs[r].status = "absent"

HandlerInv ==
    /\ pc \in [Requests -> PCs]
    /\ cur \in [Requests -> Nat \ {0}]
    /\ DOMAIN req = Requests /\ DOMAIN out = Requests /\ DOMAIN rec = Requests
    /\ DOMAIN resp = Requests /\ DOMAIN runs = Requests /\ DOMAIN runProducts = Requests
    /\ \A r \in Requests : HandlerOK(r)

(* Where a call is in the middleware and in its handler. *)
StageInv ==
    \A r \in Requests :
        /\ stage[r] \in {"client", "lookup"} => pc[r] = "idle"
        /\ pc[r] \notin {"idle", "done"} => stage[r] = "handler"
        /\ pc[r] = "done" /\ stage[r] = "handler" => resp[r] # "lost"
        /\ stage[r] # "client" => sent[r] \in Shapes
        /\ stage[r] \in {"lookup", "store"} => idem[r] # None
        /\ stage[r] \in {"client", "lookup", "handler"} => given[r] = None
        /\ stage[r] = "store" => given[r] # None /\ given[r].of = r
        /\ pc[r] # "idle" => req[r] \in BodiesSeen(sent[r], idem[r])

(* An answer a handler wrote is the one it ended with; another call has it *)
(* only out of the cache, in the same scope.                               *)
GivenInv ==
    \A r \in Requests : given[r] # None /\ given[r].of # None =>
        LET d == given[r].of
        IN  /\ given[d] = given[r]
            /\ pc[d] = "done" /\ given[d].code = CodeOf(resp[d])
            /\ resp[d] \in {"ok", "bad_request", "error"}
            /\ stage[d] \in {"store", "over"} /\ stage[r] \in {"store", "over"}
            /\ d # r => Scope(d) = Scope(r) /\ idem[r] # None

CacheInv ==
    \A s \in Scopes : cache[s] # None =>
        LET d == cache[s].of
        IN  /\ d \in Requests /\ given[d] = cache[s] /\ Scope(d) = s
            /\ stage[d] = "over"

UploadInv ==
    TypeOK /\ out \in [Requests -> Seq(Row)] /\ HandlerInv /\ StageInv /\ GivenInv /\ CacheInv
-----------------------------------------------------------------------------
LEMMA AppendList ==
    ASSUME NEW s, IsList(s), NEW x
    PROVE  /\ IsList(Append(s, x))
           /\ Len(s) \in Nat /\ Len(Append(s, x)) = Len(s) + 1
           /\ \A i \in 1 .. Len(s) : Append(s, x)[i] = s[i]
           /\ Append(s, x)[Len(s) + 1] = x
<1> DEFINE S == {s[i] : i \in DOMAIN s} \cup {x}
           u == Append(s, x)
<1>1. s \in Seq(S)
  <2>1. Len(s) \in Nat /\ DOMAIN s = 1 .. Len(s)
    BY DEF IsList
  <2> QED
    BY <2>1 DEF IsList
<1>2. /\ u \in Seq(S) /\ Len(u) = Len(s) + 1 /\ Len(s) \in Nat /\ DOMAIN u = 1 .. Len(s) + 1
      /\ \A i \in 1 .. Len(s) : u[i] = s[i]
      /\ u[Len(s) + 1] = x
  BY <1>1
<1>3. u \in Seq({u[i] : i \in DOMAIN u})
  BY <1>2
<1> QED
  BY <1>2, <1>3 DEF IsList

(* Two lists with the same elements are the same. *)
LEMMA ListEqual ==
    ASSUME NEW s, NEW u, IsList(s), IsList(u), Len(s) = Len(u),
           \A i \in 1 .. Len(s) : s[i] = u[i]
    PROVE  s = u
<1>1. /\ DOMAIN s = 1 .. Len(s) /\ DOMAIN u = 1 .. Len(u)
      /\ s = [i \in DOMAIN s |-> s[i]] /\ u = [i \in DOMAIN u |-> u[i]]
  BY DEF IsList
<1> QED
  BY <1>1

LEMMA InvInit == Init => UploadInv
<1> SUFFICES ASSUME Init PROVE UploadInv
  OBVIOUS
<1> USE DEF Init, StoreInit, HandlerInit
<1>1. TypeOK
  BY DEF TypeOK
<1>2. HandlerInv
  <2>1. IsList(<<>>) /\ Len(<<>>) = 0
    BY DEF IsList
  <2>2. NoRun.status = "absent"
    BY DEF NoRun
  <2> QED
    BY <2>1, <2>2 DEF HandlerInv, HandlerOK, PCs
<1>3. StageInv /\ GivenInv /\ CacheInv
  BY DEF StageInv, GivenInv, CacheInv
<1>4. out \in [Requests -> Seq(Row)]
  OBVIOUS
<1> QED
  BY <1>1, <1>2, <1>3, <1>4 DEF UploadInv
-----------------------------------------------------------------------------
HandlerMove(r) ==
    (\E shape \in Shapes : Accept(r, shape)) \/ HandlerStep(r) \/ HandlerFailure(r)

(* A handler only touches what belongs to its own request. *)
Others(r) ==
    /\ pc' \in [Requests -> PCs]
    /\ cur' \in [Requests -> Nat \ {0}]
    /\ DOMAIN req' = Requests /\ DOMAIN out' = Requests /\ DOMAIN rec' = Requests
    /\ DOMAIN resp' = Requests /\ DOMAIN runs' = Requests /\ DOMAIN runProducts' = Requests
    /\ \A q \in Requests \ {r} :
          /\ pc'[q] = pc[q] /\ cur'[q] = cur[q] /\ req'[q] = req[q] /\ out'[q] = out[q]
          /\ rec'[q] = rec[q] /\ resp'[q] = resp[q]
          /\ runs'[q] = runs[q] /\ runProducts'[q] = runProducts[q]

LEMMA AnswerFrame ==
    ASSUME HandlerInv, NEW r \in Requests, NEW a, Answer(r, a)
    PROVE  /\ pc' \in [Requests -> PCs] /\ cur' \in [Requests -> Nat \ {0}]
           /\ DOMAIN rec' = Requests /\ DOMAIN resp' = Requests
           /\ pc'[r] = "done" /\ cur'[r] = 1 /\ resp'[r] = a
           /\ \A q \in Requests \ {r} :
                 pc'[q] = pc[q] /\ cur'[q] = cur[q] /\ rec'[q] = rec[q] /\ resp'[q] = resp[q]
BY DEF Answer, Goto, HandlerInv, PCs

LEMMA HandlerFrame ==
    ASSUME HandlerInv, NEW r \in Requests, HandlerMove(r)
    PROVE  Others(r)
<1> USE DEF HandlerInv, Others, storeVars
<1>0. cur[r] + 1 \in Nat \ {0} /\ 1 \in Nat \ {0}
  OBVIOUS
<1>1. ASSUME NEW shape \in Shapes, Accept(r, shape)
      PROVE  Others(r)
  <2>1. /\ req' = [req EXCEPT ![r] = shape] /\ UNCHANGED <<out, runs, runProducts>>
        /\ \/ \E a \in Answers : Answer(r, a)
           \/ Goto(r, "item") /\ UNCHANGED <<cur, rec, resp>>
    BY <1>1 DEF Accept, Answers
  <2>2. CASE \E a \in Answers : Answer(r, a)
    BY <2>1, <2>2, AnswerFrame
  <2>3. CASE Goto(r, "item") /\ UNCHANGED <<cur, rec, resp>>
    BY <2>1, <2>3 DEF Goto, PCs
  <2> QED
    BY <2>1, <2>2, <2>3
<1>2. CASE ProcessItem(r)
  <2>1. UNCHANGED <<req, rec, resp, runs, runProducts>> /\ DOMAIN out' = Requests
        /\ \A q \in Requests \ {r} : out'[q] = out[q]
    BY <1>2 DEF ProcessItem
  <2>2. \/ pc' = [pc EXCEPT ![r] = "upsert"] /\ cur' = cur
        \/ pc' = pc /\ cur' = [cur EXCEPT ![r] = @ + 1]
    BY <1>2 DEF ProcessItem, Goto
  <2> QED
    BY <1>0, <2>1, <2>2 DEF PCs
<1>3. CASE UpsertLine(r)
  BY <1>0, <1>3 DEF UpsertLine, Goto, PCs
<1>4. CASE ScanFails(r)
  BY <1>4, AnswerFrame DEF ScanFails
<1>5. CASE BeginPersist(r)
  BY <1>0, <1>5 DEF BeginPersist, Goto, PCs
<1>6. CASE PersistRow(r)
  BY <1>0, <1>6 DEF PersistRow
<1>7. CASE BuildRun(r)
  BY <1>7 DEF BuildRun, Goto, PCs
<1>8. CASE InsertRun(r)
  BY <1>0, <1>8 DEF InsertRun, InsertRunRow, Goto, PCs
<1>9. CASE InsertRow(r)
  BY <1>0, <1>9 DEF InsertRow, InsertProductRow
<1>10. CASE Respond(r)
  BY <1>10, AnswerFrame DEF Respond
<1>11. CASE LookupFails(r)
  BY <1>11, AnswerFrame DEF LookupFails
<1>12. CASE UpsertFails(r)
  BY <1>12, AnswerFrame DEF UpsertFails
<1>13. CASE InsertRunFails(r)
  BY <1>13, AnswerFrame DEF InsertRunFails, InsertRunRow
<1>14. CASE InsertRowFails(r)
  BY <1>14, AnswerFrame DEF InsertRowFails, InsertProductRow
<1> QED
  BY <1>1, <1>2, <1>3, <1>4, <1>5, <1>6, <1>7, <1>8, <1>9, <1>10, <1>11, <1>12, <1>13, <1>14
     DEF HandlerMove, HandlerStep, HandlerFailure

(* A handler that stops with an answer keeps what it stored. *)
LEMMA AnswerOK ==
    ASSUME HandlerInv, NEW r \in Requests, NEW a \in {"bad_request", "error"}, Answer(r, a),
           pc[r] # "idle",
           req'[r] = req[r], out'[r] = out[r],
           IsList(runProducts'[r]),
           a = "bad_request" => runs'[r].status = "absent"
    PROVE  HandlerOK(r)'
<1>1. pc'[r] = "done" /\ resp'[r] = a
  BY AnswerFrame
<1>2. HandlerOK(r)
  BY DEF HandlerInv
<1>3. /\ IsList(out[r]) /\ req[r] \in Shapes /\ Len(out[r]) <= Len(req[r].items)
      /\ \A i \in 1 .. Len(out[r]) : out[r][i].key = req[r].items[i].key
  BY <1>2 DEF HandlerOK
<1> QED
  BY <1>1, <1>3 DEF HandlerOK

LEMMA HandlerKeeps ==
    ASSUME HandlerInv, NEW r \in Requests, HandlerMove(r)
    PROVE  HandlerOK(r)'
<1> USE DEF HandlerInv, storeVars
<1>0. HandlerOK(r) /\ Len(out[r]) \in Nat /\ Len(runProducts[r]) \in Nat /\ cur[r] \in Nat
  <2>1. HandlerOK(r) /\ cur[r] \in Nat
    OBVIOUS
  <2>2. IsList(out[r]) /\ IsList(runProducts[r])
    BY <2>1 DEF HandlerOK
  <2> QED
    BY <2>1, <2>2, AppendList
<1>s. pc[r] # "idle" => /\ req[r] \in Shape /\ Len(req[r].items) \in Nat
                        /\ req[r].kind = "json" => req[r].body # "cut"
                        /\ req[r].body \in {"whole", "malformed", "cut"}
  BY <1>0, ShapesAssumption DEF HandlerOK, Shape
<1>1. ASSUME NEW shape \in Shapes, Accept(r, shape)
      PROVE  HandlerOK(r)'
  <2>1. req'[r] = shape /\ UNCHANGED <<out, runs, runProducts>> /\ pc[r] = "idle"
    BY <1>1 DEF Accept
  <2>2. out[r] = <<>> /\ Len(out[r]) = 0 /\ Len(shape.items) \in Nat
    BY <1>0, <2>1, ShapesAssumption DEF HandlerOK, Shape
  <2>3. CASE Answer(r, "bad_request") \/ Answer(r, "error")
    <3>1. pc'[r] = "done" /\ resp'[r] \in {"bad_request", "error"}
      BY <2>3, AnswerFrame
    <3> QED
      BY <1>0, <2>1, <2>2, <3>1 DEF HandlerOK
  <2>4. CASE shape.body # "malformed" /\ Goto(r, "item") /\ UNCHANGED <<cur, rec, resp>>
    <3>1. pc'[r] = "item" /\ cur'[r] = cur[r] /\ resp'[r] = resp[r]
      BY <2>4 DEF Goto
    <3> QED
      BY <1>0, <2>1, <2>2, <2>4, <3>1 DEF HandlerOK
  <2> QED
    BY <1>1, <2>3, <2>4 DEF Accept
<1>2. CASE ProcessItem(r)
  <2> DEFINE item == req[r].items[cur[r]]
             row == ProcessProduct(item, PreviousHash(req[r].tenant, item))
  <2>1. /\ pc[r] = "item" /\ cur[r] <= Len(req[r].items)
        /\ out' = [out EXCEPT ![r] = Append(@, row)]
        /\ UNCHANGED <<req, rec, resp, runs, runProducts>>
        /\ \/ pc' = [pc EXCEPT ![r] = "upsert"] /\ cur' = cur
           \/ pc' = pc /\ cur' = [cur EXCEPT ![r] = @ + 1]
    BY <1>2 DEF ProcessItem, Goto
  <2>2. row.key = item.key
    BY DEF ProcessProduct
  <2> HIDE DEF row
  <2>3. /\ out'[r] = Append(out[r], row)
        /\ \/ pc'[r] = "upsert" /\ cur'[r] = cur[r]
           \/ pc'[r] = "item" /\ cur'[r] = cur[r] + 1
    BY <2>1
  <2>4. /\ IsList(out'[r]) /\ Len(out'[r]) = Len(out[r]) + 1
        /\ \A i \in 1 .. Len(out[r]) : out'[r][i] = out[r][i]
        /\ out'[r][Len(out[r]) + 1] = row
    BY <1>0, <2>3, AppendList DEF HandlerOK
  <2>5. cur[r] = Len(out[r]) + 1
    BY <1>0, <2>1 DEF HandlerOK
  <2>6. \A i \in 1 .. Len(out'[r]) : out'[r][i].key = req[r].items[i].key
    <3>1. SUFFICES ASSUME NEW i \in 1 .. Len(out'[r])
                   PROVE  out'[r][i].key = req[r].items[i].key
      OBVIOUS
    <3>2. CASE i = Len(out[r]) + 1
      BY <2>2, <2>4, <2>5, <3>2
    <3>3. CASE i # Len(out[r]) + 1
      <4>1. i \in 1 .. Len(out[r])
        BY <1>0, <2>4, <3>3
      <4> QED
        BY <1>0, <2>1, <2>4, <4>1 DEF HandlerOK
    <3> QED
      BY <3>2, <3>3
  <2> QED
    BY <1>0, <1>s, <2>1, <2>3, <2>4, <2>5, <2>6 DEF HandlerOK
<1>3. CASE UpsertLine(r)
  <2>1. /\ pc[r] = "upsert" /\ pc'[r] = "item" /\ cur'[r] = cur[r] + 1
        /\ UNCHANGED <<req, out, rec, resp, runs, runProducts>>
    BY <1>3 DEF UpsertLine, Goto
  <2> QED
    BY <1>0, <2>1 DEF HandlerOK
<1>4. CASE ScanFails(r)
  <2>1. pc[r] = "item" /\ UNCHANGED <<req, out, runs, runProducts>> /\ Answer(r, "bad_request")
    BY <1>4 DEF ScanFails
  <2>2. runs[r].status = "absent" /\ IsList(runProducts[r])
    BY <1>0, <2>1 DEF HandlerOK
  <2> QED
    BY <2>1, <2>2, AnswerOK
<1>5. CASE BeginPersist(r)
  <2>1. /\ pc[r] = "item" /\ pc'[r] = "persist" /\ req[r].kind = "json"
        /\ cur[r] > Len(req[r].items)
        /\ UNCHANGED <<req, out, rec, resp, runs, runProducts>>
    BY <1>5 DEF BeginPersist, Goto
  <2>2. Len(out[r]) = Len(req[r].items)
    BY <1>0, <1>s, <2>1 DEF HandlerOK
  <2> QED
    BY <1>0, <2>1, <2>2 DEF HandlerOK
<1>6. CASE PersistRow(r)
  <2>1. /\ pc[r] = "persist" /\ UNCHANGED <<pc, req, out, rec, resp, runs, runProducts>>
    BY <1>6 DEF PersistRow
  <2> QED
    BY <1>0, <2>1 DEF HandlerOK
<1>7. CASE BuildRun(r)
  <2>1. /\ \/ pc[r] = "persist"
           \/ pc[r] = "item" /\ cur[r] > Len(req[r].items) /\ req[r].body = "whole"
        /\ rec' = [rec EXCEPT ![r] = NewRunRecord(req[r].tenant, sum[r], clock)]
        /\ pc'[r] = "insert_run"
        /\ UNCHANGED <<req, cur, out, resp, runs, runProducts>>
    BY <1>7 DEF BuildRun, Goto
  <2>2. rec'[r].status # "absent"
    <3>1. rec'[r].status = RunStatus(sum[r])
      BY <2>1 DEF NewRunRecord
    <3> QED
      BY <3>1 DEF RunStatus
  <2>3. Len(out[r]) = Len(req[r].items) /\ req[r].body = "whole"
    BY <1>0, <1>s, <2>1 DEF HandlerOK
  <2>4. runs[r].status = "absent" /\ runProducts[r] = <<>>
    BY <1>0, <2>1 DEF HandlerOK
  <2> QED
    BY <1>0, <2>1, <2>2, <2>3, <2>4 DEF HandlerOK
<1>8. CASE InsertRun(r)
  <2>1. /\ pc[r] = "insert_run" /\ pc'[r] = "insert_rows" /\ cur'[r] = 1
        /\ runs'[r] = rec[r]
        /\ UNCHANGED <<req, out, rec, resp, runProducts>>
    BY <1>8 DEF InsertRun, InsertRunRow, Goto
  <2>2. runProducts[r] = <<>> /\ Len(runProducts[r]) = 0
    BY <1>0, <2>1 DEF HandlerOK
  <2> QED
    BY <1>0, <2>1, <2>2 DEF HandlerOK
<1>9. CASE InsertRow(r)
  <2>1. /\ pc[r] = "insert_rows" /\ cur[r] <= Len(out[r]) /\ cur'[r] = cur[r] + 1
        /\ runProducts'[r] = Append(runProducts[r], out[r][cur[r]])
        /\ UNCHANGED <<pc, req, out, rec, resp, runs>>
    BY <1>9 DEF InsertRow, InsertProductRow
  <2>2. /\ IsList(runProducts'[r]) /\ Len(runProducts'[r]) = Len(runProducts[r]) + 1
        /\ \A i \in 1 .. Len(runProducts[r]) : runProducts'[r][i] = runProducts[r][i]
        /\ runProducts'[r][Len(runProducts[r]) + 1] = out[r][cur[r]]
    BY <1>0, <2>1, AppendList DEF HandlerOK
  <2>3. \A i \in 1 .. Len(runProducts'[r]) : runProducts'[r][i] = out[r][i]
    BY <1>0, <2>1, <2>2 DEF HandlerOK
  <2> QED
    BY <1>0, <2>1, <2>2, <2>3 DEF HandlerOK
<1>10. CASE Respond(r)
  <2>1. /\ pc[r] = "insert_rows" /\ cur[r] > Len(out[r]) /\ Answer(r, "ok")
        /\ UNCHANGED <<req, out, runs, runProducts>>
    BY <1>10 DEF Respond
  <2>2. pc'[r] = "done" /\ resp'[r] = "ok"
    BY <2>1, AnswerFrame
  <2>3. runProducts[r] = out[r]
    <3>1. Len(runProducts[r]) = Len(out[r])
      BY <1>0, <2>1 DEF HandlerOK
    <3>2. \A i \in 1 .. Len(runProducts[r]) : runProducts[r][i] = out[r][i]
      BY <1>0, <2>1 DEF HandlerOK
    <3>3. IsList(runProducts[r]) /\ IsList(out[r])
      BY <1>0 DEF HandlerOK
    <3> QED
      BY <3>1, <3>2, <3>3, ListEqual
  <2> QED
    BY <1>0, <2>1, <2>2, <2>3 DEF HandlerOK
<1>11. CASE LookupFails(r)
  <2>1. pc[r] = "item" /\ UNCHANGED <<req, out, runProducts>> /\ Answer(r, "error")
    BY <1>11 DEF LookupFails
  <2> QED
    BY <1>0, <2>1, AnswerOK DEF HandlerOK
<1>12. CASE UpsertFails(r)
  <2>1. pc[r] # "idle" /\ UNCHANGED <<req, out, runProducts>> /\ Answer(r, "error")
    BY <1>12 DEF UpsertFails
  <2> QED
    BY <1>0, <2>1, AnswerOK DEF HandlerOK
<1>13. CASE InsertRunFails(r)
  <2>1. pc[r] # "idle" /\ UNCHANGED <<req, out, runProducts>> /\ Answer(r, "error")
    BY <1>13 DEF InsertRunFails
  <2> QED
    BY <1>0, <2>1, AnswerOK DEF HandlerOK
<1>14. CASE InsertRowFails(r)
  <2>1. pc[r] # "idle" /\ UNCHANGED <<req, out>> /\ Answer(r, "error")
    BY <1>14 DEF InsertRowFails
  <2>2. \/ runProducts' = runProducts
        \/ runProducts'[r] = Append(runProducts[r], out[r][cur[r]])
    BY <1>14 DEF InsertRowFails, InsertProductRow
  <2>3. IsList(runProducts[r])
    BY <1>0 DEF HandlerOK
  <2>4. IsList(Append(runProducts[r], out[r][cur[r]]))
    BY <2>3, AppendList
  <2>5. IsList(runProducts'[r])
    BY <2>2, <2>3, <2>4
  <2> QED
    BY <2>1, <2>5, AnswerOK
<1> QED
  BY <1>1, <1>2, <1>3, <1>4, <1>5, <1>6, <1>7, <1>8, <1>9, <1>10, <1>11, <1>12, <1>13, <1>14
     DEF HandlerMove, HandlerStep, HandlerFailure

(* What the middleware sees of its handler. *)
LEMMA HandlerProgress ==
    ASSUME HandlerInv, NEW r \in Requests, HandlerMove(r)
    PROVE  /\ HandlerInv'
           /\ pc[r] # "done" /\ pc'[r] # "idle"
           /\ resp'[r] # "lost"
           /\ \/ pc[r] # "idle" /\ req'[r] = req[r]
              \/ pc[r] = "idle" /\ \E shape \in Shapes : Accept(r, shape) /\ req'[r] = shape
<1>1. Others(r) /\ HandlerOK(r)'
  BY HandlerFrame, HandlerKeeps
<1>2. ASSUME NEW q \in Requests, q # r
      PROVE  HandlerOK(q)'
  <2>1. HandlerOK(q)
    BY DEF HandlerInv
  <2>2. /\ pc'[q] = pc[q] /\ cur'[q] = cur[q] /\ req'[q] = req[q] /\ out'[q] = out[q]
        /\ rec'[q] = rec[q] /\ resp'[q] = resp[q]
        /\ runs'[q] = runs[q] /\ runProducts'[q] = runProducts[q]
    BY <1>1, <1>2 DEF Others
  <2> QED
    BY <2>1, <2>2 DEF HandlerOK
<1>3. HandlerInv'
  BY <1>1, <1>2 DEF HandlerInv, Others
<1>4. pc[r] # "done" => resp[r] = "none"
  BY DEF HandlerInv, HandlerOK
<1>5. ASSUME NEW shape \in Shapes, Accept(r, shape)
      PROVE  pc[r] = "idle" /\ pc'[r] # "idle" /\ resp'[r] # "lost" /\ req'[r] = shape
  <2>1. pc[r] = "idle" /\ req'[r] = shape
    BY <1>5 DEF Accept, HandlerInv
  <2>2. CASE Answer(r, "bad_request") \/ Answer(r, "error")
    BY <2>1, <2>2, AnswerFrame
  <2>3. CASE Goto(r, "item") /\ UNCHANGED resp
    BY <1>4, <2>1, <2>3 DEF Goto, HandlerInv
  <2> QED
    BY <1>5, <2>1, <2>2, <2>3 DEF Accept
<1>6. ASSUME HandlerStep(r) \/ HandlerFailure(r)
      PROVE  pc[r] \notin {"idle", "done"} /\ pc'[r] # "idle" /\ resp'[r] # "lost" /\ req' = req
  <2>1. pc[r] \notin {"idle", "done"} /\ req' = req
    BY <1>6 DEF HandlerStep, HandlerFailure, ProcessItem, UpsertLine, ScanFails, BeginPersist,
                PersistRow, BuildRun, InsertRun, InsertRow, Respond, LookupFails, UpsertFails,
                InsertRunFails, InsertRowFails
  <2>2. \/ resp' = resp /\ pc' = pc
        \/ resp' = resp /\ \E l \in PCs \ {"idle"} : pc' = [pc EXCEPT ![r] = l]
        \/ \E a \in Answers \ {"lost"} : Answer(r, a)
    <3> USE DEF Goto, PCs, Answers
    <3>1. CASE ProcessItem(r)
      BY <3>1 DEF ProcessItem
    <3>2. CASE UpsertLine(r) \/ BeginPersist(r) \/ PersistRow(r) \/ BuildRun(r) \/ InsertRun(r)
               \/ InsertRow(r)
      BY <3>2 DEF UpsertLine, BeginPersist, PersistRow, BuildRun, InsertRun, InsertRow
    <3>3. CASE ScanFails(r) \/ Respond(r) \/ HandlerFailure(r)
      BY <3>3 DEF ScanFails, Respond, HandlerFailure, LookupFails, UpsertFails, InsertRunFails,
                  InsertRowFails
    <3> QED
      BY <1>6, <3>1, <3>2, <3>3 DEF HandlerStep
  <2>3. pc'[r] # "idle" /\ resp'[r] # "lost"
    BY <1>4, <2>1, <2>2, AnswerFrame DEF HandlerInv
  <2> QED
    BY <2>1, <2>3
<1> QED
  BY <1>3, <1>5, <1>6 DEF HandlerMove
-----------------------------------------------------------------------------
LEMMA ScopeType ==
    ASSUME NEW r \in Requests, TypeOK, sent[r] \in Shapes, idem[r] # None
    PROVE  Scope(r) \in Scopes
<1>1. sent[r].tenant \in Tenants /\ sent[r].kind \in {"json", "bulk"}
  BY ShapesAssumption DEF Shape
<1> QED
  BY <1>1 DEF Scope, Scopes, TypeOK

(* The result of a product is a row. *)
LEMMA RowTyped ==
    ASSUME HandlerInv, out \in [Requests -> Seq(Row)], NEW r \in Requests, HandlerMove(r)
    PROVE  out' \in [Requests -> Seq(Row)]
<1>1. CASE ProcessItem(r)
  <2> DEFINE item == req[r].items[cur[r]]
             row == ProcessProduct(item, PreviousHash(req[r].tenant, item))
  <2>1. /\ out' = [out EXCEPT ![r] = Append(@, row)]
        /\ pc[r] = "item" /\ cur[r] <= Len(req[r].items)
    BY <1>1 DEF ProcessItem
  <2>2. HandlerOK(r) /\ cur[r] \in Nat \ {0}
    BY DEF HandlerInv
  <2>3. req[r] \in Shapes
    BY <2>1, <2>2 DEF HandlerOK
  <2>4. req[r].items \in Seq(Item)
    BY <2>3, ShapesAssumption DEF Shape
  <2>5. item \in Item
    BY <2>1, <2>2, <2>4
  <2>6. row \in Row
    BY <2>5 DEF Item, Row, ProcessProduct, ComputeDisposition, Dispositions
  <2> HIDE DEF row
  <2> QED
    BY <2>1, <2>6
<1>2. CASE ~ProcessItem(r)
  <2>1. out' = out
    BY <1>2 DEF HandlerMove, HandlerStep, HandlerFailure, Accept, UpsertLine, ScanFails, BeginPersist,
           PersistRow, BuildRun, InsertRun, InsertRow, Respond, LookupFails, UpsertFails,
           InsertRunFails, InsertRowFails
  <2> QED
    BY <2>1
<1> QED
  BY <1>1, <1>2

(* Serve and Work: the middleware waits. *)
LEMMA MoveStep ==
    ASSUME UploadInv, NEW r \in Requests, UNCHANGED middlewareVars,
           \/ /\ stage[r] = "handler" /\ \E body \in BodiesSeen(sent[r], idem[r]) : Accept(r, body)
              /\ UNCHANGED log
           \/ (HandlerStep(r) \/ HandlerFailure(r)) /\ Remember(r)
    PROVE  UploadInv'
<1> USE DEF UploadInv
<1>0. UNCHANGED <<stage, sent, idem, cache, given>>
  BY DEF middlewareVars
<1>1. stage[r] = "handler" => BodiesSeen(sent[r], idem[r]) \subseteq Shapes
  BY UploadAssumption DEF StageInv, BodiesSeen
<1>2. HandlerMove(r)
  BY <1>1 DEF HandlerMove
<1>3. HandlerInv' /\ Others(r) /\ pc[r] # "done" /\ pc'[r] # "idle" /\ resp'[r] # "lost"
  BY <1>2, HandlerProgress, HandlerFrame
<1>4. stage[r] = "handler"
  <2>1. CASE HandlerStep(r) \/ HandlerFailure(r)
    <3>1. pc[r] \notin {"idle", "done"}
      BY <2>1 DEF HandlerStep, HandlerFailure, ProcessItem, UpsertLine, ScanFails, BeginPersist,
                PersistRow, BuildRun, InsertRun, InsertRow, Respond, LookupFails, UpsertFails,
                InsertRunFails, InsertRowFails
    <3> QED
      BY <3>1 DEF StageInv
  <2> QED
    BY <2>1
<1>5. req'[r] \in BodiesSeen(sent[r], idem[r])
  <2>1. CASE HandlerStep(r) \/ HandlerFailure(r)
    <3>1. pc[r] # "idle" /\ req' = req
      BY <2>1 DEF HandlerStep, HandlerFailure, ProcessItem, UpsertLine, ScanFails, BeginPersist,
                PersistRow, BuildRun, InsertRun, InsertRow, Respond, LookupFails, UpsertFails,
                InsertRunFails, InsertRowFails
    <3> QED
      BY <3>1 DEF StageInv
  <2>2. CASE \E body \in BodiesSeen(sent[r], idem[r]) : Accept(r, body)
    BY <2>2 DEF Accept, HandlerInv
  <2> QED
    BY <2>1, <2>2
<1>t. out' \in [Requests -> Seq(Row)]
  BY <1>2, RowTyped
<1>6. TypeOK'
  <2>1. log' \in Seq(Events)
    <3>1. CASE UNCHANGED log
      BY <3>1 DEF TypeOK
    <3>2. CASE HandlerStep(r) \/ HandlerFailure(r)
      <4>1. pc[r] # "idle" /\ cur[r] \in Nat \ {0}
        BY <3>2 DEF HandlerStep, HandlerFailure, ProcessItem, UpsertLine, ScanFails, BeginPersist,
                PersistRow, BuildRun, InsertRun, InsertRow, Respond, LookupFails, UpsertFails,
                InsertRunFails, InsertRowFails, HandlerInv
      <4>2. req[r] \in Shapes
        BY <4>1 DEF HandlerInv, HandlerOK
      <4>3. req[r].tenant \in Tenants
        BY <4>2, ShapesAssumption DEF Shape
      <4>4. ASSUME NEW op \in {"look", "write"}, NEW row \in Row
            PROVE  Append(log, Event(op, r, row)) \in Seq(Events)
        <5>1. Event(op, r, row) \in Events
          BY <4>3 DEF Event, Events
        <5> QED
          BY <5>1 DEF TypeOK
      <4>5. out[r] \in Seq(Row) /\ out'[r] \in Seq(Row)
        BY <1>t
      <4>6. CASE Len(out'[r]) > Len(out[r])
        <5>1. out'[r][Len(out'[r])] \in Row
          BY <4>5, <4>6
        <5>2. log' = Append(log, Event("look", r, out'[r][Len(out'[r])]))
          BY <1>4, <3>2, <4>1, <4>6 DEF Remember, Accept
        <5> QED
          BY <4>4, <5>1, <5>2
      <4>7. CASE ~(Len(out'[r]) > Len(out[r])) /\ Writes(r)
        <5>1. out[r][cur[r]] \in Row
          BY <4>1, <4>5, <4>7 DEF Writes
        <5>2. log' = Append(log, Event("write", r, out[r][cur[r]]))
          BY <4>1, <4>7 DEF Remember, Accept
        <5> QED
          BY <4>4, <5>1, <5>2
      <4>8. CASE ~(Len(out'[r]) > Len(out[r])) /\ ~Writes(r)
        BY <4>1, <4>8 DEF Remember, Accept, TypeOK
      <4> QED
        BY <4>6, <4>7, <4>8
    <3> QED
      BY <3>1, <3>2
  <2> QED
    BY <1>0, <2>1 DEF TypeOK
<1>7. StageInv'
  <2>1. SUFFICES ASSUME NEW q \in Requests
                 PROVE  /\ stage[q] \in {"client", "lookup"} => pc'[q] = "idle"
                        /\ pc'[q] \notin {"idle", "done"} => stage[q] = "handler"
                        /\ pc'[q] = "done" /\ stage[q] = "handler" => resp'[q] # "lost"
                        /\ pc'[q] # "idle" => req'[q] \in BodiesSeen(sent[q], idem[q])
    BY <1>0 DEF StageInv
  <2>2. CASE q = r
    BY <1>3, <1>4, <1>5, <2>2
  <2>3. CASE q # r
    BY <1>3, <2>3 DEF Others, StageInv
  <2> QED
    BY <2>2, <2>3
<1>8. GivenInv'
  <2>1. \A q \in Requests : pc[q] = "done" => pc'[q] = "done" /\ resp'[q] = resp[q]
    BY <1>3 DEF Others
  <2>2. \A q \in Requests : given[q] # None /\ given[q].of # None => given[q].of \in Requests
    BY DEF TypeOK, Reply
  <2> QED
    BY <1>0, <2>1, <2>2 DEF GivenInv, Scope
<1>9. CacheInv'
  BY <1>0 DEF CacheInv, Scope
<1> QED
  BY <1>3, <1>t, <1>6, <1>7, <1>8, <1>9

LEMMA HandlerIdle ==
    ASSUME HandlerInv, UNCHANGED <<handlerVars, storeVars>>
    PROVE  HandlerInv'
BY DEF HandlerInv, HandlerOK, handlerVars, storeVars

(* The answers given name calls. *)
LEMMA GivenOf ==
    ASSUME UploadInv, NEW q \in Requests, given[q] # None, given[q].of # None
    PROVE  given[q].of \in Requests
BY DEF UploadInv, TypeOK, Reply

LEMMA SendStep ==
    ASSUME UploadInv, NEW r \in Requests, NEW shape \in Shapes, NEW key \in IdemKeys \cup {None},
           Send(r, shape, key)
    PROVE  UploadInv'
<1> USE DEF UploadInv
<1>0. /\ stage[r] = "client" /\ pc[r] = "idle" /\ given[r] = None
      /\ UNCHANGED <<cache, given, handlerVars, storeVars, log>>
      /\ UNCHANGED <<pc, resp, req, out>>
      /\ sent' = [sent EXCEPT ![r] = shape] /\ idem' = [idem EXCEPT ![r] = key]
      /\ \/ key = None /\ stage' = [stage EXCEPT ![r] = "handler"]
         \/ key # None /\ stage' = [stage EXCEPT ![r] = "lookup"]
  BY DEF Send, Enter, StageInv, handlerVars
<1>1. /\ sent'[r] = shape /\ idem'[r] = key
      /\ stage'[r] \in {"handler", "lookup"} /\ (stage'[r] = "lookup" => key # None)
      /\ \A q \in Requests \ {r} : /\ stage'[q] = stage[q] /\ sent'[q] = sent[q]
                                   /\ idem'[q] = idem[q] /\ Scope(q)' = Scope(q)
  BY <1>0 DEF TypeOK, Scope
<1>2. TypeOK'
  BY <1>0 DEF TypeOK
<1>3. HandlerInv'
  BY <1>0, HandlerIdle
<1>4. StageInv'
  <2>1. ASSUME NEW q \in Requests, q # r
        PROVE  BodiesSeen(sent'[q], idem'[q]) = BodiesSeen(sent[q], idem[q])
    BY <1>1, <2>1
  <2> QED
    BY <1>0, <1>1, <2>1 DEF StageInv
<1>5. GivenInv'
  <2>1. ASSUME NEW q \in Requests, given[q] # None, given[q].of # None
        PROVE  q # r /\ given[q].of \in Requests \ {r}
    BY <1>0, <2>1, GivenOf DEF GivenInv
  <2> QED
    BY <1>0, <1>1, <2>1 DEF GivenInv
<1>6. CacheInv'
  BY <1>0, <1>1 DEF CacheInv, Scope
<1> QED
  BY <1>0, <1>2, <1>3, <1>4, <1>5, <1>6

LEMMA LookupStep ==
    ASSUME UploadInv, NEW r \in Requests, Lookup(r)
    PROVE  UploadInv'
<1> USE DEF UploadInv
<1>0. /\ stage[r] = "lookup" /\ pc[r] = "idle" /\ given[r] = None
      /\ sent[r] \in Shapes /\ idem[r] # None
      /\ UNCHANGED <<sent, idem, cache, handlerVars, storeVars, log>>
      /\ UNCHANGED <<pc, resp, req, out>>
  BY DEF Lookup, StageInv, handlerVars
<1>1. Scope(r) \in Scopes /\ \A q \in Requests : Scope(q)' = Scope(q)
  BY <1>0, ScopeType DEF Scope
<1>2. HandlerInv'
  BY <1>0, HandlerIdle
<1>3. CASE cache[Scope(r)] = None /\ Enter(r, "handler") /\ UNCHANGED given
  <2>1. stage'[r] = "handler" /\ \A q \in Requests \ {r} : stage'[q] = stage[q]
    BY <1>3 DEF Enter, TypeOK
  <2>2. TypeOK'
    BY <1>0, <1>3 DEF Enter, TypeOK
  <2>3. StageInv'
    BY <1>0, <1>3, <2>1 DEF StageInv
  <2>4. GivenInv'
    <3>1. ASSUME NEW q \in Requests, given[q] # None, given[q].of # None
          PROVE  q # r /\ given[q].of \in Requests \ {r}
      BY <1>0, <3>1, GivenOf DEF GivenInv
    <3> QED
      BY <1>0, <1>1, <1>3, <2>1, <3>1 DEF GivenInv
  <2>5. CacheInv'
    BY <1>0, <1>1, <1>3, <2>1 DEF CacheInv
  <2> QED
    BY <1>0, <1>2, <2>2, <2>3, <2>4, <2>5
<1>4. ASSUME NEW a \in Reply, Write(r, a), Enter(r, "over"),
             \/ a.of = None
             \/ /\ a.of \in Requests \ {r}
                /\ given[a.of] = a /\ Scope(a.of) = Scope(r) /\ stage[a.of] = "over"
      PROVE  UploadInv'
  <2>1. /\ stage'[r] = "over" /\ given'[r] = a
        /\ \A q \in Requests \ {r} : stage'[q] = stage[q] /\ given'[q] = given[q]
    BY <1>4 DEF Enter, Write, TypeOK
  <2>2. TypeOK'
    BY <1>0, <1>4 DEF Enter, Write, TypeOK
  <2>3. StageInv'
    BY <1>0, <2>1 DEF StageInv
  <2>4. GivenInv'
    <3>1. SUFFICES ASSUME NEW q \in Requests, given'[q] # None, given'[q].of # None
                   PROVE  /\ given'[given'[q].of] = given'[q]
                          /\ pc[given'[q].of] = "done"
                          /\ given'[given'[q].of].code = CodeOf(resp[given'[q].of])
                          /\ resp[given'[q].of] \in {"ok", "bad_request", "error"}
                          /\ stage'[given'[q].of] \in {"store", "over"}
                          /\ stage'[q] \in {"store", "over"}
                          /\ given'[q].of # q => Scope(given'[q].of) = Scope(q) /\ idem[q] # None
      BY <1>0, <1>1 DEF GivenInv, Scope
    <3>2. CASE q = r
      <4>1. /\ a.of \in Requests \ {r} /\ given[a.of] = a /\ Scope(a.of) = Scope(r)
            /\ stage[a.of] = "over" /\ a.of # None
        BY <1>4, <2>1, <3>1, <3>2
      <4>2. given[a.of] # None
        BY <1>0, <2>1, <3>1, <3>2, <4>1
      <4>3. /\ pc[a.of] = "done" /\ a.code = CodeOf(resp[a.of])
            /\ resp[a.of] \in {"ok", "bad_request", "error"}
        BY <4>1, <4>2 DEF GivenInv
      <4> QED
        BY <1>0, <1>1, <2>1, <3>2, <4>1, <4>3
    <3>3. CASE q # r
      <4>1. given[q] # None /\ given[q].of # None /\ given'[q] = given[q]
        BY <2>1, <3>1, <3>3
      <4>2. given[q].of \in Requests /\ given[q].of # r
        BY <1>0, <4>1, GivenOf DEF GivenInv
      <4> QED
        BY <1>1, <2>1, <3>3, <4>1, <4>2 DEF GivenInv
    <3> QED
      BY <3>2, <3>3
  <2>5. CacheInv'
    BY <1>0, <1>1, <2>1 DEF CacheInv
  <2> QED
    BY <1>0, <1>2, <2>2, <2>3, <2>4, <2>5
<1>5. CASE cache[Scope(r)] # None /\ Write(r, cache[Scope(r)]) /\ Enter(r, "over")
  <2>1. PICK a \in Reply : a = cache[Scope(r)]
    BY <1>1, <1>5 DEF TypeOK
  <2>2. /\ a.of \in Requests /\ given[a.of] = a /\ Scope(a.of) = Scope(r)
        /\ stage[a.of] = "over"
    BY <1>1, <1>5, <2>1 DEF CacheInv
  <2>3. a.of # r
    BY <1>0, <2>2
  <2> QED
    BY <1>4, <1>5, <2>1, <2>2, <2>3
<1>6. CASE Write(r, [code |-> 500, of |-> None]) /\ Enter(r, "over")
  <2>1. [code |-> 500, of |-> None] \in Reply
    BY DEF Reply
  <2> QED
    BY <1>4, <1>6, <2>1
<1> QED
  BY <1>3, <1>5, <1>6 DEF Lookup

LEMMA ReturnStep ==
    ASSUME UploadInv, NEW r \in Requests, Return(r)
    PROVE  UploadInv'
<1> USE DEF UploadInv
<1> DEFINE a == [code |-> CodeOf(resp[r]), of |-> r]
<1>0. /\ stage[r] = "handler" /\ pc[r] = "done" /\ given[r] = None
      /\ UNCHANGED <<sent, idem, cache, handlerVars, storeVars, log>>
      /\ UNCHANGED <<pc, resp, req, out>>
      /\ given' = [given EXCEPT ![r] = a]
      /\ \/ idem[r] = None /\ stage' = [stage EXCEPT ![r] = "over"]
         \/ idem[r] # None /\ stage' = [stage EXCEPT ![r] = "store"]
  BY DEF Return, Write, Enter, StageInv, handlerVars
<1>1. resp[r] \in {"ok", "bad_request", "error"}
  BY <1>0 DEF StageInv, HandlerInv, HandlerOK
<1>2. a \in Reply
  BY <1>1 DEF Reply, CodeOf
<1>3. a.of = r /\ a.code = CodeOf(resp[r])
  OBVIOUS
<1> HIDE DEF a
<1>4. /\ given'[r] = a /\ stage'[r] \in {"over", "store"} /\ (stage'[r] = "store" => idem[r] # None)
      /\ \A q \in Requests \ {r} : stage'[q] = stage[q] /\ given'[q] = given[q]
      /\ \A q \in Requests : Scope(q)' = Scope(q)
  BY <1>0 DEF TypeOK, Scope
<1>5. a # None
  BY <1>2, ReplyAssumption
<1>6. TypeOK'
  BY <1>0, <1>2 DEF TypeOK
<1>7. HandlerInv'
  BY <1>0, HandlerIdle
<1>8. StageInv'
  BY <1>0, <1>3, <1>4, <1>5 DEF StageInv
<1>9. GivenInv'
  <2>1. ASSUME NEW q \in Requests \ {r}, given[q] # None, given[q].of # None
        PROVE  given[q].of \in Requests \ {r}
    BY <1>0, <2>1, GivenOf DEF GivenInv
  <2> QED
    BY <1>0, <1>1, <1>3, <1>4, <2>1 DEF GivenInv
<1>10. CacheInv'
  BY <1>0, <1>4 DEF CacheInv
<1> QED
  BY <1>0, <1>6, <1>7, <1>8, <1>9, <1>10

LEMMA StoreStep ==
    ASSUME UploadInv, NEW r \in Requests, Store(r)
    PROVE  UploadInv'
<1> USE DEF UploadInv
<1>0. /\ stage[r] = "store" /\ pc[r] \in {"idle", "done"} /\ given[r] # None /\ given[r].of = r
      /\ sent[r] \in Shapes /\ idem[r] # None
      /\ UNCHANGED <<sent, idem, given, handlerVars, storeVars, log>>
      /\ UNCHANGED <<pc, resp, req, out>>
      /\ stage' = [stage EXCEPT ![r] = "over"]
  BY DEF Store, Enter, StageInv, handlerVars
<1>1. Scope(r) \in Scopes /\ \A q \in Requests : Scope(q)' = Scope(q)
  BY <1>0, ScopeType DEF Scope
<1>2. stage'[r] = "over" /\ \A q \in Requests \ {r} : stage'[q] = stage[q]
  BY <1>0 DEF TypeOK
<1>3. cache' = cache \/ cache' = [cache EXCEPT ![Scope(r)] = given[r]]
  BY DEF Store
<1>4. TypeOK'
  BY <1>0, <1>3 DEF TypeOK
<1>5. HandlerInv'
  BY <1>0, HandlerIdle
<1>6. StageInv'
  BY <1>0, <1>2 DEF StageInv
<1>7. GivenInv'
  <2>1. ASSUME NEW q \in Requests, given[q] # None, given[q].of # None
        PROVE  given[q].of \in Requests
    BY <2>1, GivenOf
  <2> QED
    BY <1>0, <1>1, <1>2, <2>1 DEF GivenInv
<1>8. CacheInv'
  <2>1. SUFFICES ASSUME NEW s \in Scopes, cache'[s] # None
                 PROVE  /\ cache'[s].of \in Requests /\ given[cache'[s].of] = cache'[s]
                        /\ Scope(cache'[s].of) = s /\ stage'[cache'[s].of] = "over"
    BY <1>0 DEF CacheInv, Scope
  <2>2. CASE cache'[s] = cache[s]
    BY <1>2, <2>1, <2>2 DEF CacheInv
  <2>3. CASE s = Scope(r) /\ cache'[s] = given[r]
    BY <1>0, <1>2, <2>3
  <2> QED
    BY <1>1, <1>3, <2>2, <2>3 DEF TypeOK
<1> QED
  BY <1>0, <1>4, <1>5, <1>6, <1>7, <1>8

LEMMA CrashStep ==
    ASSUME UploadInv, Crash
    PROVE  UploadInv'
<1> USE DEF UploadInv
<1>0. /\ UNCHANGED <<sent, idem, cache, given, log, req, out, runs, runProducts>>
      /\ \A q \in Requests : Scope(q)' = Scope(q)
      /\ \A q \in Requests : stage'[q] = IF stage[q] = "client" THEN "client" ELSE "over"
      /\ \A q \in Requests :
            \/ /\ pc[q] \in {"idle", "done"}
               /\ pc'[q] = pc[q] /\ resp'[q] = resp[q] /\ cur'[q] \in {cur[q], 1}
            \/ /\ pc[q] \notin {"idle", "done"}
               /\ pc'[q] = "done" /\ resp'[q] = "lost"
  BY DEF Crash, ApiCrash, InFlight, Open, Scope, storeVars, handlerVars
<1>1. TypeOK'
  <2>1. stage' \in [Requests -> {"client", "lookup", "handler", "store", "over"}]
    BY DEF Crash, TypeOK, Open
  <2> QED
    BY <1>0, <2>1 DEF TypeOK
<1>2. HandlerInv'
  <2>1. /\ pc' \in [Requests -> PCs] /\ cur' \in [Requests -> Nat \ {0}]
        /\ DOMAIN rec' = Requests /\ DOMAIN resp' = Requests
    BY DEF Crash, ApiCrash, HandlerInv, PCs, handlerVars
  <2>2. ASSUME NEW q \in Requests PROVE HandlerOK(q)'
    <3>1. HandlerOK(q)
      BY DEF HandlerInv
    <3>2. CASE pc[q] \in {"idle", "done"} /\ pc'[q] = pc[q] /\ resp'[q] = resp[q] /\ cur'[q] \in {cur[q], 1}
      BY <1>0, <3>1, <3>2 DEF HandlerOK
    <3>3. CASE pc[q] \notin {"idle", "done"} /\ pc'[q] = "done" /\ resp'[q] = "lost"
      BY <1>0, <3>1, <3>3 DEF HandlerOK
    <3> QED
      BY <1>0, <3>2, <3>3
  <2> QED
    BY <1>0, <2>1, <2>2 DEF HandlerInv
<1>3. StageInv'
  BY <1>0, <1>1 DEF StageInv, TypeOK
<1>4. GivenInv'
  <2>1. ASSUME NEW q \in Requests, given[q] # None, given[q].of # None
        PROVE  given[q].of \in Requests
    BY <2>1, GivenOf
  <2> QED
    BY <1>0, <2>1 DEF GivenInv
<1>5. CacheInv'
  BY <1>0 DEF CacheInv
<1> QED
  BY <1>0, <1>1, <1>2, <1>3, <1>4, <1>5

THEOREM UploadInvHolds == Spec => []UploadInv
<1>1. UploadInv /\ [Next]_vars => UploadInv'
  <2> SUFFICES ASSUME UploadInv, [Next]_vars PROVE UploadInv'
    OBVIOUS
  <2>1. CASE UNCHANGED vars
    <3>0. UNCHANGED <<stage, sent, idem, cache, given, log>> /\ UNCHANGED <<pc, resp, req, out>>
          /\ UNCHANGED <<handlerVars, storeVars>>
      BY <2>1 DEF vars, middlewareVars, handlerVars
    <3>1. HandlerInv'
      BY <3>0, HandlerIdle DEF UploadInv
    <3>2. TypeOK' /\ StageInv'
      BY <3>0 DEF UploadInv, TypeOK, StageInv
    <3>3. GivenInv' /\ CacheInv'
      BY <3>0 DEF UploadInv, GivenInv, CacheInv, Scope
    <3> QED
      BY <3>0, <3>1, <3>2, <3>3 DEF UploadInv
  <2>2. ASSUME NEW r \in Requests, Serve(r) \/ Work(r)
        PROVE  UploadInv'
    BY <2>2, MoveStep DEF Serve, Work
  <2> QED
    BY <2>1, <2>2, SendStep, LookupStep, ReturnStep, StoreStep, CrashStep DEF Next
<1> QED
  BY InvInit, <1>1, PTL DEF Spec

(* Type correctness: what is cached can be replayed. *)
THEOREM TypeCorrect == Spec => []TypeOK
<1>1. UploadInv => TypeOK
  BY DEF UploadInv
<1> QED
  BY UploadInvHolds, <1>1, PTL

(* What a handler kept of the call it was given. *)
LEMMA SeenFacts ==
    ASSUME UploadInv, NEW d \in Requests, pc[d] # "idle"
    PROVE  /\ req[d].items = sent[d].items
           /\ req[d].body = "whole" /\ sent[d].body = "cut" => idem[d] # None
<1>1. req[d] \in BodiesSeen(sent[d], idem[d])
  BY DEF UploadInv, StageInv
<1>2. sent[d] \in Shapes
  BY DEF UploadInv, StageInv
<1>3. sent[d] \in Shape
  BY <1>2, ShapesAssumption
<1> QED
  BY <1>1, <1>3 DEF BodiesSeen, Shape

(* A 200, also a replayed one, stands for a call whose every product has a *)
(* stored result.                                                          *)
THEOREM AnswerAccountsHolds == Spec => []AnswerAccounts
<1>1. ASSUME UploadInv PROVE AnswerAccounts
  <2>1. SUFFICES ASSUME NEW r \in Requests, given[r] # None, given[r].code = 200, given[r].of # None
                 PROVE  /\ sent[given[r].of].tenant = sent[r].tenant
                        /\ sent[given[r].of].kind = sent[r].kind
                        /\ given[r].of # r => idem[r] # None /\ idem[given[r].of] = idem[r]
                        /\ Len(out[given[r].of]) = Len(sent[given[r].of].items)
                        /\ \A i \in DOMAIN out[given[r].of] :
                              out[given[r].of][i].key = sent[given[r].of].items[i].key
                        /\ runs[given[r].of].status # "absent"
                        /\ runProducts[given[r].of] = out[given[r].of]
                        /\ sent[given[r].of].body = "cut" => idem[given[r].of] # None
    BY DEF AnswerAccounts, Answered
  <2>2. PICK d \in Requests : d = given[r].of
    BY <1>1, <2>1, GivenOf
  <2>3. /\ given[d].code = CodeOf(resp[d]) /\ given[d] = given[r] /\ pc[d] = "done"
        /\ resp[d] \in {"ok", "bad_request", "error"}
        /\ d # r => Scope(d) = Scope(r) /\ idem[r] # None
    BY <1>1, <2>1, <2>2 DEF UploadInv, GivenInv
  <2>4. resp[d] = "ok"
    BY <2>1, <2>3 DEF CodeOf
  <2>5. HandlerOK(d)
    BY <1>1 DEF UploadInv, HandlerInv
  <2>6. /\ runs[d].status # "absent" /\ runProducts[d] = out[d]
        /\ Len(out[d]) = Len(req[d].items) /\ req[d].body = "whole"
        /\ \A i \in 1 .. Len(out[d]) : out[d][i].key = req[d].items[i].key
        /\ IsList(out[d])
    BY <2>3, <2>4, <2>5 DEF HandlerOK
  <2>7. DOMAIN out[d] = 1 .. Len(out[d])
    BY <2>6 DEF IsList
  <2>8. req[d].items = sent[d].items /\ (sent[d].body = "cut" => idem[d] # None)
    BY <1>1, <2>3, <2>6, SeenFacts
  <2>9. /\ sent[d].tenant = sent[r].tenant /\ sent[d].kind = sent[r].kind
        /\ d # r => idem[r] # None /\ idem[d] = idem[r]
    BY <2>3 DEF Scope
  <2> QED
    BY <2>2, <2>6, <2>7, <2>8, <2>9
<1> QED
  BY UploadInvHolds, <1>1, PTL

(* A 400, also a replayed one, stands for a call that left no run. *)
THEOREM RefusalSchedulesNothingHolds == Spec => []RefusalSchedulesNothing
<1>1. ASSUME UploadInv PROVE RefusalSchedulesNothing
  <2>1. SUFFICES ASSUME NEW r \in Requests, given[r] # None, given[r].code = 400, given[r].of # None
                 PROVE  runs[given[r].of].status = "absent"
    BY DEF RefusalSchedulesNothing, Answered
  <2>2. PICK d \in Requests : d = given[r].of
    BY <1>1, <2>1, GivenOf
  <2>3. /\ given[d].code = CodeOf(resp[d]) /\ given[d] = given[r]
        /\ resp[d] \in {"ok", "bad_request", "error"}
    BY <1>1, <2>1, <2>2 DEF UploadInv, GivenInv
  <2>4. resp[d] = "bad_request"
    BY <2>1, <2>3 DEF CodeOf
  <2> QED
    BY <1>1, <2>2, <2>4 DEF UploadInv, HandlerInv, HandlerOK
<1> QED
  BY UploadInvHolds, <1>1, PTL
-----------------------------------------------------------------------------
(* ScheduledOnce, along the history of lookups and writes.                 *)

(* The hash of result i was written to product_state. *)
Written(r, i) ==
    \/ pc[r] \in {"insert_run", "insert_rows"}
    \/ pc[r] \in {"upsert", "persist"} /\ i < cur[r]
    \/ pc[r] = "item" /\ req[r].kind = "bulk"  /\ i < cur[r]
    \/ i <= Len(runProducts[r])

Logged(r, i) == \E w \in 1 .. Len(log) : log[w] = Event("write", r, out[r][i])

(* What has a row in run_products was written before, and so is logged. *)
RowsOK(r) ==
    /\ Len(runProducts[r]) <= Len(out[r])
    /\ \A i \in 1 .. Len(runProducts[r]) : runProducts[r][i] = out[r][i]
    /\ pc[r] # "idle" => req[r].tenant \in Tenants
    /\ pc[r] = "upsert" => out[r][cur[r]].hash # NoHash
    /\ \A i \in 1 .. Len(out[r]) :
          /\ out[r][i].hash # NoHash => out[r][i].key \in Keys
          /\ out[r][i].disp = "enqueued" => out[r][i].hash # NoHash
          /\ out[r][i].hash # NoHash /\ Written(r, i) => Logged(r, i)

(* Event y wrote another hash over the one of event x. *)
Overwrites(y, x) ==
    /\ log[y].op = "write" /\ log[y].tenant = log[x].tenant
    /\ log[y].row.key = log[x].row.key /\ log[y].row.hash # log[x].row.hash

(* A hash that was written is still stored, or was overwritten later. *)
KeptOrOverwritten(x) ==
    \/ productHash[log[x].tenant][log[x].row.key] = log[x].row.hash
    \/ \E y \in x + 1 .. Len(log) : Overwrites(y, x)

(* Lookup l, after write w, enqueues the content w wrote. *)
LooksAgain(l, w) ==
    /\ log[w].op = "write" /\ log[l].op = "look" /\ log[l].row.disp = "enqueued"
    /\ log[l].tenant = log[w].tenant /\ log[l].row.key = log[w].row.key
    /\ log[l].row.hash = log[w].row.hash

HistoryInv ==
    /\ \A x \in 1 .. Len(log) : log[x].op = "write" =>
          log[x].tenant \in Tenants /\ log[x].row.key \in Keys /\ KeptOrOverwritten(x)
    /\ \A w, l \in 1 .. Len(log) : w < l /\ LooksAgain(l, w) =>
          \E x \in w + 1 .. l - 1 : Overwrites(x, w)

OnceInv ==
    /\ DOMAIN productHash = Tenants
    /\ \A t \in Tenants : DOMAIN productHash[t] = Keys
    /\ \A r \in Requests : RowsOK(r)
    /\ HistoryInv

LEMMA ListFacts ==
    ASSUME NEW s, IsList(s)
    PROVE  Len(s) \in Nat /\ DOMAIN s = 1 .. Len(s)
BY DEF IsList

(* A move of the handler of r, with what it leaves in the history. *)
LoggedMove(r) ==
    \/ (\E shape \in Shapes : Accept(r, shape)) /\ UNCHANGED log
    \/ (HandlerStep(r) \/ HandlerFailure(r)) /\ Remember(r)

LEMMA IsHandlerMove ==
    ASSUME NEW r \in Requests, LoggedMove(r)
    PROVE  HandlerMove(r)
BY DEF LoggedMove, HandlerMove

(* It looks a product up, writes the hash of the result it is at, or       *)
(* changes neither hashes nor results.                                     *)
LooksUp(r) ==
    /\ ProcessItem(r)
    /\ log' = Append(log, Event("look", r, out'[r][Len(out[r]) + 1]))

WritesRow(r) ==
    /\ cur[r] \in 1 .. Len(out[r]) /\ out[r][cur[r]].hash # NoHash
    /\ productHash' = [productHash EXCEPT ![req[r].tenant][out[r][cur[r]].key] = out[r][cur[r]].hash]
    /\ log' = Append(log, Event("write", r, out[r][cur[r]]))
    /\ out' = out /\ req' = req /\ pc[r] # "idle"

Quiet == productHash' = productHash /\ log' = log /\ out' = out

LEMMA LogMove ==
    ASSUME UploadInv, OnceInv, NEW r \in Requests, LoggedMove(r)
    PROVE  /\ LooksUp(r) \/ WritesRow(r) \/ Quiet
           /\ (UpsertLine(r) \/ PersistRow(r)) /\ out[r][cur[r]].hash # NoHash => WritesRow(r)
<1>0. HandlerOK(r) /\ RowsOK(r) /\ IsList(out[r]) /\ Len(out[r]) \in Nat /\ cur[r] \in Nat \ {0}
      /\ DOMAIN out = Requests /\ DOMAIN pc = Requests
  <2>1. HandlerOK(r) /\ RowsOK(r) /\ cur[r] \in Nat \ {0} /\ DOMAIN out = Requests
        /\ DOMAIN pc = Requests
    BY DEF UploadInv, HandlerInv, OnceInv
  <2> QED
    BY <2>1, ListFacts DEF HandlerOK
<1>r. HandlerStep(r) \/ HandlerFailure(r) => Remember(r)
  <2>1. HandlerStep(r) \/ HandlerFailure(r) => pc[r] # "idle"
    BY DEF HandlerStep, HandlerFailure, ProcessItem, UpsertLine, ScanFails, BeginPersist,
           PersistRow, BuildRun, InsertRun, InsertRow, Respond, LookupFails, UpsertFails,
           InsertRunFails, InsertRowFails
  <2> QED
    BY <2>1 DEF LoggedMove, Accept
<1>w. ASSUME out' = out, HandlerStep(r) \/ HandlerFailure(r)
      PROVE  \/ Writes(r) /\ log' = Append(log, Event("write", r, out[r][cur[r]]))
             \/ ~Writes(r) /\ log' = log
  <2>1. ~(Len(out'[r]) > Len(out[r]))
    BY <1>0, <1>w
  <2> QED
    BY <1>r, <1>w, <2>1 DEF Remember
<1>1. CASE ProcessItem(r)
  <2>1. PICK row : out' = [out EXCEPT ![r] = Append(@, row)]
    BY <1>1 DEF ProcessItem
  <2>2. out'[r] = Append(out[r], row)
    BY <1>0, <2>1
  <2>3. Len(out'[r]) = Len(out[r]) + 1
    BY <1>0, <2>2, AppendList
  <2>4. Len(out'[r]) > Len(out[r])
    BY <1>0, <2>3
  <2>5. log' = Append(log, Event("look", r, out'[r][Len(out[r]) + 1]))
    BY <1>r, <1>1, <2>3, <2>4 DEF Remember, HandlerStep
  <2>6. LooksUp(r)
    BY <1>1, <2>5 DEF LooksUp
  <2>7. ~UpsertLine(r) /\ ~PersistRow(r)
    BY <1>1 DEF ProcessItem, UpsertLine, PersistRow
  <2> QED
    BY <2>6, <2>7
<1>2. CASE UpsertLine(r)
  <2>1. pc[r] = "upsert" /\ cur[r] = Len(out[r]) /\ out' = out /\ req' = req /\ pc'[r] # "done"
    BY <1>0, <1>2 DEF UpsertLine, HandlerOK, Goto
  <2>2. out[r][cur[r]].hash # NoHash /\ cur[r] \in 1 .. Len(out[r])
    BY <1>0, <2>1 DEF RowsOK
  <2>3. Writes(r)
    BY <1>0, <2>1, <2>2 DEF Writes
  <2> QED
    BY <1>w, <1>2, <2>1, <2>2, <2>3 DEF UpsertLine, UpsertProductHash, WritesRow, HandlerStep
<1>3. CASE PersistRow(r)
  <2>1. /\ pc[r] = "persist" /\ pc' = pc /\ out' = out /\ req' = req
        /\ cur[r] \in 1 .. Len(out[r]) /\ cur[r] <= Len(out[r])
    BY <1>0, <1>3 DEF PersistRow
  <2>2. CASE out[r][cur[r]].hash = NoHash
    <3>1. productHash' = productHash
      BY <1>3, <2>2 DEF PersistRow
    <3>2. ~Writes(r)
      BY <2>2 DEF Writes
    <3> QED
      BY <1>w, <1>3, <2>1, <2>2, <3>1, <3>2 DEF Quiet, HandlerStep
  <2>3. CASE out[r][cur[r]].hash # NoHash
    <3>1. Writes(r)
      BY <2>1, <2>3 DEF Writes
    <3> QED
      BY <1>w, <1>3, <2>1, <2>3, <3>1 DEF PersistRow, UpsertProductHash, WritesRow, HandlerStep
  <2> QED
    BY <2>2, <2>3
<1>4. CASE UpsertFails(r)
  <2>1. /\ pc[r] \in {"upsert", "persist"} /\ pc'[r] = "done" /\ out' = out /\ req' = req
        /\ cur[r] \in 1 .. Len(out[r]) /\ cur[r] <= Len(out[r]) /\ out[r][cur[r]].hash # NoHash
        /\ \/ productHash' = productHash
           \/ productHash' = [productHash EXCEPT ![req[r].tenant][out[r][cur[r]].key] =
                                out[r][cur[r]].hash]
    BY <1>0, <1>4 DEF UpsertFails, UpsertProductHash, Answer, Goto
  <2>2. ~UpsertLine(r) /\ ~PersistRow(r)
    BY <1>0, <1>4, <2>1 DEF UpsertLine, PersistRow, Goto
  <2>3. CASE productHash' = productHash
    <3>1. ~Writes(r)
      BY <2>1, <2>3 DEF Writes
    <3> QED
      BY <1>w, <1>4, <2>1, <2>2, <2>3, <3>1 DEF Quiet, HandlerFailure
  <2>4. CASE productHash' # productHash
    <3>1. Writes(r)
      BY <2>1, <2>4 DEF Writes
    <3> QED
      BY <1>w, <1>4, <2>1, <2>2, <2>4, <3>1 DEF WritesRow, HandlerFailure
  <2> QED
    BY <2>3, <2>4
<1>5. CASE \E shape \in Shapes : Accept(r, shape)
  <2>1. pc[r] = "idle" /\ out' = out /\ productHash' = productHash
    BY <1>5 DEF Accept, storeVars
  <2>2. ~UpsertLine(r) /\ ~PersistRow(r) /\ ~HandlerStep(r) /\ ~HandlerFailure(r)
    BY <2>1 DEF HandlerStep, HandlerFailure, ProcessItem, UpsertLine, ScanFails, BeginPersist,
           PersistRow, BuildRun, InsertRun, InsertRow, Respond, LookupFails, UpsertFails,
           InsertRunFails, InsertRowFails
  <2> QED
    BY <2>1, <2>2 DEF LoggedMove, Quiet
<1>6. CASE \/ ScanFails(r) \/ BeginPersist(r) \/ BuildRun(r) \/ InsertRun(r) \/ InsertRow(r)
           \/ Respond(r) \/ LookupFails(r) \/ InsertRunFails(r) \/ InsertRowFails(r)
  <2>1. out' = out /\ productHash' = productHash
    BY <1>6 DEF ScanFails, BeginPersist, BuildRun, InsertRun, InsertRow, Respond, LookupFails,
                InsertRunFails, InsertRowFails, storeVars
  <2>2. pc[r] \notin {"upsert", "persist"} \/ cur[r] > Len(out[r])
    BY <1>6 DEF ScanFails, BeginPersist, BuildRun, InsertRun, InsertRow, Respond, LookupFails,
                InsertRunFails, InsertRowFails
  <2>3. ~Writes(r)
    BY <1>0, <2>2 DEF Writes
  <2>4. HandlerStep(r) \/ HandlerFailure(r)
    BY <1>6 DEF HandlerStep, HandlerFailure
  <2>5. ~PersistRow(r) /\ ~UpsertLine(r)
    BY <1>0, <2>2 DEF PersistRow, UpsertLine, HandlerOK
  <2> QED
    BY <1>w, <2>1, <2>3, <2>4, <2>5 DEF Quiet
<1> QED
  BY <1>1, <1>2, <1>3, <1>4, <1>5, <1>6 DEF LoggedMove, HandlerStep, HandlerFailure

(* Results stay, and with them the tenant they belong to. *)
LEMMA OutMove ==
    ASSUME UploadInv, NEW r \in Requests, HandlerMove(r)
    PROVE  /\ out' = out \/ ProcessItem(r)
           /\ \A q \in Requests : \A i \in 1 .. Len(out[q]) :
                 /\ i \in 1 .. Len(out'[q]) /\ out'[q][i] = out[q][i]
                 /\ req'[q] = req[q]
<1>1. out' = out \/ ProcessItem(r)
  BY DEF HandlerMove, HandlerStep, HandlerFailure, Accept, UpsertLine, ScanFails, BeginPersist,
         PersistRow, BuildRun, InsertRun, InsertRow, Respond, LookupFails, UpsertFails,
         InsertRunFails, InsertRowFails
<1>2. Others(r) /\ HandlerOK(r)
  BY HandlerFrame DEF UploadInv, HandlerInv
<1>3. ASSUME NEW i \in 1 .. Len(out[r])
      PROVE  req'[r] = req[r]
  <2>1. pc[r] # "idle"
    BY <1>2, <1>3 DEF HandlerOK
  <2> QED
    BY <2>1, HandlerProgress DEF UploadInv
<1>4. CASE ProcessItem(r)
  <2>1. PICK row : out' = [out EXCEPT ![r] = Append(@, row)]
    BY <1>4 DEF ProcessItem
  <2>2. out'[r] = Append(out[r], row)
    BY <2>1 DEF UploadInv, HandlerInv
  <2>3. IsList(out[r])
    BY <1>2 DEF HandlerOK
  <2>4. \A i \in 1 .. Len(out[r]) : i \in 1 .. Len(out'[r]) /\ out'[r][i] = out[r][i]
    BY <2>2, <2>3, AppendList
  <2> QED
    BY <1>1, <1>2, <1>3, <2>4 DEF Others
<1>5. CASE out' = out
  BY <1>2, <1>3, <1>5 DEF Others
<1> QED
  BY <1>1, <1>4, <1>5

(* The history only grows, by at most one event. *)
LEMMA LogGrows ==
    ASSUME UploadInv, OnceInv, NEW r \in Requests, LoggedMove(r)
    PROVE  /\ Len(log) \in Nat /\ Len(log') \in {Len(log), Len(log) + 1}
           /\ \A x \in 1 .. Len(log) : log'[x] = log[x]
<1>1. log \in Seq(Events)
  BY DEF UploadInv, TypeOK
<1>2. IsList(log)
  BY <1>1 DEF IsList
<1>3. PICK e : log' = log \/ log' = Append(log, e)
  BY LogMove DEF LooksUp, WritesRow, Quiet
<1> QED
  BY <1>1, <1>2, <1>3, AppendList

LEMMA LoggedStays ==
    ASSUME UploadInv, OnceInv, NEW r \in Requests, LoggedMove(r),
           NEW q \in Requests, NEW i \in 1 .. Len(out[q]), Logged(q, i)
    PROVE  Logged(q, i)'
<1>1. PICK w \in 1 .. Len(log) : log[w] = Event("write", q, out[q][i])
  BY DEF Logged
<1>2. out'[q][i] = out[q][i] /\ req'[q] = req[q]
  BY OutMove, IsHandlerMove
<1>3. w \in 1 .. Len(log') /\ log'[w] = log[w]
  BY LogGrows
<1> QED
  BY <1>1, <1>2, <1>3 DEF Logged, Event

LEMMA RowsNow ==
    ASSUME NEW r \in Requests,
           Len(runProducts'[r]) <= Len(out'[r]),
           \A i \in 1 .. Len(runProducts'[r]) : runProducts'[r][i] = out'[r][i],
           pc'[r] # "idle" => req'[r].tenant \in Tenants,
           pc'[r] = "upsert" => out'[r][cur'[r]].hash # NoHash,
           \A i \in 1 .. Len(out'[r]) :
              /\ out'[r][i].hash # NoHash => out'[r][i].key \in Keys
              /\ out'[r][i].disp = "enqueued" => out'[r][i].hash # NoHash
              /\ out'[r][i].hash # NoHash /\ Written(r, i)' => Logged(r, i)'
    PROVE  RowsOK(r)'
BY DEF RowsOK

(* The same results, some more of them written. *)
LEMMA SameRows ==
    ASSUME UploadInv, OnceInv, NEW r \in Requests, LoggedMove(r),
           out'[r] = out[r], pc[r] # "idle", pc'[r] # "upsert",
           Len(runProducts'[r]) <= Len(out[r]),
           \A i \in 1 .. Len(runProducts'[r]) : runProducts'[r][i] = out[r][i],
           \A i \in 1 .. Len(out[r]) : Written(r, i)' /\ out[r][i].hash # NoHash =>
              Written(r, i) \/ Logged(r, i)'
    PROVE  RowsOK(r)'
<1>1. RowsOK(r) /\ HandlerMove(r)
  BY IsHandlerMove DEF OnceInv
<1>2. req'[r] = req[r] /\ req[r].tenant \in Tenants
  BY <1>1, HandlerProgress DEF UploadInv, RowsOK
<1>3. ASSUME NEW i \in 1 .. Len(out[r]), out[r][i].hash # NoHash, Written(r, i)'
      PROVE  Logged(r, i)'
  <2>1. CASE Written(r, i)
    BY <1>1, <1>3, <2>1, LoggedStays DEF RowsOK
  <2> QED
    BY <1>3, <2>1
<1>4. \A i \in 1 .. Len(out[r]) :
          /\ out[r][i].hash # NoHash => out[r][i].key \in Keys
          /\ out[r][i].disp = "enqueued" => out[r][i].hash # NoHash
  BY <1>1 DEF RowsOK
<1> QED
  BY <1>2, <1>3, <1>4, RowsNow

LEMMA RowsStep ==
    ASSUME UploadInv, OnceInv, NEW r \in Requests, LoggedMove(r)
    PROVE  RowsOK(r)'
<1>0. /\ HandlerOK(r) /\ RowsOK(r) /\ cur[r] \in Nat \ {0} /\ IsList(out[r])
      /\ Len(out[r]) \in Nat /\ DOMAIN out[r] = 1 .. Len(out[r]) /\ Len(runProducts[r]) \in Nat
      /\ Len(runProducts[r]) <= Len(out[r])
      /\ \A i \in 1 .. Len(runProducts[r]) : runProducts[r][i] = out[r][i]
  <2>1. HandlerOK(r) /\ RowsOK(r) /\ cur[r] \in Nat \ {0}
    BY DEF UploadInv, HandlerInv, OnceInv
  <2>2. IsList(out[r]) /\ IsList(runProducts[r])
    BY <2>1 DEF HandlerOK
  <2> QED
    BY <2>1, <2>2, ListFacts DEF RowsOK
<1>f. /\ DOMAIN pc = Requests /\ DOMAIN cur = Requests /\ DOMAIN out = Requests
      /\ DOMAIN runProducts = Requests
  BY DEF UploadInv, HandlerInv
<1>1. ASSUME NEW shape \in Shapes, Accept(r, shape)
      PROVE  RowsOK(r)'
  <2>1. pc[r] = "idle" /\ out' = out /\ runProducts' = runProducts /\ req'[r] = shape
    BY <1>1 DEF Accept, storeVars, UploadInv, HandlerInv
  <2>2. out[r] = <<>> /\ runProducts[r] = <<>> /\ Len(out[r]) = 0 /\ Len(runProducts[r]) = 0
    BY <1>0, <2>1 DEF HandlerOK
  <2>3. shape.tenant \in Tenants
    BY ShapesAssumption DEF Shape
  <2>4. pc'[r] # "upsert"
    <3>1. CASE Answer(r, "bad_request") \/ Answer(r, "error")
      BY <1>f, <3>1 DEF Answer, Goto
    <3>2. CASE Goto(r, "item")
      BY <1>f, <3>2 DEF Goto
    <3> QED
      BY <1>1, <3>1, <3>2 DEF Accept
  <2> QED
    BY <2>1, <2>2, <2>3, <2>4, RowsNow
<1>2. CASE ProcessItem(r)
  <2> DEFINE item == req[r].items[cur[r]]
             row == ProcessProduct(item, PreviousHash(req[r].tenant, item))
  <2>1. /\ pc[r] = "item" /\ cur[r] <= Len(req[r].items)
        /\ out' = [out EXCEPT ![r] = Append(@, row)]
        /\ req' = req /\ runProducts' = runProducts /\ productHash' = productHash
        /\ \/ item.valid /\ req[r].kind = "bulk" /\ pc' = [pc EXCEPT ![r] = "upsert"] /\ cur' = cur
           \/ /\ ~(req[r].kind = "bulk" /\ item.valid)
              /\ pc' = pc /\ cur' = [cur EXCEPT ![r] = @ + 1]
    BY <1>2 DEF ProcessItem, Goto, storeVars
  <2>2. cur[r] = Len(out[r]) + 1 /\ runProducts[r] = <<>> /\ Len(runProducts[r]) = 0
    BY <1>0, <2>1 DEF HandlerOK
  <2>3. /\ item.hash \in Hashes /\ (item.valid => item.key \in Keys) /\ NoHash \notin Hashes
    <3>1. req[r] \in Shapes
      BY <1>0, <2>1 DEF HandlerOK
    <3>2. req[r].items \in Seq(Item)
      BY <3>1, ShapesAssumption DEF Shape
    <3>3. cur[r] \in DOMAIN req[r].items
      BY <1>0, <2>1, <3>2
    <3>4. item \in Item /\ WellFormedItem(item)
      BY <3>1, <3>2, <3>3, ShapesAssumption
    <3> QED
      BY <3>4, SentinelAssumption DEF Item, WellFormedItem
  <2>4. /\ row.hash # NoHash => item.valid /\ row.key \in Keys
        /\ item.valid => row.hash # NoHash
        /\ row.disp = "enqueued" => row.hash # NoHash
    BY <2>3 DEF ProcessProduct
  <2> HIDE DEF row, item
  <2>5. /\ out'[r] = Append(out[r], row) /\ Len(out'[r]) = Len(out[r]) + 1
        /\ \A i \in 1 .. Len(out[r]) : out'[r][i] = out[r][i]
        /\ out'[r][Len(out[r]) + 1] = row
    BY <1>0, <1>f, <2>1, AppendList
  <2>6. \/ item.valid /\ req[r].kind = "bulk" /\ pc'[r] = "upsert" /\ cur'[r] = cur[r]
        \/ /\ ~(req[r].kind = "bulk" /\ item.valid)
           /\ pc'[r] = "item" /\ cur'[r] = cur[r] + 1
    BY <1>f, <2>1
  <2>7. \A i \in 1 .. Len(out'[r]) :
            /\ out'[r][i].hash # NoHash => out'[r][i].key \in Keys
            /\ out'[r][i].disp = "enqueued" => out'[r][i].hash # NoHash
    <3>1. \A i \in 1 .. Len(out'[r]) : i \in 1 .. Len(out[r]) \/ i = Len(out[r]) + 1
      BY <1>0, <2>5
    <3> QED
      BY <1>0, <2>4, <2>5, <3>1 DEF RowsOK
  <2>8. ASSUME NEW i \in 1 .. Len(out'[r]), out'[r][i].hash # NoHash, Written(r, i)'
        PROVE  Logged(r, i)'
    <3>1. i # Len(out[r]) + 1
      BY <2>1, <2>2, <2>4, <2>5, <2>6, <2>8 DEF Written
    <3>2. i \in 1 .. Len(out[r]) /\ out'[r][i] = out[r][i]
      BY <1>0, <2>5, <3>1
    <3>3. Written(r, i)
      BY <1>0, <2>1, <2>2, <2>6, <2>8, <3>2 DEF Written
    <3>4. Logged(r, i)
      BY <1>0, <2>8, <3>2, <3>3 DEF RowsOK
    <3> QED
      BY <3>2, <3>4, LoggedStays
  <2>9. req'[r].tenant \in Tenants
    BY <1>0, <2>1 DEF RowsOK
  <2>10. pc'[r] = "upsert" => out'[r][cur'[r]].hash # NoHash
    BY <2>2, <2>4, <2>5, <2>6
  <2>11. /\ Len(runProducts'[r]) <= Len(out'[r])
         /\ \A i \in 1 .. Len(runProducts'[r]) : runProducts'[r][i] = out'[r][i]
    BY <1>0, <2>1, <2>2, <2>5
  <2> QED
    BY <2>7, <2>8, <2>9, <2>10, <2>11, RowsNow
<1>3. CASE UpsertLine(r) \/ PersistRow(r)
  <2>1. /\ out' = out /\ req' = req /\ runProducts' = runProducts
        /\ cur'[r] = cur[r] + 1
        /\ \/ pc[r] = "upsert" /\ pc'[r] = "item"
           \/ pc[r] = "persist" /\ pc'[r] = "persist"
    BY <1>3, <1>f DEF UpsertLine, PersistRow, Goto
  <2>2. cur[r] \in 1 .. Len(out[r])
    BY <1>0, <1>3 DEF UpsertLine, PersistRow, HandlerOK
  <2>3. PICK c \in 1 .. Len(out[r]) : c = cur[r]
    BY <2>2
  <2>4. out[r][c].hash # NoHash => Logged(r, c)'
    <3>1. SUFFICES ASSUME out[r][c].hash # NoHash
                   PROVE  Logged(r, c)'
      OBVIOUS
    <3>2. log' = Append(log, Event("write", r, out[r][c]))
      BY <1>3, <2>3, <3>1, LogMove DEF WritesRow
    <3>3. IsList(log)
      BY DEF UploadInv, TypeOK, IsList
    <3>4. Len(log) + 1 \in 1 .. Len(log') /\ log'[Len(log) + 1] = Event("write", r, out[r][c])
      BY <3>2, <3>3, AppendList
    <3> QED
      BY <2>1, <3>4 DEF Event, Logged
  <2>5. ASSUME NEW i \in 1 .. Len(out[r]), Written(r, i)', out[r][i].hash # NoHash
        PROVE  Written(r, i) \/ Logged(r, i)'
    <3>1. i <= Len(runProducts[r]) \/ i < cur[r] + 1
      BY <2>1, <2>5 DEF Written
    <3>2. i <= Len(runProducts[r]) \/ i < cur[r] \/ i = c
      BY <1>0, <2>3, <3>1
    <3>3. CASE i = c
      BY <2>4, <2>5, <3>3
    <3> QED
      BY <2>1, <2>5, <3>2, <3>3 DEF Written
  <2> QED
    BY <1>0, <2>1, <2>5, SameRows
<1>4. CASE BeginPersist(r)
  <2>1. /\ pc[r] = "item" /\ pc'[r] = "persist" /\ cur'[r] = 1
        /\ out' = out /\ runProducts' = runProducts
    BY <1>4, <1>f DEF BeginPersist, Goto, storeVars
  <2>2. \A i \in 1 .. Len(out[r]) : Written(r, i)' => Written(r, i)
    BY <2>1 DEF Written
  <2> QED
    BY <1>0, <2>1, <2>2, SameRows
<1>5. CASE BuildRun(r) \/ InsertRun(r)
  <2>1. /\ out' = out /\ runProducts' = runProducts /\ pc[r] # "idle"
        /\ pc'[r] \in {"insert_run", "insert_rows"}
        /\ \/ pc[r] = "persist" /\ cur[r] > Len(out[r])
           \/ pc[r] = "item" /\ cur[r] > Len(req[r].items) /\ req[r].kind = "bulk"
           \/ pc[r] = "insert_run"
    BY <1>5, <1>f DEF BuildRun, InsertRun, Goto, storeVars
  <2>2. pc[r] = "item" => Len(out[r]) < cur[r]
    BY <1>0, <2>1 DEF HandlerOK
  <2>3. \A i \in 1 .. Len(out[r]) : Written(r, i)
    BY <1>0, <2>1, <2>2 DEF Written
  <2> QED
    BY <1>0, <2>1, <2>3, SameRows
<1>6. CASE InsertRow(r) \/ InsertRowFails(r)
  <2>1. /\ out' = out /\ pc[r] = "insert_rows" /\ cur[r] <= Len(out[r])
        /\ pc'[r] \in {"insert_rows", "done"}
        /\ \/ runProducts' = runProducts
           \/ runProducts'[r] = Append(runProducts[r], out[r][cur[r]])
    <3>1. CASE InsertRow(r)
      BY <3>1, <1>f DEF InsertRow, InsertProductRow
    <3>2. CASE InsertRowFails(r)
      BY <3>2, <1>f DEF InsertRowFails, InsertProductRow, Answer, Goto
    <3> QED
      BY <1>6, <3>1, <3>2
  <2>2. cur[r] = Len(runProducts[r]) + 1 /\ IsList(runProducts[r])
    BY <1>0, <2>1 DEF HandlerOK
  <2>3. /\ Len(runProducts'[r]) <= Len(out[r])
        /\ \A i \in 1 .. Len(runProducts'[r]) : runProducts'[r][i] = out[r][i]
    <3>1. CASE runProducts' = runProducts
      BY <1>0, <3>1
    <3>2. CASE runProducts'[r] = Append(runProducts[r], out[r][cur[r]])
      <4>1. /\ Len(runProducts'[r]) = Len(runProducts[r]) + 1
            /\ \A i \in 1 .. Len(runProducts[r]) : runProducts'[r][i] = runProducts[r][i]
            /\ runProducts'[r][Len(runProducts[r]) + 1] = out[r][cur[r]]
        BY <2>2, <3>2, AppendList
      <4> QED
        BY <1>0, <2>1, <2>2, <4>1
    <3> QED
      BY <2>1, <3>1, <3>2
  <2>4. \A i \in 1 .. Len(out[r]) : Written(r, i)
    BY <2>1 DEF Written
  <2> QED
    BY <2>1, <2>3, <2>4, SameRows
<1>7. CASE ScanFails(r) \/ Respond(r) \/ LookupFails(r) \/ UpsertFails(r) \/ InsertRunFails(r)
  <2>1. /\ out' = out /\ runProducts' = runProducts /\ pc[r] # "idle" /\ pc'[r] = "done"
    BY <1>7, <1>f DEF ScanFails, Respond, LookupFails, UpsertFails, InsertRunFails, Answer, Goto,
                      storeVars
  <2>2. \A i \in 1 .. Len(out[r]) : Written(r, i)' => Written(r, i)
    BY <2>1 DEF Written
  <2> QED
    BY <1>0, <2>1, <2>2, SameRows
<1> QED
  BY <1>1, <1>2, <1>3, <1>4, <1>5, <1>6, <1>7 DEF LoggedMove, HandlerStep, HandlerFailure

(* A lookup enqueues a product only while another hash is stored for it. *)
LEMMA LookedUpRow ==
    ASSUME UploadInv, NEW r \in Requests, ProcessItem(r),
           NEW row, row = out'[r][Len(out[r]) + 1], row.disp = "enqueued", row.hash # NoHash
    PROVE  productHash[req[r].tenant][row.key] # row.hash
<1> DEFINE item == req[r].items[cur[r]]
           old == PreviousHash(req[r].tenant, item)
           new == ProcessProduct(item, old)
<1>1. out' = [out EXCEPT ![r] = Append(@, new)]
  BY DEF ProcessItem
<1>2. HandlerOK(r) /\ DOMAIN out = Requests
  BY DEF UploadInv, HandlerInv
<1>3. row = new
  <2>1. IsList(out[r])
    BY <1>2 DEF HandlerOK
  <2> QED
    BY <1>1, <1>2, <2>1, AppendList
<1>4. item.valid /\ old = productHash[req[r].tenant][item.key] /\ row.key = item.key
      /\ row.hash = item.hash
  BY <1>3 DEF ProcessProduct, PreviousHash, GetProductHash
<1>5. ~(old # NoHash /\ old = item.hash)
  BY <1>3, <1>4 DEF ProcessProduct, ComputeDisposition
<1> HIDE DEF new, old, item
<1> QED
  BY <1>4, <1>5

LEMMA HistoryStep ==
    ASSUME UploadInv, OnceInv, NEW r \in Requests, LoggedMove(r)
    PROVE  HistoryInv'
<1> DEFINE n == Len(log)
<1>g. /\ n \in Nat /\ Len(log') \in {n, n + 1}
      /\ \A x \in 1 .. n : log'[x] = log[x]
  BY LogGrows
<1>h. \A x \in 1 .. Len(log') : x \in 1 .. n \/ (x = n + 1 /\ Len(log') = n + 1)
  BY <1>g
<1>r. RowsOK(r) /\ DOMAIN productHash = Tenants /\ \A t \in Tenants : DOMAIN productHash[t] = Keys
  BY DEF OnceInv
<1>o. \A x, y \in 1 .. n : Overwrites(y, x) => Overwrites(y, x)'
  BY <1>g DEF Overwrites
<1>e. ASSUME NEW e, log' = Append(log, e)
      PROVE  Len(log') = n + 1 /\ log'[n + 1] = e
  <2>1. IsList(log)
    BY DEF UploadInv, TypeOK, IsList
  <2> QED
    BY <1>e, <2>1, AppendList
(* What was written is still there, or was overwritten. *)
<1>1. ASSUME NEW x \in 1 .. Len(log'), log'[x].op = "write"
      PROVE  log'[x].tenant \in Tenants /\ log'[x].row.key \in Keys /\ KeptOrOverwritten(x)'
  <2>w. WritesRow(r) => req[r].tenant \in Tenants /\ out[r][cur[r]].key \in Keys
    BY <1>r DEF WritesRow, RowsOK
  <2>1. CASE x \in 1 .. n
    <3>1. /\ log'[x] = log[x] /\ log[x].tenant \in Tenants /\ log[x].row.key \in Keys
          /\ KeptOrOverwritten(x)
      BY <1>g, <1>1, <2>1 DEF OnceInv, HistoryInv
    <3>2. CASE \E y \in x + 1 .. n : Overwrites(y, x)
      <4>1. PICK y \in x + 1 .. n : Overwrites(y, x)
        BY <3>2
      <4>2. y \in x + 1 .. Len(log') /\ y \in 1 .. n
        BY <1>g, <2>1
      <4>3. Overwrites(y, x)'
        BY <1>o, <2>1, <4>1, <4>2
      <4> QED
        BY <3>1, <4>2, <4>3 DEF KeptOrOverwritten
    <3>3. CASE productHash[log[x].tenant][log[x].row.key] = log[x].row.hash
      <4>1. CASE productHash' = productHash
        BY <3>1, <3>3, <4>1 DEF KeptOrOverwritten
      <4>2. CASE WritesRow(r)
        <5> DEFINE row == out[r][cur[r]]
                   t == log[x].tenant
                   k == log[x].row.key
        <5>1. Len(log') = n + 1 /\ log'[n + 1] = Event("write", r, row)
          BY <1>e, <4>2 DEF WritesRow
        <5>2. \/ productHash'[t][k] = productHash[t][k]
              \/ t = req[r].tenant /\ k = row.key
          BY <1>r, <2>w, <3>1, <4>2 DEF WritesRow
        <5>3. CASE productHash'[t][k] = productHash[t][k]
          BY <3>1, <3>3, <5>3 DEF KeptOrOverwritten
        <5>4. CASE t = req[r].tenant /\ k = row.key /\ row.hash # log[x].row.hash
          <6>1. PICK z \in x + 1 .. Len(log') : z = n + 1
            BY <1>g, <2>1, <5>1
          <6>2. Overwrites(z, x)'
            BY <3>1, <5>1, <5>4, <6>1 DEF Overwrites, Event
          <6> QED
            BY <3>1, <6>2 DEF KeptOrOverwritten
        <5>5. CASE t = req[r].tenant /\ k = row.key /\ row.hash = log[x].row.hash
          <6>1. productHash'[t][k] = row.hash
            BY <1>r, <2>w, <3>1, <4>2, <5>5 DEF WritesRow
          <6> QED
            BY <3>1, <5>5, <6>1 DEF KeptOrOverwritten
        <5> QED
          BY <5>2, <5>3, <5>4, <5>5
      <4>3. CASE LooksUp(r)
        <5>1. productHash' = productHash
          BY <4>3 DEF LooksUp, ProcessItem, storeVars
        <5> QED
          BY <4>1, <5>1
      <4> QED
        BY <4>1, <4>2, <4>3, LogMove DEF Quiet
    <3> QED
      BY <3>1, <3>2, <3>3 DEF KeptOrOverwritten
  <2>2. CASE x = n + 1 /\ Len(log') = n + 1
    <3>1. WritesRow(r)
      <4>1. ~Quiet
        BY <1>g, <2>2 DEF Quiet
      <4>2. ~LooksUp(r)
        BY <1>e, <1>1, <2>2 DEF LooksUp, Event
      <4> QED
        BY <4>1, <4>2, LogMove
    <3>2. log'[x] = Event("write", r, out[r][cur[r]])
      BY <1>e, <2>2, <3>1 DEF WritesRow
    <3>3. productHash'[req[r].tenant][out[r][cur[r]].key] = out[r][cur[r]].hash
      BY <1>r, <2>w, <3>1 DEF WritesRow
    <3> QED
      BY <2>w, <3>1, <3>2, <3>3 DEF Event, KeptOrOverwritten
  <2> QED
    BY <1>h, <2>1, <2>2
(* A lookup that enqueues what was written before comes after another      *)
(* write.                                                                  *)
<1>2. ASSUME NEW w \in 1 .. Len(log'), NEW l \in 1 .. Len(log'), w < l, LooksAgain(l, w)'
      PROVE  \E x \in w + 1 .. l - 1 : Overwrites(x, w)'
  <2>0. w \in 1 .. n /\ log'[w] = log[w]
    BY <1>g, <1>h, <1>2
  <2>1. CASE l \in 1 .. n
    <3>1. LooksAgain(l, w)
      BY <1>g, <1>2, <2>0, <2>1 DEF LooksAgain
    <3>2. PICK x \in w + 1 .. l - 1 : Overwrites(x, w)
      BY <1>2, <2>0, <2>1, <3>1 DEF OnceInv, HistoryInv
    <3>3. x \in 1 .. n
      BY <1>g, <2>0, <2>1
    <3> QED
      BY <1>o, <2>0, <3>2, <3>3
  <2>2. CASE l = n + 1 /\ Len(log') = n + 1
    <3>1. LooksUp(r)
      <4>1. ~Quiet
        BY <1>g, <2>2 DEF Quiet
      <4>2. ~WritesRow(r)
        BY <1>e, <1>2, <2>2 DEF WritesRow, Event, LooksAgain
      <4> QED
        BY <4>1, <4>2, LogMove
    <3>2. PICK row : row = out'[r][Len(out[r]) + 1]
      OBVIOUS
    <3>3. log'[l] = Event("look", r, row)
      BY <1>e, <2>2, <3>1, <3>2 DEF LooksUp
    <3>4. /\ log[w].op = "write" /\ row.disp = "enqueued"
          /\ log[w].tenant = req[r].tenant /\ log[w].row.key = row.key /\ log[w].row.hash = row.hash
      BY <1>2, <2>0, <3>3 DEF LooksAgain, Event
    <3>5. row.hash # NoHash
      <4>1. RowsOK(r)'
        BY RowsStep
      <4>2. Len(out[r]) + 1 \in 1 .. Len(out'[r])
        <5>1. IsList(out[r]) /\ DOMAIN out = Requests
          BY DEF UploadInv, HandlerInv, HandlerOK
        <5>2. PICK z : out' = [out EXCEPT ![r] = Append(@, z)]
          BY <3>1 DEF LooksUp, ProcessItem
        <5>3. out'[r] = Append(out[r], z)
          BY <5>1, <5>2
        <5> QED
          BY <5>1, <5>3, AppendList
      <4> QED
        BY <3>2, <3>4, <4>1, <4>2 DEF RowsOK
    <3>6. productHash[req[r].tenant][row.key] # row.hash
      BY <3>1, <3>2, <3>4, <3>5, LookedUpRow DEF LooksUp
    <3>7. KeptOrOverwritten(w)
      BY <2>0, <3>4 DEF OnceInv, HistoryInv
    <3>8. PICK x \in w + 1 .. n : Overwrites(x, w)
      BY <3>4, <3>6, <3>7 DEF KeptOrOverwritten
    <3>9. x \in w + 1 .. l - 1 /\ x \in 1 .. n
      BY <1>g, <2>0, <2>2
    <3> QED
      BY <1>o, <2>0, <3>8, <3>9
  <2> QED
    BY <1>h, <2>1, <2>2
<1> QED
  BY <1>1, <1>2 DEF HistoryInv

LEMMA OnceMove ==
    ASSUME UploadInv, OnceInv, NEW m \in Requests, LoggedMove(m)
    PROVE  OnceInv'
<1>1. RowsOK(m)' /\ HistoryInv' /\ Others(m)
  BY RowsStep, HistoryStep, HandlerFrame, IsHandlerMove DEF UploadInv
<1>2. /\ DOMAIN productHash' = Tenants
      /\ \A t \in Tenants : DOMAIN productHash'[t] = Keys
  <2>1. productHash' = productHash \/ WritesRow(m)
    BY LogMove DEF LooksUp, Quiet, ProcessItem, storeVars
  <2> QED
    BY <2>1 DEF WritesRow, OnceInv
<1>3. ASSUME NEW q \in Requests, q # m
      PROVE  RowsOK(q)'
  <2>1. RowsOK(q)
    BY DEF OnceInv
  <2>2. /\ pc'[q] = pc[q] /\ cur'[q] = cur[q] /\ req'[q] = req[q] /\ out'[q] = out[q]
        /\ runProducts'[q] = runProducts[q]
    BY <1>1, <1>3 DEF Others
  <2>3. ASSUME NEW i \in 1 .. Len(out[q]), out[q][i].hash # NoHash, Written(q, i)'
        PROVE  Logged(q, i)'
    <3>1. Written(q, i)
      BY <2>2, <2>3 DEF Written
    <3> QED
      BY <2>1, <2>3, <3>1, LoggedStays DEF RowsOK
  <2> QED
    BY <2>1, <2>2, <2>3, RowsNow DEF RowsOK
<1> QED
  BY <1>1, <1>2, <1>3 DEF OnceInv

(* No result is looked up and none is written; calls may end. *)
LEMMA OnceIdle ==
    ASSUME OnceInv, UNCHANGED <<req, out, productHash, runProducts, log>>,
           \A r \in Requests :
              \/ pc'[r] = pc[r] /\ cur'[r] = cur[r]
              \/ pc'[r] \in {"idle", "done"} /\ (pc'[r] # "idle" => pc[r] # "idle")
    PROVE  OnceInv'
<1>1. ASSUME NEW r \in Requests PROVE RowsOK(r)'
  <2>1. RowsOK(r)
    BY DEF OnceInv
  <2>2. \A i \in 1 .. Len(out[r]) : Written(r, i)' => Written(r, i)
    BY DEF Written
  <2>3. \A i \in 1 .. Len(out[r]) : Logged(r, i) => Logged(r, i)'
    BY DEF Logged, Event
  <2> QED
    BY <2>1, <2>2, <2>3 DEF RowsOK
<1>2. HistoryInv'
  BY DEF OnceInv, HistoryInv, KeptOrOverwritten, Overwrites, LooksAgain
<1> QED
  BY <1>1, <1>2 DEF OnceInv

LEMMA OnceStep ==
    ASSUME UploadInv, OnceInv, [Next]_vars
    PROVE  OnceInv'
<1> USE DEF handlerVars, storeVars
<1>1. CASE UNCHANGED vars
  BY <1>1, OnceIdle DEF vars
<1>2. ASSUME NEW r \in Requests, Serve(r) \/ Work(r) PROVE OnceInv'
  <2>1. stage[r] = "handler" => BodiesSeen(sent[r], idem[r]) \subseteq Shapes
    BY UploadAssumption DEF UploadInv, StageInv, BodiesSeen
  <2>2. LoggedMove(r)
    BY <1>2, <2>1 DEF Serve, Work, LoggedMove
  <2> QED
    BY <2>2, OnceMove
<1>3. ASSUME NEW r \in Requests,
             \/ \E shape \in Shapes, key \in IdemKeys \cup {None} : Send(r, shape, key)
             \/ Lookup(r) \/ Return(r) \/ Store(r)
      PROVE  OnceInv'
  BY <1>3, OnceIdle DEF Send, Lookup, Return, Store
<1>4. CASE Crash
  <2>1. CASE ApiCrash
    <3>1. \A q \in Requests : pc'[q] \in {"idle", "done"} /\ (pc'[q] # "idle" => pc[q] # "idle")
      BY <2>1 DEF ApiCrash, InFlight, UploadInv, HandlerInv
    <3> QED
      BY <1>4, <2>1, <3>1, OnceIdle DEF Crash, ApiCrash
  <2> QED
    BY <1>4, <2>1, OnceIdle DEF Crash
<1> QED
  BY <1>1, <1>2, <1>3, <1>4 DEF Next

(* A content is scheduled once, however often its upload is repeated after *)
(* errors, crashes and lost answers and whatever runs at the same time: a  *)
(* hash is written before the run that has its row, so a call that looks   *)
(* the product up later schedules the content again only after another     *)
(* content was written in between.                                         *)
THEOREM ScheduledOnceHolds == Spec => []ScheduledOnce
<1>1. Init => OnceInv
  <2> SUFFICES ASSUME Init PROVE OnceInv
    OBVIOUS
  <2> USE DEF Init, StoreInit, HandlerInit
  <2>1. Len(<<>>) = 0
    OBVIOUS
  <2>2. \A r \in Requests : RowsOK(r)
    BY <2>1 DEF RowsOK
  <2>3. HistoryInv
    BY <2>1 DEF HistoryInv
  <2> QED
    BY <2>2, <2>3 DEF OnceInv
<1>2. UploadInv /\ OnceInv => ScheduledOnce
  <2> SUFFICES ASSUME UploadInv, OnceInv,
                      NEW q \in Requests, NEW r \in Requests, q # r,
                      NEW row \in StoredRows(q) \cap StoredRows(r), row.disp = "enqueued",
                      req[q].tenant = req[r].tenant
               PROVE  \E w \in DOMAIN log :
                         /\ log[w] = Event("write", q, row)
                         /\ \A l \in DOMAIN log : (l > w /\ log[l] = Event("look", r, row)) =>
                               \E x \in w + 1 .. l - 1 :
                                  /\ log[x].op = "write" /\ log[x].tenant = req[r].tenant
                                  /\ log[x].row.key = row.key /\ log[x].row.hash # row.hash
    BY DEF ScheduledOnce
  <2>1. HandlerOK(q) /\ RowsOK(q)
    BY DEF UploadInv, HandlerInv, OnceInv
  <2>2. /\ DOMAIN log = 1 .. Len(log) /\ Len(log) \in Nat
        /\ DOMAIN runProducts[q] = 1 .. Len(runProducts[q])
        /\ Len(runProducts[q]) \in Nat /\ Len(out[q]) \in Nat
    <3>1. DOMAIN log = 1 .. Len(log) /\ Len(log) \in Nat
      BY DEF UploadInv, TypeOK
    <3> QED
      BY <2>1, <3>1, ListFacts DEF HandlerOK
  <2>3. PICK j \in 1 .. Len(runProducts[q]) : runProducts[q][j] = row
    BY <2>2 DEF StoredRows
  <2>4. j \in 1 .. Len(out[q]) /\ out[q][j] = row /\ row.hash # NoHash /\ Written(q, j)
    BY <2>1, <2>2, <2>3 DEF RowsOK, Written
  <2>5. Logged(q, j)
    BY <2>1, <2>4 DEF RowsOK
  <2>6. PICK w \in 1 .. Len(log) : log[w] = Event("write", q, row)
    BY <2>4, <2>5 DEF Logged
  <2>7. ASSUME NEW l \in 1 .. Len(log), l > w, log[l] = Event("look", r, row)
        PROVE  \E x \in w + 1 .. l - 1 :
                  /\ log[x].op = "write" /\ log[x].tenant = req[r].tenant
                  /\ log[x].row.key = row.key /\ log[x].row.hash # row.hash
    <3>1. LooksAgain(l, w)
      BY <2>6, <2>7 DEF LooksAgain, Event
    <3>2. PICK x \in w + 1 .. l - 1 : Overwrites(x, w)
      BY <2>2, <2>6, <2>7, <3>1 DEF OnceInv, HistoryInv
    <3> QED
      BY <2>6, <3>2 DEF Overwrites, Event
  <2> QED
    BY <2>2, <2>6, <2>7
<1>3. UploadInv /\ OnceInv /\ [Next]_vars => OnceInv'
  BY OnceStep
<1> QED
  BY UploadInvHolds, <1>1, <1>2, <1>3, PTL DEF Spec
=============================================================================
