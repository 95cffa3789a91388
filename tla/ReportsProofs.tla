--------------------------- MODULE ReportsProofs ---------------------------
(***************************************************************************)
(* Proofs about RunReports: what the readers of runs are shown while       *)
(* uploads and workers go on.  ReportsInv ties the run a reader has in     *)
(* hand to the upload it came from and to the status it has now.           *)
(***************************************************************************)
EXTENDS RunReports, FiniteSetTheorems, TLAPS

(* A run is the upload of its request: its tenant, its size, and a prefix  *)
(* of its rows.                                                            *)
RunOK(r) ==
    /\ state[r] = "new" => runs[r].status = "absent" /\ Len(runProducts[r]) = 0
    /\ state[r] \in {"rows", "answered"} => runs[r].status # "absent"
    /\ runs[r].status = "absent" => runs[r].tenant = NoTenant
    /\ runs[r].status # "absent" =>
          /\ runs[r].tenant \in Tenants
          /\ runs[r].tenant = upload[r].tenant
          /\ runs[r].sum.received = Len(upload[r].rows)
    /\ Len(runProducts[r]) <= Len(upload[r].rows)
    /\ \A i \in 1 .. Len(runProducts[r]) : runProducts[r][i] = upload[r].rows[i]
    /\ state[r] = "answered" => Len(runProducts[r]) = Len(upload[r].rows)
    /\ backend = "memory" => Len(runProducts[r]) \in {0, Len(upload[r].rows)}

(* What GetRun read stays true of the run, but for the status, which only  *)
(* goes forward; and it was not behind an answer given before.             *)
ReadOK(read) ==
    /\ runs[read.run].status # "absent"
    /\ upload[read.run].tenant = read.tenant
    /\ read.record.sum.received = Len(upload[read.run].rows)
    /\ read.answered => state[read.run] = "answered"
    /\ NotBehind(runs[read.run].status, read.record.status)
    /\ read.later =>
          seen # NoRead /\ (seen.run = read.run => NotBehind(read.record.status, seen.status))

ReadInv == \A v \in Readers : reading[v] # NoRead => ReadOK(reading[v])

(* No run has gone back behind the remembered answer. *)
SeenInv ==
    seen # NoRead =>
        /\ NotBehind(runs[seen.run].status, seen.status)
        /\ seen.rows <= Len(runProducts[seen.run])

(* The runs of an open claim, in MySQL, are still pending. *)
LockedInv ==
    /\ backend = "memory" => locked = {}
    /\ \A r \in locked : runs[r].status = "has_changes"

ReportsInv ==
    /\ TypeOK
    /\ \A r \in Requests : RunOK(r)
    /\ ReadInv
    /\ SeenInv
    /\ LockedInv
-----------------------------------------------------------------------------
LEMMA NotBehindTrans ==
    ASSUME NEW a, NEW b, NEW c, NotBehind(a, b), NotBehind(b, c)
    PROVE  NotBehind(a, c)
<1>1. Rank(a) \in Nat /\ Rank(b) \in Nat /\ Rank(c) \in Nat
  BY DEF Rank
<1> QED
  BY <1>1 DEF NotBehind

(* The summary of an upload counts all its rows. *)
LEMMA SummaryOfType ==
    ASSUME NEW rows \in Seq(Row)
    PROVE  SummaryOf(rows) \in Summary /\ SummaryOf(rows).received = Len(rows)
<1>1. ASSUME NEW disp PROVE CountIn(rows, disp) \in 0 .. Len(rows)
  <2>1. IsFiniteSet(1 .. Len(rows)) /\ Cardinality(1 .. Len(rows)) = Len(rows)
    <3>1. Len(rows) \in Nat
      OBVIOUS
    <3> QED
      BY <3>1, FS_Interval
  <2>2. {i \in DOMAIN rows : rows[i].disp = disp} \in SUBSET (1 .. Len(rows))
    OBVIOUS
  <2>3. /\ IsFiniteSet({i \in DOMAIN rows : rows[i].disp = disp})
        /\ CountIn(rows, disp) <= Len(rows)
    BY <2>1, <2>2, FS_Subset DEF CountIn
  <2>4. CountIn(rows, disp) \in Nat
    BY <2>3, FS_CardinalityType DEF CountIn
  <2> QED
    BY <2>3, <2>4
<1>2. PICK n \in Nat, a \in Nat, b \in Nat, c \in Nat :
          /\ n = Len(rows) /\ a <= n /\ a = CountIn(rows, "rejected")
          /\ b = CountIn(rows, "unchanged") /\ c = CountIn(rows, "enqueued")
  BY <1>1
<1>3. SummaryOf(rows) =
          [received |-> n, valid |-> n - a, rejected |-> a, unchanged |-> b, enqueued |-> c]
  BY <1>2 DEF SummaryOf
<1>4. n - a \in Nat
  BY <1>2
<1> QED
  BY <1>2, <1>3, <1>4 DEF Summary

(* The run an upload is stored as. *)
LEMMA NewRunType ==
    ASSUME NEW t \in Tenants, NEW s \in Summary, NEW now \in Nat
    PROVE  [tenant |-> t, status |-> RunStatus(s), push |-> PushTriggered(s),
            sum |-> s, created |-> now] \in RunRecord
BY DEF RunRecord, RunStatus, RunStatuses, PushTriggered, Summary

LEMMA WithStatusType ==
    ASSUME NEW rs \in [Requests -> RunRecord], NEW S, NEW s \in RunStatuses
    PROVE  /\ WithStatus(rs, S, s) \in [Requests -> RunRecord]
           /\ \A r \in Requests :
                 /\ WithStatus(rs, S, s)[r].tenant = rs[r].tenant
                 /\ WithStatus(rs, S, s)[r].sum = rs[r].sum
                 /\ WithStatus(rs, S, s)[r].status = IF r \in S THEN s ELSE rs[r].status
BY DEF WithStatus, RunRecord

(* An upload of the model, stored or not. *)
LEMMA UploadFacts ==
    ASSUME NEW u \in Uploads \cup {NoUpload}
    PROVE  /\ u.rows \in Seq(Row)
           /\ Len(u.rows) \in Nat
           /\ u \in Uploads => u.tenant \in Tenants
<1>1. CASE u \in Uploads
  BY <1>1, ReportAssumption
<1>2. CASE u = NoUpload
  <2>1. u.rows = <<>> /\ <<>> \in Seq(Row) /\ Len(<<>>) = 0
    BY <1>2 DEF NoUpload
  <2> QED
    BY <2>1, <1>1
<1> QED
  BY <1>1, <1>2
-----------------------------------------------------------------------------
(* A sequence of all the elements of a finite set, each of them once. *)
LEMMA PermFacts ==
    ASSUME NEW S, IsFiniteSet(S), NEW f \in SetToSeqs(S)
    PROVE  /\ Cardinality(S) \in Nat
           /\ f \in Seq(S) /\ Len(f) = Cardinality(S) /\ DOMAIN f = 1 .. Cardinality(S)
           /\ \A i, j \in 1 .. Cardinality(S) : f[i] = f[j] => i = j
           /\ \A x \in S : \E i \in 1 .. Cardinality(S) : f[i] = x
<1>1. Cardinality(S) \in Nat
  BY FS_CardinalityType
<1>2. /\ f \in [1 .. Cardinality(S) -> S]
      /\ \A i, j \in 1 .. Cardinality(S) : i # j => f[i] # f[j]
  BY DEF SetToSeqs
<1>3. f \in Injection(1 .. Cardinality(S), S)
  BY <1>2 DEF Injection, IsInjective
<1>4. Cardinality(1 .. Cardinality(S)) = Cardinality(S)
  BY <1>1, FS_Interval
<1>5. f \in Surjection(1 .. Cardinality(S), S)
  BY <1>3, <1>4, FS_Injection
<1> QED
  BY <1>1, <1>2, <1>5 DEF Surjection

(* What is left of a list that is cut off. *)
LEMMA TruncatedFacts ==
    ASSUME NEW T, NEW list \in Seq(T), NEW n \in Nat \ {0}
    PROVE  /\ Truncated(list, n) \in Seq(T)
           /\ Len(Truncated(list, n)) = Min2(Len(list), n)
           /\ Len(Truncated(list, n)) <= Len(list)
           /\ \A i \in 1 .. Len(Truncated(list, n)) : Truncated(list, n)[i] = list[i]
<1>1. CASE n > Len(list)
  BY <1>1 DEF Truncated, Min2
<1>2. CASE n <= Len(list)
  <2>1. Truncated(list, n) = SubSeq(list, 1, n)
    BY <1>2 DEF Truncated
  <2>2. /\ SubSeq(list, 1, n) \in Seq(T) /\ Len(SubSeq(list, 1, n)) = n
        /\ \A i \in 1 .. n : SubSeq(list, 1, n)[i] = list[i]
    BY <1>2
  <2> QED
    BY <1>2, <2>1, <2>2 DEF Min2
<1> QED
  BY <1>1, <1>2

(* The handler's limit is the one the reader is entitled to, and the       *)
(* MySQL store's second look at it changes nothing.                        *)
LEMMA LimitFacts ==
    ASSUME NEW n \in Int, NEW d \in Nat \ {0}, NEW m \in Nat \ {0}, d <= m, NEW e
    PROVE  /\ StoreLimit(Clamp(n, d, m), e, m) = Asked(n, d, m)
           /\ Asked(n, d, m) \in Nat \ {0}
<1>1. Clamp(n, d, m) = Asked(n, d, m)
  BY DEF Clamp, Asked
<1>2. Asked(n, d, m) \in 1 .. m
  BY DEF Asked
<1>3. \A k \in 1 .. m : Clamp(k, e, m) = k
  BY DEF Clamp
<1> QED
  BY <1>1, <1>2, <1>3 DEF StoreLimit

LEMMA IntervalFacts ==
    ASSUME NEW n \in Nat
    PROVE  IsFiniteSet(1 .. n) /\ Cardinality(1 .. n) = n
BY FS_Interval

(* The rows f of a run are the first of its results. *)
FirstOf(f, results) ==
    Len(f) <= Len(results) /\ \A i \in 1 .. Len(f) : f[i] = results[i]

InOrder(f, p) == \A i, j \in DOMAIN p : i < j => f[p[i]].key <= f[p[j]].key

Picked(f, p) == [i \in DOMAIN p |-> f[p[i]]]

(* The rows a detail shows: sorted, each of them as often as the run has   *)
(* it, and as many as were asked for.                                      *)
Shows(rows, f, results, n) ==
    /\ DOMAIN rows = 1 .. Len(rows)
    /\ Len(rows) = Min2(Len(f), n)
    /\ \A i, j \in DOMAIN rows : i < j => rows[i].key <= rows[j].key
    /\ \A row : Cardinality({i \in DOMAIN rows : rows[i] = row})
                   <= Cardinality({j \in DOMAIN results : results[j] = row})

LEMMA DetailRows ==
    ASSUME NEW f \in Seq(Row), NEW results \in Seq(Row), FirstOf(f, results),
           NEW p \in SetToSeqs(DOMAIN f), InOrder(f, p), NEW n \in Nat \ {0},
           NEW rows, rows = Truncated(Picked(f, p), n)
    PROVE  Shows(rows, f, results, n)
<1>1. PICK k \in Nat, m \in Nat : k = Len(f) /\ m = Len(results) /\ k <= m
  BY DEF FirstOf
<1>2. DOMAIN f = 1 .. k /\ DOMAIN results = 1 .. m
  BY <1>1
<1>3. IsFiniteSet(1 .. k) /\ Cardinality(1 .. k) = k /\ IsFiniteSet(1 .. m)
  BY IntervalFacts
<1>4. /\ p \in Seq(1 .. k) /\ DOMAIN p = 1 .. k
      /\ \A i, j \in 1 .. k : p[i] = p[j] => i = j
  <2>1. p \in SetToSeqs(1 .. k)
    BY <1>2
  <2> QED
    BY <1>3, <2>1, PermFacts
<1>5. \A i \in 1 .. k : p[i] \in 1 .. k /\ f[p[i]] \in Row
  BY <1>1, <1>4
<1> DEFINE list == [i \in 1 .. k |-> f[p[i]]]
<1>6. list \in Seq(Row) /\ Len(list) = k /\ \A i \in 1 .. k : list[i] = f[p[i]]
  BY <1>5
<1>7. rows = Truncated(list, n)
  BY <1>4 DEF Picked
<1> HIDE DEF list
<1>t. /\ rows \in Seq(Row) /\ Len(rows) = Min2(k, n) /\ Len(rows) <= k
      /\ \A i \in 1 .. Len(rows) : rows[i] = list[i]
  <2>1. /\ Truncated(list, n) \in Seq(Row)
        /\ Len(Truncated(list, n)) = Min2(Len(list), n)
        /\ Len(Truncated(list, n)) <= Len(list)
        /\ \A i \in 1 .. Len(Truncated(list, n)) : Truncated(list, n)[i] = list[i]
    BY <1>6, TruncatedFacts, Zenon
  <2> QED
    BY <1>6, <1>7, <2>1
<1>s. \A s \in Seq(Row) : Len(s) \in Nat /\ DOMAIN s = 1 .. Len(s)
  OBVIOUS
<1>8. PICK l \in Nat : l = Len(rows) /\ l <= k
  BY <1>s, <1>t, Zenon
<1>9. /\ rows \in Seq(Row) /\ l = Min2(k, n) /\ DOMAIN rows = 1 .. l
      /\ \A i \in 1 .. l : i \in 1 .. k /\ rows[i] = f[p[i]]
  <2>1. \A i \in 1 .. l : i \in 1 .. k
    BY <1>8
  <2> QED
    BY <1>6, <1>8, <1>s, <1>t, <2>1, Zenon
<1>10. \A i, j \in 1 .. l : i < j => rows[i].key <= rows[j].key
  <2>1. \A i, j \in 1 .. k : i < j => f[p[i]].key <= f[p[j]].key
    BY <1>4 DEF InOrder
  <2> QED
    BY <1>9, <2>1
<1>11. ASSUME NEW row
       PROVE  Cardinality({i \in DOMAIN rows : rows[i] = row})
                  <= Cardinality({j \in DOMAIN results : results[j] = row})
  <2> DEFINE A == {i \in 1 .. l : rows[i] = row}
  <2> DEFINE B == {j \in 1 .. m : results[j] = row}
  <2> DEFINE g == [i \in A |-> p[i]]
  <2>1. IsFiniteSet(B)
    <3>1. B \in SUBSET (1 .. m)
      OBVIOUS
    <3> QED
      BY <1>3, <3>1, FS_Subset
  <2>2. \A i \in 1 .. k : f[p[i]] = results[p[i]] /\ p[i] \in 1 .. m
    BY <1>1, <1>5 DEF FirstOf
  <2>3. \A i \in A : p[i] \in B
    BY <1>9, <2>2
  <2>4. \A i, j \in A : p[i] = p[j] => i = j
    BY <1>4, <1>9
  <2>5. g \in Injection(A, B)
    BY <2>3, <2>4 DEF Injection, IsInjective
  <2> HIDE DEF g, A, B
  <2>6. Cardinality(A) <= Cardinality(B)
    BY <2>1, <2>5, FS_Injection
  <2> QED
    BY <1>2, <1>9, <2>6 DEF A, B
<1> QED
  BY <1>1, <1>8, <1>9, <1>10, <1>11 DEF Shows

(* What the second half of a detail answers. *)
LEMMA DetailShows ==
    ASSUME ReportsInv, NEW v \in Readers, NEW n \in Limits, ListProducts(v, n)
    PROVE  \E rows :
              /\ report' = [kind |-> "detail", read |-> reading[v], limit |-> n, rows |-> rows]
              /\ Remember({[run |-> reading[v].run, status |-> reading[v].record.status,
                            rows |-> Len(rows)]})
              /\ Shows(rows, runProducts[reading[v].run], upload[reading[v].run].rows,
                       Asked(n, DetailDefault, DetailMax))
              /\ Len(rows) \in Nat
<1>1. PICK read \in Detail : read = reading[v] /\ ReadOK(read)
  BY DEF ListProducts, ReportsInv, ReadInv, TypeOK
<1> DEFINE k == Asked(n, DetailDefault, DetailMax)
<1>2. n \in Int /\ read.run \in Requests
  BY <1>1, ReportAssumption DEF Detail
<1>3. /\ StoreLimit(Clamp(n, DetailDefault, DetailMax), RowsDefault, ListCap) = k
      /\ k \in Nat \ {0}
  BY <1>2, LimitFacts, ReportAssumption
<1> HIDE DEF k
<1>4. PICK list \in ByKey(read.run) :
          /\ report' = [kind |-> "detail", read |-> read, limit |-> n, rows |-> Truncated(list, k)]
          /\ Remember({[run |-> read.run, status |-> read.record.status,
                        rows |-> Len(Truncated(list, k))]})
  BY <1>1, <1>3 DEF ListProducts
<1> DEFINE rows == Truncated(list, k)
<1> DEFINE results == upload[read.run].rows
<1> DEFINE f == runProducts[read.run]
<1>5. Shows(rows, f, results, k)
  <2>1. f \in Seq(Row) /\ upload[read.run] \in Uploads \cup {NoUpload} /\ RunOK(read.run)
    BY <1>2 DEF ReportsInv, TypeOK, StoreTypeOK
  <2>2. results \in Seq(Row) /\ FirstOf(f, results)
    BY <2>1, UploadFacts DEF RunOK, FirstOf
  <2>3. PICK p \in SetToSeqs(DOMAIN f) : InOrder(f, p) /\ list = Picked(f, p)
    BY DEF ByKey, InOrder, Picked
  <2>4. rows = Truncated(Picked(f, p), k)
    BY <2>3
  <2> HIDE DEF rows, f, results
  <2> QED
    BY <1>3, <2>1, <2>2, <2>3, <2>4, DetailRows, Zenon
<1>6. Len(rows) \in Nat
  <2>1. f \in Seq(Row)
    BY <1>2 DEF ReportsInv, TypeOK, StoreTypeOK
  <2>2. Len(f) \in Nat
    BY <2>1
  <2>3. Len(rows) = Min2(Len(f), k)
    BY <1>5 DEF Shows
  <2> HIDE DEF rows, f
  <2> QED
    BY <1>3, <2>2, <2>3 DEF Min2
<1> HIDE DEF rows
<1> QED
  BY <1>1, <1>4, <1>5, <1>6 DEF rows, k
-----------------------------------------------------------------------------
(* The newest k runs of a tenant, newest first. *)
NewestOwn(ids, t, k) ==
    LET mine == {r \in Requests : runs[r].tenant = t}
    IN  /\ ToSet(ids) \subseteq mine
        /\ Cardinality(ToSet(ids)) = Len(ids)
        /\ Len(ids) = Min2(Cardinality(mine), k)
        /\ \A i \in DOMAIN ids : \A q \in mine \ {ids[j] : j \in 1 .. i} :
              runs[q].created <= runs[ids[i]].created

LEMMA ListedRuns ==
    ASSUME ReportsInv, NEW t \in Tenants, NEW list \in NewestFirst(t), NEW k \in Nat \ {0},
           NEW ids, ids = Truncated(list, k)
    PROVE  NewestOwn(ids, t, k)
<1> DEFINE mine == {r \in Requests : runs[r].tenant = t}
<1>1. RunsOf(t) = mine
  BY SentinelAssumption DEF RunsOf, ReportsInv, RunOK
<1>2. IsFiniteSet(mine)
  <2>1. mine \in SUBSET Requests
    OBVIOUS
  <2> QED
    BY <2>1, FS_Subset, StoreAssumption
<1>3. \A r \in mine : runs[r].created \in Nat
  BY DEF ReportsInv, TypeOK, StoreTypeOK, RunRecord
<1>4. list \in SetToSeqs(mine)
  BY <1>1 DEF NewestFirst
<1>5. \A i, j \in DOMAIN list : i < j => runs[list[i]].created >= runs[list[j]].created
  BY DEF NewestFirst
<1> HIDE DEF mine
<1>6. PICK m \in Nat : m = Cardinality(mine)
  BY <1>2, FS_CardinalityType
<1>7. /\ list \in Seq(mine) /\ Len(list) = m /\ DOMAIN list = 1 .. m
      /\ \A i, j \in 1 .. m : list[i] = list[j] => i = j
      /\ \A x \in mine : \E i \in 1 .. m : list[i] = x
  BY <1>2, <1>4, <1>6, PermFacts
<1>8. /\ ids \in Seq(mine) /\ Len(ids) = Min2(m, k) /\ Len(ids) <= m
      /\ \A i \in 1 .. Len(ids) : ids[i] = list[i]
  <2>1. /\ Truncated(list, k) \in Seq(mine)
        /\ Len(Truncated(list, k)) = Min2(Len(list), k)
        /\ Len(Truncated(list, k)) <= Len(list)
        /\ \A i \in 1 .. Len(Truncated(list, k)) : Truncated(list, k)[i] = list[i]
    <3>1. list \in Seq(mine)
      BY <1>7
    <3> QED
      BY <3>1, TruncatedFacts
  <2> QED
    BY <1>7, <2>1, Zenon
<1>s. \A s \in Seq(mine) : Len(s) \in Nat /\ DOMAIN s = 1 .. Len(s) /\ \A i \in 1 .. Len(s) : s[i] \in mine
  OBVIOUS
<1>9. PICK l \in Nat : l = Len(ids) /\ l <= m
  BY <1>8, <1>s, Zenon
<1>10. /\ DOMAIN ids = 1 .. l
       /\ \A i \in 1 .. l : i \in 1 .. m /\ ids[i] = list[i] /\ ids[i] \in mine
  <2>1. \A i \in 1 .. l : i \in 1 .. m
    BY <1>9
  <2> QED
    BY <1>8, <1>9, <1>s, <2>1, Zenon
<1>11. ToSet(ids) = {ids[i] : i \in 1 .. l}
  BY <1>10 DEF ToSet
<1>12. Cardinality(ToSet(ids)) = l
  <2> DEFINE S == {ids[i] : i \in 1 .. l}
  <2> DEFINE g == [i \in 1 .. l |-> ids[i]]
  <2>1. g \in [1 .. l -> S] /\ \A i, j \in 1 .. l : g[i] = g[j] => i = j
    BY <1>7, <1>10
  <2>2. \A x \in S : \E i \in 1 .. l : g[i] = x
    OBVIOUS
  <2> HIDE DEF S, g
  <2>3. g \in Bijection(1 .. l, S)
    BY <2>1, <2>2 DEF Bijection, Injection, Surjection, IsInjective
  <2>4. Cardinality(S) = l
    BY <2>3, FS_CountingElements DEF ExistsBijection
  <2> QED
    BY <1>11, <2>4 DEF S
<1>13. ASSUME NEW i \in 1 .. l, NEW q \in mine, \A j \in 1 .. i : q # ids[j]
       PROVE  runs[q].created <= runs[ids[i]].created
  <2>1. PICK x \in 1 .. m : list[x] = q
    BY <1>7
  <2>2. ~(x <= i)
    <3> SUFFICES ASSUME x <= i PROVE FALSE
      OBVIOUS
    <3>1. x \in 1 .. i /\ x \in 1 .. l
      OBVIOUS
    <3> QED
      BY <1>10, <1>13, <2>1, <3>1
  <2>3. runs[list[i]].created >= runs[list[x]].created
    BY <1>5, <1>7, <1>10, <2>2
  <2>4. runs[q].created \in Nat /\ runs[ids[i]].created \in Nat
    BY <1>3, <1>10
  <2> QED
    BY <1>10, <2>1, <2>3, <2>4
<1>14. \A i \in DOMAIN ids : \A q \in mine \ {ids[j] : j \in 1 .. i} :
          runs[q].created <= runs[ids[i]].created
  BY <1>10, <1>13
<1> QED
  BY <1>6, <1>8, <1>9, <1>10, <1>11, <1>12, <1>14 DEF NewestOwn, mine

(* What a list answers. *)
LEMMA ListShows ==
    ASSUME ReportsInv, NEW t \in Tenants, NEW n \in Limits, ListRuns(t, n)
    PROVE  \E ids :
              /\ report' = [kind |-> "list", tenant |-> t, limit |-> n, ids |-> ids,
                            items |-> [i \in DOMAIN ids |-> runs[ids[i]]]]
              /\ Remember({[run |-> r, status |-> runs[r].status, rows |-> 0] : r \in ToSet(ids)})
              /\ NewestOwn(ids, t, Asked(n, ListDefault, ListMax))
<1>1. n \in Int /\ ListDefault \in Nat \ {0} /\ ListMax \in Nat \ {0} /\ ListDefault <= ListMax
  BY ReportAssumption
<1> DEFINE k == Asked(n, ListDefault, ListMax)
<1>2. StoreLimit(Clamp(n, ListDefault, ListMax), ListDefault, ListMax) = k /\ k \in Nat \ {0}
  BY <1>1, LimitFacts
<1> HIDE DEF k
<1>3. PICK list \in NewestFirst(t) :
          /\ report' = [kind |-> "list", tenant |-> t, limit |-> n, ids |-> Truncated(list, k),
                        items |-> [i \in DOMAIN Truncated(list, k) |-> runs[Truncated(list, k)[i]]]]
          /\ Remember({[run |-> r, status |-> runs[r].status, rows |-> 0]
                         : r \in ToSet(Truncated(list, k))})
  BY <1>2 DEF ListRuns
<1>4. NewestOwn(Truncated(list, k), t, k)
  BY <1>2, ListedRuns
<1> QED
  BY <1>3, <1>4 DEF k
-----------------------------------------------------------------------------
LEMMA InvInit == Init => ReportsInv
<1> SUFFICES ASSUME Init PROVE ReportsInv
  OBVIOUS
<1> USE DEF Init, StoreInit
<1>1. NoRun \in RunRecord
  BY DEF NoRun, RunRecord, RunStatuses, EmptySummary, Summary
<1>2. TypeOK
  <2>1. StoreTypeOK
    BY <1>1 DEF StoreTypeOK
  <2> QED
    BY <2>1 DEF TypeOK, RunStatuses
<1>3. \A r \in Requests : RunOK(r)
  <2>1. Len(<<>>) = 0 /\ NoRun.status = "absent" /\ NoRun.tenant = NoTenant
        /\ NoUpload.rows = <<>>
    BY DEF NoRun, NoUpload
  <2> QED
    BY <2>1 DEF RunOK
<1> QED
  BY <1>2, <1>3 DEF ReportsInv, ReadInv, SeenInv, LockedInv

(* What a run has that is not new. *)
LEMMA RunFrame ==
    ASSUME ReportsInv, NEW r \in Requests, RunOK(r),
           UNCHANGED <<backend, runProducts>>, upload'[r] = upload[r], state'[r] = state[r],
           runs'[r].tenant = runs[r].tenant, runs'[r].sum = runs[r].sum,
           runs'[r].status = "absent" <=> runs[r].status = "absent"
    PROVE  RunOK(r)'
BY DEF RunOK

(* The readers' part of the invariant, when runs go forward. *)
LEMMA ReaderFrame ==
    ASSUME ReportsInv, UNCHANGED <<reading, seen>>,
           \A r \in Requests :
              /\ NotBehind(runs'[r].status, runs[r].status)
              /\ Len(runProducts[r]) <= Len(runProducts'[r])
              /\ Len(runProducts[r]) \in Nat /\ Len(runProducts'[r]) \in Nat
              /\ runs[r].status # "absent" =>
                    /\ runs'[r].status # "absent"
                    /\ upload'[r] = upload[r]
                    /\ state[r] = "answered" => state'[r] = "answered"
    PROVE  ReadInv' /\ SeenInv'
<1>1. ASSUME NEW v \in Readers, reading[v] # NoRead
      PROVE  ReadOK(reading[v])'
  <2>1. PICK read \in Detail : read = reading[v] /\ ReadOK(read)
    BY <1>1 DEF ReportsInv, TypeOK, ReadInv
  <2>2. read.run \in Requests
    BY <2>1 DEF Detail
  <2>3. NotBehind(runs'[read.run].status, read.record.status)
    BY <2>1, <2>2, NotBehindTrans DEF ReadOK
  <2>4. ReadOK(read)'
    BY <2>1, <2>2, <2>3 DEF ReadOK
  <2> QED
    BY <2>1, <2>4
<1>2. SeenInv'
  <2> SUFFICES ASSUME seen # NoRead PROVE SeenInv'
    BY DEF SeenInv
  <2>1. seen \in Memory
    BY DEF ReportsInv, TypeOK
  <2>2. seen.run \in Requests /\ seen.rows \in Nat
    BY <2>1 DEF Memory
  <2>3. NotBehind(runs'[seen.run].status, seen.status)
    BY <2>2, NotBehindTrans DEF ReportsInv, SeenInv
  <2>4. seen.rows <= Len(runProducts'[seen.run])
    BY <2>2 DEF ReportsInv, SeenInv
  <2> QED
    BY <2>3, <2>4 DEF SeenInv
<1> QED
  BY <1>1, <1>2 DEF ReadInv
-----------------------------------------------------------------------------
LEMMA StoreRunStep ==
    ASSUME ReportsInv, NEW q \in Requests, NEW u \in Uploads, StoreRun(q, u)
    PROVE  ReportsInv'
<1> USE DEF StoreRun, Silent
<1> DEFINE s == SummaryOf(u.rows)
<1> DEFINE new == [tenant |-> u.tenant, status |-> RunStatus(s),
                   push |-> PushTriggered(s), sum |-> s, created |-> clock]
<1>1. /\ u.rows \in Seq(Row) /\ Len(u.rows) \in Nat /\ u.tenant \in Tenants
      /\ s \in Summary /\ s.received = Len(u.rows)
  BY UploadFacts, SummaryOfType
<1>2. /\ new \in RunRecord /\ new.tenant = u.tenant /\ new.sum = s
      /\ new.status # "absent" /\ Rank(new.status) > 0
  <2>1. new \in RunRecord
    BY <1>1, NewRunType DEF ReportsInv, TypeOK, StoreTypeOK
  <2> QED
    BY <2>1 DEF RunStatus, Rank
<1>3. /\ RunOK(q) /\ state[q] = "new" /\ runs[q].status = "absent"
      /\ runs \in [Requests -> RunRecord] /\ upload \in [Requests -> Uploads \cup {NoUpload}]
      /\ state \in [Requests -> {"new", "rows", "answered", "failed"}]
  BY DEF ReportsInv, RunOK, TypeOK, StoreTypeOK
<1> HIDE DEF new
<1>4. \/ runs' = [runs EXCEPT ![q] = new] /\ state' = [state EXCEPT ![q] = "rows"]
      \/ runs' = runs /\ state' = [state EXCEPT ![q] = "failed"]
  BY DEF InsertRunRow, new
<1>5. TypeOK'
  <2>1. StoreTypeOK'
    BY <1>2, <1>3, <1>4 DEF StoreTypeOK, ReportsInv, TypeOK
  <2>2. /\ upload' \in [Requests -> Uploads \cup {NoUpload}]
        /\ state' \in [Requests -> {"new", "rows", "answered", "failed"}]
    BY <1>3, <1>4
  <2> QED
    BY <2>1, <2>2 DEF TypeOK, ReportsInv
<1>6. ASSUME NEW r \in Requests PROVE RunOK(r)'
  <2>1. CASE r # q
    BY <2>1, <1>3, <1>4, RunFrame DEF ReportsInv
  <2>2. CASE r = q
    <3>1. /\ upload'[q] = u /\ runProducts' = runProducts /\ backend' = backend
          /\ Len(runProducts[q]) = 0
      BY <1>3 DEF RunOK
    <3>2. CASE runs'[q] = new /\ state'[q] = "rows"
      BY <1>1, <1>2, <2>2, <3>1, <3>2 DEF RunOK
    <3>3. CASE runs'[q] = runs[q] /\ state'[q] = "failed"
      BY <1>1, <1>3, <2>2, <3>1, <3>3 DEF RunOK
    <3> QED
      BY <1>3, <1>4, <3>2, <3>3
  <2> QED
    BY <2>1, <2>2
<1>7. \A r \in Requests :
          /\ NotBehind(runs'[r].status, runs[r].status)
          /\ Len(runProducts[r]) <= Len(runProducts'[r])
          /\ Len(runProducts[r]) \in Nat /\ Len(runProducts'[r]) \in Nat
          /\ runs[r].status # "absent" =>
                /\ runs'[r].status # "absent"
                /\ upload'[r] = upload[r]
                /\ state[r] = "answered" => state'[r] = "answered"
  <2>1. Rank("absent") = 0
    BY DEF Rank
  <2> QED
    BY <1>2, <1>3, <1>4, <2>1 DEF NotBehind, ReportsInv, TypeOK, StoreTypeOK
<1>8. LockedInv'
  BY <1>3, <1>4 DEF ReportsInv, LockedInv, TypeOK
<1> QED
  BY <1>5, <1>6, <1>7, <1>8, ReaderFrame DEF ReportsInv

LEMMA StoreRowsStep ==
    ASSUME ReportsInv, NEW q \in Requests, StoreRows(q)
    PROVE  ReportsInv'
<1> USE DEF StoreRows, Silent
<1> DEFINE rows == upload[q].rows
<1> DEFINE n == Len(runProducts[q])
<1>1. /\ rows \in Seq(Row) /\ Len(rows) \in Nat
      /\ RunOK(q) /\ runProducts \in [Requests -> Seq(Row)] /\ n \in Nat /\ n <= Len(rows)
      /\ state \in [Requests -> {"new", "rows", "answered", "failed"}] /\ state[q] = "rows"
      /\ upload' = upload /\ runs' = runs /\ backend' = backend
  BY UploadFacts DEF ReportsInv, RunOK, TypeOK, StoreTypeOK
<1>2. PICK list \in Seq(Row), st \in {"rows", "answered", "failed"} :
          /\ runProducts' = [runProducts EXCEPT ![q] = list] /\ state' = [state EXCEPT ![q] = st]
          /\ Len(list) <= Len(rows) /\ \A i \in 1 .. Len(list) : list[i] = rows[i]
          /\ st = "answered" => Len(list) = Len(rows)
          /\ backend = "memory" => Len(list) \in {0, Len(rows)}
          /\ n <= Len(list)
  <2>1. CASE backend = "memory" /\ InsertRunProducts(q, rows) /\ state' = [state EXCEPT ![q] = "answered"]
    <3>1. runProducts' = [runProducts EXCEPT ![q] = rows]
      BY <2>1 DEF InsertRunProducts
    <3>   rows \in Seq(Row) /\ "answered" \in {"rows", "answered", "failed"}
      BY <1>1
    <3>2. Len(rows) <= Len(rows) /\ Len(rows) \in {0, Len(rows)} /\ n <= Len(rows)
      BY <1>1
    <3> HIDE DEF rows
    <3> WITNESS rows \in Seq(Row), "answered" \in {"rows", "answered", "failed"}
    <3> QED
      BY <2>1, <3>1, <3>2
  <2>2. CASE /\ backend = "mysql" /\ n < Len(rows)
             /\ InsertProductRow(q, rows[n + 1]) /\ UNCHANGED state
    <3>1. rows[n + 1] \in Row
      BY <1>1, <2>2
    <3>2. /\ Append(runProducts[q], rows[n + 1]) \in Seq(Row)
          /\ Len(Append(runProducts[q], rows[n + 1])) = n + 1
          /\ \A i \in 1 .. n + 1 : Append(runProducts[q], rows[n + 1])[i] = rows[i]
      BY <1>1, <3>1 DEF RunOK
    <3>3. /\ runProducts' = [runProducts EXCEPT ![q] = Append(runProducts[q], rows[n + 1])]
          /\ state' = [state EXCEPT ![q] = "rows"]
      BY <1>1, <2>2 DEF InsertProductRow
    <3> QED
      BY <1>1, <2>2, <3>2, <3>3
  <2>3. CASE /\ backend = "mysql" /\ UNCHANGED runProducts
             /\ state' = [state EXCEPT ![q] = IF n = Len(rows) THEN "answered" ELSE "failed"]
    <3>1. runProducts' = [runProducts EXCEPT ![q] = runProducts[q]]
      BY <1>1, <2>3
    <3> QED
      BY <1>1, <2>3, <3>1 DEF RunOK
  <2> QED
    BY <2>1, <2>2, <2>3
<1>3. TypeOK'
  <2>1. StoreTypeOK'
    BY <1>1, <1>2 DEF StoreTypeOK, ReportsInv, TypeOK
  <2>2. state' \in [Requests -> {"new", "rows", "answered", "failed"}]
    BY <1>1, <1>2
  <2> QED
    BY <2>1, <2>2 DEF TypeOK, ReportsInv
<1>4. ASSUME NEW r \in Requests PROVE RunOK(r)'
  <2>1. CASE r # q
    <3>1. runProducts'[r] = runProducts[r] /\ state'[r] = state[r] /\ RunOK(r)
      BY <1>1, <1>2, <2>1 DEF ReportsInv
    <3> QED
      BY <1>1, <3>1 DEF RunOK
  <2>2. CASE r = q
    <3>1. runProducts'[q] = list /\ state'[q] = st
      BY <1>1, <1>2
    <3> QED
      BY <1>1, <1>2, <2>2, <3>1 DEF RunOK
  <2> QED
    BY <2>1, <2>2
<1>5. \A r \in Requests :
          /\ NotBehind(runs'[r].status, runs[r].status)
          /\ Len(runProducts[r]) <= Len(runProducts'[r])
          /\ Len(runProducts[r]) \in Nat /\ Len(runProducts'[r]) \in Nat
          /\ runs[r].status # "absent" =>
                /\ runs'[r].status # "absent"
                /\ upload'[r] = upload[r]
                /\ state[r] = "answered" => state'[r] = "answered"
  BY <1>1, <1>2 DEF NotBehind
<1>6. LockedInv'
  BY <1>1 DEF ReportsInv, LockedInv
<1> QED
  BY <1>3, <1>4, <1>5, <1>6, ReaderFrame DEF ReportsInv

(* Marking runs, the only other writes: what a worker does. *)
LEMMA MarkStep ==
    ASSUME ReportsInv, NEW S, NEW status \in RunStatuses, runs' = WithStatus(runs, S, status),
           \A r \in S \cap Requests :
              runs[r].status # "absent" /\ Rank(runs[r].status) < Rank(status),
           locked' \subseteq locked, locked' \cap S = {},
           UNCHANGED <<productHash, runProducts, clock, backend, uploadVars, reading, seen>>
    PROVE  ReportsInv'
<1>1. runs \in [Requests -> RunRecord]
  BY DEF ReportsInv, TypeOK, StoreTypeOK
<1>2. /\ runs' \in [Requests -> RunRecord]
      /\ \A r \in Requests :
            /\ runs'[r].tenant = runs[r].tenant
            /\ runs'[r].sum = runs[r].sum
            /\ runs'[r].status = IF r \in S THEN status ELSE runs[r].status
  BY <1>1, WithStatusType
<1>3. status # "absent" \/ S \cap Requests = {}
  <2>1. \A a : Rank(a) \in Nat
    BY DEF Rank
  <2>2. Rank("absent") = 0
    BY DEF Rank
  <2> QED
    BY <2>1, <2>2
<1>4. \A r \in Requests :
          /\ NotBehind(runs'[r].status, runs[r].status)
          /\ Len(runProducts[r]) <= Len(runProducts'[r])
          /\ Len(runProducts[r]) \in Nat /\ Len(runProducts'[r]) \in Nat
          /\ runs'[r].status = "absent" <=> runs[r].status = "absent"
  BY <1>2, <1>3 DEF NotBehind, ReportsInv, TypeOK, StoreTypeOK
<1>5. TypeOK'
  BY <1>2 DEF TypeOK, StoreTypeOK, ReportsInv, uploadVars
<1>6. ASSUME NEW r \in Requests PROVE RunOK(r)'
  BY <1>2, <1>4, RunFrame DEF ReportsInv, uploadVars
<1>7. LockedInv'
  BY <1>2 DEF ReportsInv, LockedInv, TypeOK
<1> QED
  BY <1>4, <1>5, <1>6, <1>7, ReaderFrame DEF ReportsInv, uploadVars

(* Nothing but what readers know, and what is locked, changes. *)
LEMMA ReadStep ==
    ASSUME ReportsInv, UNCHANGED <<storeVars, backend, uploadVars>>,
           clock' \in Nat, locked' \in SUBSET Requests,
           reading' \in [Readers -> Detail \cup {NoRead}], seen' \in Memory \cup {NoRead},
           ReadInv', SeenInv', LockedInv'
    PROVE  ReportsInv'
<1> USE DEF storeVars, uploadVars
<1>1. TypeOK'
  BY DEF TypeOK, StoreTypeOK, ReportsInv
<1>2. ASSUME NEW r \in Requests PROVE RunOK(r)'
  BY DEF ReportsInv, RunOK
<1> QED
  BY <1>1, <1>2 DEF ReportsInv

LEMMA ClaimStep == ReportsInv /\ Claim => ReportsInv'
<1> SUFFICES ASSUME ReportsInv, Claim PROVE ReportsInv'
  OBVIOUS
<1>1. PICK S \in OldestOf(MaxPerClaim) : ClaimRuns(S)
  BY DEF Claim
<1>2. \A r \in S : r \in Requests /\ runs[r].status = "has_changes"
  BY DEF OldestOf, Claimable
<1>3. Rank("has_changes") < Rank("processing")
  BY DEF Rank
<1>4. locked = {} /\ locked' = locked
  BY DEF Claim, ReportsInv, LockedInv
<1> QED
  BY <1>1, <1>2, <1>3, <1>4, MarkStep DEF Claim, ClaimRuns, Silent, RunStatuses

LEMMA LockRunsStep == ReportsInv /\ LockRuns => ReportsInv'
<1> SUFFICES ASSUME ReportsInv, LockRuns PROVE ReportsInv'
  OBVIOUS
<1>1. PICK S \in OldestOf(MaxPerClaim) : locked' = S
  BY DEF LockRuns
<1>2. S \in SUBSET Requests /\ \A r \in S : runs[r].status = "has_changes"
  BY DEF OldestOf, Claimable
<1>3. ReadInv' /\ SeenInv'
  BY DEF LockRuns, Silent, storeVars, uploadVars, ReportsInv, ReadInv, ReadOK, SeenInv
<1>4. LockedInv'
  BY <1>1, <1>2 DEF LockRuns, storeVars, LockedInv
<1> QED
  BY <1>1, <1>2, <1>3, <1>4, ReadStep DEF LockRuns, Silent, ReportsInv, TypeOK, StoreTypeOK

LEMMA EndClaimStep == ReportsInv /\ EndClaim => ReportsInv'
<1> SUFFICES ASSUME ReportsInv, EndClaim PROVE ReportsInv'
  OBVIOUS
<1>1. CASE ClaimRuns(locked)
  <2>1. \A r \in locked : runs[r].status = "has_changes"
    BY DEF ReportsInv, LockedInv
  <2>2. Rank("has_changes") < Rank("processing")
    BY DEF Rank
  <2> QED
    BY <1>1, <2>1, <2>2, MarkStep DEF EndClaim, ClaimRuns, Silent, RunStatuses
<1>2. CASE UNCHANGED runs
  <2>1. ReadInv' /\ SeenInv'
    BY <1>2 DEF EndClaim, Silent, uploadVars, ReportsInv, ReadInv, ReadOK, SeenInv
  <2>2. LockedInv' /\ locked' \in SUBSET Requests
    BY DEF EndClaim, LockedInv
  <2> QED
    BY <1>2, <2>1, <2>2, ReadStep
       DEF EndClaim, Silent, storeVars, ReportsInv, TypeOK, StoreTypeOK
<1> QED
  BY <1>1, <1>2 DEF EndClaim

LEMMA ResolveStep ==
    ASSUME ReportsInv, NEW q \in Requests, Resolve(q)
    PROVE  ReportsInv'
<1>1. PICK status \in {"completed", "failed"} : ResolveRun(runs[q].tenant, q, status)
  BY DEF Resolve
<1> DEFINE S == {p \in {q} : runs[p].status # "absent" /\ runs[p].tenant = runs[q].tenant}
<1>2. runs' = WithStatus(runs, S, status)
  BY <1>1 DEF ResolveRun
<1>3. \A r \in S : runs[r].status = "processing"
  BY DEF Resolve
<1>4. Rank("processing") < Rank(status)
  BY DEF Rank
<1> HIDE DEF S
<1>5. locked' = locked /\ locked \cap S = {}
  BY <1>3 DEF Resolve, ReportsInv, LockedInv
<1> QED
  BY <1>2, <1>3, <1>4, <1>5, MarkStep DEF Resolve, Silent, RunStatuses

LEMMA TickStep ==
    ASSUME ReportsInv, Tick, Silent, UNCHANGED <<storeVars, backend, uploadVars, locked>>
    PROVE  ReportsInv'
<1>1. clock' \in Nat
  BY DEF Tick, ReportsInv, TypeOK, StoreTypeOK
<1>2. ReadInv' /\ SeenInv' /\ LockedInv'
  BY DEF Silent, storeVars, uploadVars, ReportsInv, ReadInv, ReadOK, SeenInv, LockedInv
<1> QED
  BY <1>1, <1>2, ReadStep DEF Silent, ReportsInv, TypeOK

(* An answer that is true of its run may be remembered. *)
LEMMA RememberStep ==
    ASSUME ReportsInv, NEW answers, Remember(answers), UNCHANGED <<runs, runProducts, upload, state>>,
           \A a \in answers :
              /\ a \in Memory
              /\ NotBehind(runs[a.run].status, a.status)
              /\ a.rows <= Len(runProducts[a.run])
    PROVE  /\ seen' \in Memory \cup {NoRead}
           /\ SeenInv'
           /\ \A read : ReadOK(read) => ReadOK(read)'
<1>1. CASE seen' = seen
  BY <1>1 DEF ReportsInv, TypeOK, SeenInv, ReadOK
<1>2. CASE seen = NoRead /\ seen' \in answers
  BY <1>2 DEF SeenInv, ReadOK
<1> QED
  BY <1>1, <1>2 DEF Remember

LEMMA ListRunsStep ==
    ASSUME ReportsInv, NEW t \in Tenants, NEW n \in Limits, ListRuns(t, n)
    PROVE  ReportsInv'
<1>1. PICK S : /\ Remember({[run |-> r, status |-> runs[r].status, rows |-> 0] : r \in S})
               /\ S \subseteq Requests
  BY ListShows DEF NewestOwn
<1> DEFINE answers == {[run |-> r, status |-> runs[r].status, rows |-> 0] : r \in S}
<1>2. ASSUME NEW a \in answers
      PROVE  /\ a \in Memory
             /\ NotBehind(runs[a.run].status, a.status)
             /\ a.rows <= Len(runProducts[a.run])
  <2>1. PICK r \in Requests : a = [run |-> r, status |-> runs[r].status, rows |-> 0]
    BY <1>1
  <2>2. runs[r].status \in RunStatuses /\ Len(runProducts[r]) \in Nat
    BY DEF ReportsInv, TypeOK, StoreTypeOK, RunRecord
  <2> QED
    BY <2>1, <2>2 DEF Memory, NotBehind
<1> HIDE DEF answers
<1>3. /\ seen' \in Memory \cup {NoRead} /\ SeenInv'
      /\ \A read : ReadOK(read) => ReadOK(read)'
  BY <1>1, <1>2, RememberStep DEF answers, ListRuns, storeVars, uploadVars
<1>4. ReadInv'
  BY <1>3 DEF ListRuns, ReadInv, ReportsInv
<1>5. LockedInv'
  BY DEF ListRuns, storeVars, LockedInv, ReportsInv
<1> QED
  BY <1>3, <1>4, <1>5, ReadStep DEF ListRuns, ReportsInv, TypeOK, StoreTypeOK

LEMMA GetRunStep ==
    ASSUME ReportsInv, NEW v \in Readers, NEW t \in Tenants, NEW q \in Requests, GetRun(v, t, q)
    PROVE  ReportsInv'
<1>1. /\ UNCHANGED <<runs, runProducts, upload, state, seen, backend, locked>>
      /\ reading \in [Readers -> Detail \cup {NoRead}]
  BY DEF GetRun, storeVars, uploadVars, ReportsInv, TypeOK
<1>2. reading' \in [Readers -> Detail \cup {NoRead}] /\ ReadInv'
  <2>1. CASE UNCHANGED reading
    BY <1>1, <2>1 DEF ReadInv, ReadOK, ReportsInv
  <2>2. CASE q \in RunsOf(t) /\ ~UNCHANGED reading
    <3> DEFINE read == [run |-> q, tenant |-> t, record |-> runs[q],
                        answered |-> state[q] = "answered", later |-> seen # NoRead]
    <3>1. reading' = [reading EXCEPT ![v] = read]
      BY <2>2 DEF GetRun
    <3>2. read \in Detail
      BY DEF Detail, ReportsInv, TypeOK, StoreTypeOK
    <3>3. /\ runs[q].status # "absent" /\ runs[q].tenant = t /\ RunOK(q) /\ SeenInv
          /\ NotBehind(runs[q].status, runs[q].status)
      BY <2>2 DEF RunsOf, ReportsInv, NotBehind
    <3>4. ReadOK(read)
      BY <3>3 DEF ReadOK, RunOK, SeenInv
    <3> HIDE DEF read
    <3>5. \A w \in Readers : reading'[w] # NoRead => ReadOK(reading'[w])
      BY <1>1, <3>1, <3>4 DEF ReadInv, ReportsInv
    <3>6. ReadInv'
      BY <1>1, <3>5 DEF ReadInv, ReadOK
    <3> QED
      BY <1>1, <3>1, <3>2, <3>6
  <2> QED
    BY <2>1, <2>2 DEF GetRun
<1>3. SeenInv' /\ LockedInv'
  BY <1>1 DEF SeenInv, LockedInv, ReportsInv
<1> QED
  BY <1>2, <1>3, ReadStep DEF GetRun, ReportsInv, TypeOK, StoreTypeOK

LEMMA ListProductsStep ==
    ASSUME ReportsInv, NEW v \in Readers, NEW n \in Limits, ListProducts(v, n)
    PROVE  ReportsInv'
<1>1. PICK read \in Detail : read = reading[v] /\ ReadOK(read)
  BY DEF ListProducts, ReportsInv, ReadInv, TypeOK
<1>2. PICK rows :
          /\ Remember({[run |-> read.run, status |-> read.record.status, rows |-> Len(rows)]})
          /\ Len(rows) = Min2(Len(runProducts[read.run]), Asked(n, DetailDefault, DetailMax))
          /\ Len(rows) \in Nat
  BY <1>1, DetailShows DEF Shows
<1> DEFINE a == [run |-> read.run, status |-> read.record.status, rows |-> Len(rows)]
<1>3. /\ a \in Memory
      /\ NotBehind(runs[a.run].status, a.status)
      /\ a.rows <= Len(runProducts[a.run])
  <2>1. read.run \in Requests /\ read.record.status \in RunStatuses
    BY <1>1 DEF Detail, RunRecord
  <2>2. Asked(n, DetailDefault, DetailMax) \in Nat /\ Len(runProducts[read.run]) \in Nat
    <3>1. Asked(n, DetailDefault, DetailMax) \in Nat
      BY LimitFacts, ReportAssumption
    <3>2. Len(runProducts[read.run]) \in Nat
      BY <2>1 DEF ReportsInv, TypeOK, StoreTypeOK
    <3> QED
      BY <3>1, <3>2
  <2>3. Len(rows) <= Len(runProducts[read.run])
    BY <1>2, <2>2 DEF Min2
  <2> QED
    BY <1>1, <1>2, <2>1, <2>3 DEF Memory, ReadOK
<1> HIDE DEF a
<1>4. /\ seen' \in Memory \cup {NoRead} /\ SeenInv'
      /\ \A r : ReadOK(r) => ReadOK(r)'
  <2>1. Remember({a}) /\ \A b \in {a} : b = a
    BY <1>2 DEF a
  <2> QED
    BY <1>3, <2>1, RememberStep DEF ListProducts, storeVars, uploadVars
<1>5. reading' \in [Readers -> Detail \cup {NoRead}] /\ ReadInv'
  <2>1. /\ reading' = [reading EXCEPT ![v] = NoRead]
        /\ reading \in [Readers -> Detail \cup {NoRead}]
    BY DEF ListProducts, ReportsInv, TypeOK
  <2>2. \A w \in Readers : reading'[w] # NoRead => ReadOK(reading'[w])
    BY <2>1 DEF ReportsInv, ReadInv
  <2>3. ASSUME NEW w \in Readers, reading'[w] # NoRead PROVE ReadOK(reading[w])'
    <3>1. PICK r : r = reading'[w]
      OBVIOUS
    <3>2. ReadOK(r)'
      BY <1>4, <2>2, <2>3, <3>1
    <3> QED
      BY <3>1, <3>2
  <2> QED
    BY <2>1, <2>3 DEF ReadInv
<1>6. LockedInv'
  BY DEF ListProducts, storeVars, LockedInv, ReportsInv
<1> QED
  BY <1>4, <1>5, <1>6, ReadStep DEF ListProducts, ReportsInv, TypeOK, StoreTypeOK

(* What a reader has in hand belongs to the run as it was uploaded. *)
THEOREM ReportsInvHolds == Spec => []ReportsInv
<1>1. ReportsInv /\ UNCHANGED vars => ReportsInv'
  BY DEF vars, storeVars, uploadVars, readerVars, ReportsInv, TypeOK, StoreTypeOK, RunOK,
         ReadInv, ReadOK, SeenInv, LockedInv
<1>2. ReportsInv /\ [Next]_vars => ReportsInv'
  BY <1>1, StoreRunStep, StoreRowsStep, ResolveStep, ClaimStep, LockRunsStep, EndClaimStep,
     ListRunsStep, GetRunStep, ListProductsStep, TickStep DEF Next
<1> QED
  BY InvInit, <1>2, PTL DEF Spec

(* What the reports keep and show has the types of the Store's records. *)
THEOREM TypeCorrect == Spec => []TypeOK
<1>1. ReportsInv => TypeOK
  BY DEF ReportsInv
<1> QED
  BY <1>1, ReportsInvHolds, PTL
-----------------------------------------------------------------------------
(* Which steps answer a reader. *)
LEMMA Kinds ==
    ASSUME Next
    PROVE  \/ report'.kind \notin {"list", "detail"}
           \/ \E t \in Tenants, n \in Limits : ListRuns(t, n)
           \/ \E v \in Readers, n \in Limits : ListProducts(v, n)
<1>1. ASSUME NEW v \in Readers, NEW t \in Tenants, NEW r \in Requests, GetRun(v, t, r)
      PROVE  report'.kind \in {"none", "not_found"}
  BY <1>1 DEF GetRun, NoReport
<1>2. Silent => report'.kind = "none"
  BY DEF Silent, NoReport
<1> QED
  BY <1>1, <1>2 DEF Next, StoreRun, StoreRows, Claim, LockRuns, EndClaim, Resolve

(* The two reads of a detail fit together although uploads go on between   *)
(* them.                                                                   *)
THEOREM DetailAgreesHolds == Spec => []DetailAgrees
<1>1. Init => DetailAgrees
  BY DEF Init, NoReport, DetailAgrees
<1>2. ASSUME ReportsInv, NEW v \in Readers, NEW limit \in Limits, ListProducts(v, limit)
      PROVE  DetailAgrees'
  <2>1. PICK read \in Detail : read = reading[v] /\ ReadOK(read)
    BY <1>2 DEF ListProducts, ReportsInv, ReadInv, TypeOK
  <2> DEFINE n == Asked(limit, DetailDefault, DetailMax)
  <2> DEFINE results == upload[read.run].rows
  <2>2. PICK rows :
            /\ report' = [kind |-> "detail", read |-> read, limit |-> limit, rows |-> rows]
            /\ Shows(rows, runProducts[read.run], results, n)
    BY <1>2, <2>1, DetailShows
  <2>3. n \in Nat \ {0} /\ read.run \in Requests
    BY <2>1, LimitFacts, ReportAssumption DEF Detail
  <2> HIDE DEF n
  <2>4. /\ RunOK(read.run) /\ read.record.sum.received = Len(results)
        /\ upload[read.run].tenant = read.tenant
        /\ read.answered => Len(runProducts[read.run]) = Len(results)
        /\ backend = "memory" => Len(runProducts[read.run]) \in {0, Len(results)}
    BY <1>2, <2>1, <2>3 DEF ReportsInv, ReadOK, RunOK
  <2>5. /\ read.answered => Len(rows) = Min2(read.record.sum.received, n)
        /\ backend = "memory" => Len(rows) \in {0, Min2(read.record.sum.received, n)}
    <3>1. Min2(0, n) = 0
      BY <2>3 DEF Min2
    <3> QED
      BY <2>2, <2>4, <3>1 DEF Shows
  <2>6. /\ report'.kind = "detail" /\ report'.read = read /\ report'.rows = rows
        /\ report'.limit = limit /\ upload' = upload /\ backend' = backend
    BY <1>2, <2>2 DEF ListProducts, uploadVars
  <2> QED
    BY <2>2, <2>4, <2>5, <2>6 DEF DetailAgrees, Shows, n
<1>3. ReportsInv /\ DetailAgrees /\ [Next]_vars => DetailAgrees'
  <2> SUFFICES ASSUME ReportsInv, DetailAgrees, [Next]_vars PROVE DetailAgrees'
    OBVIOUS
  <2>1. CASE UNCHANGED vars
    BY <2>1 DEF vars, uploadVars, readerVars, DetailAgrees
  <2>2. CASE Next
    <3>1. ASSUME report'.kind # "detail" PROVE DetailAgrees'
      BY <3>1 DEF DetailAgrees
    <3>2. ASSUME NEW t \in Tenants, NEW n \in Limits, ListRuns(t, n)
          PROVE  report'.kind # "detail"
      BY <3>2 DEF ListRuns
    <3> QED
      BY <1>2, <2>2, <3>1, <3>2, Kinds
  <2> QED
    BY <2>1, <2>2
<1> QED
  BY <1>1, <1>3, ReportsInvHolds, PTL DEF Spec

(* A list of runs, whichever store answers and whatever the limit asked    *)
(* for, holds the newest runs of the reader's tenant and no other's.       *)
THEOREM ListsNewestOwnHolds == Spec => ListsNewestOwn
<1> DEFINE Listed == report'.kind = "list" =>
                        NewestOwn(report'.ids, report'.tenant,
                                  Asked(report'.limit, ListDefault, ListMax))
<1>1. ASSUME ReportsInv, NEW t \in Tenants, NEW n \in Limits, ListRuns(t, n) PROVE Listed
  <2>1. PICK ids :
            /\ report' = [kind |-> "list", tenant |-> t, limit |-> n, ids |-> ids,
                          items |-> [i \in DOMAIN ids |-> runs[ids[i]]]]
            /\ NewestOwn(ids, t, Asked(n, ListDefault, ListMax))
    BY <1>1, ListShows
  <2>2. report'.tenant = t /\ report'.limit = n /\ report'.ids = ids
    BY <2>1
  <2> QED
    BY <2>1, <2>2
<1>2. ReportsInv /\ Next => Listed
  <2> SUFFICES ASSUME ReportsInv, Next PROVE Listed
    OBVIOUS
  <2>1. ASSUME NEW v \in Readers, NEW n \in Limits, ListProducts(v, n) PROVE Listed
    BY <2>1 DEF ListProducts
  <2> QED
    BY <1>1, <2>1, Kinds
<1>3. ReportsInv /\ [Next]_vars => [Listed]_vars
  BY <1>2
<1> QED
  BY <1>3, ReportsInvHolds, PTL DEF Spec, ListsNewestOwn, NewestOwn

(* A read that begins after an answer is not behind it, in status or in    *)
(* rows, however readers, uploads and workers overlap.                     *)
THEOREM ReadsForwardHolds == Spec => ReadsForward
<1> DEFINE ListForward ==
             report'.kind = "list" /\ seen # NoRead =>
                \A i \in DOMAIN report'.ids :
                   report'.ids[i] = seen.run => NotBehind(report'.items[i].status, seen.status)
<1> DEFINE DetailForward ==
             report'.kind = "detail" /\ report'.read.later /\ report'.read.run = seen.run =>
                /\ NotBehind(report'.read.record.status, seen.status)
                /\ Len(report'.rows)
                      >= Min2(seen.rows, Asked(report'.limit, DetailDefault, DetailMax))
<1>1. ASSUME ReportsInv, NEW t \in Tenants, NEW n \in Limits, ListRuns(t, n)
      PROVE  ListForward /\ DetailForward
  <2>1. PICK ids :
            report' = [kind |-> "list", tenant |-> t, limit |-> n, ids |-> ids,
                       items |-> [i \in DOMAIN ids |-> runs[ids[i]]]]
    BY <1>1, ListShows
  <2>2. /\ report'.kind = "list" /\ report'.ids = ids
        /\ \A i \in DOMAIN ids : report'.items[i] = runs[ids[i]]
    BY <2>1
  <2>3. seen # NoRead => NotBehind(runs[seen.run].status, seen.status)
    BY <1>1 DEF ReportsInv, SeenInv
  <2> QED
    BY <2>2, <2>3
<1>2. ASSUME ReportsInv, NEW v \in Readers, NEW n \in Limits, ListProducts(v, n)
      PROVE  ListForward /\ DetailForward
  <2>1. PICK read \in Detail : read = reading[v] /\ ReadOK(read)
    BY <1>2 DEF ListProducts, ReportsInv, ReadInv, TypeOK
  <2> DEFINE k == Asked(n, DetailDefault, DetailMax)
  <2>2. PICK rows :
            /\ report' = [kind |-> "detail", read |-> read, limit |-> n, rows |-> rows]
            /\ Len(rows) = Min2(Len(runProducts[read.run]), k)
    BY <1>2, <2>1, DetailShows DEF Shows
  <2>3. /\ report'.kind = "detail" /\ report'.read = read /\ report'.limit = n
        /\ report'.rows = rows
    BY <2>2
  <2>4. k \in Nat
    BY LimitFacts, ReportAssumption
  <2> HIDE DEF k
  <2>5. ASSUME read.later, read.run = seen.run
        PROVE  NotBehind(read.record.status, seen.status) /\ Len(rows) >= Min2(seen.rows, k)
    <3>1. seen # NoRead /\ NotBehind(read.record.status, seen.status)
      BY <2>1, <2>5 DEF ReadOK
    <3>2. seen \in Memory /\ seen.rows <= Len(runProducts[seen.run])
      BY <1>2, <3>1 DEF ReportsInv, SeenInv, TypeOK
    <3>3. seen.rows \in Nat /\ Len(runProducts[seen.run]) \in Nat
      BY <1>2, <3>2 DEF Memory, ReportsInv, TypeOK, StoreTypeOK
    <3> QED
      BY <2>2, <2>4, <2>5, <3>1, <3>2, <3>3 DEF Min2
  <2> QED
    BY <2>3, <2>5 DEF k
<1>3. ReportsInv /\ Next => ListForward /\ DetailForward
  <2>1. report'.kind \notin {"list", "detail"} => ListForward /\ DetailForward
    OBVIOUS
  <2> QED
    BY <1>1, <1>2, <2>1, Kinds
<1>4. ReportsInv /\ [Next]_vars => [ListForward /\ DetailForward]_vars
  BY <1>3
<1> QED
  BY <1>4, ReportsInvHolds, PTL DEF Spec, ReadsForward
=============================================================================
