---------------------------- MODULE RunReports ----------------------------
(***************************************************************************)
(* The reports on runs (internal/api/handlers/debug_runs.go) while uploads *)
(* store runs and workers resolve them, over either implementation of the  *)
(* Store interface.  A list is one read; the detail of a run is two, with  *)
(* anything in between, other readers included.                            *)
(*                                                                         *)
(* An upload is the tail of a handler, from InsertRun on (UpsertHandlers   *)
(* has it whole), a worker the order in which its writes can be seen       *)
(* (Worker has it whole, with what it does in between).  Services          *)
(* configured with the memory backend have a store each, and the worker's  *)
(* stays empty; here, as in the repository's tests of the worker, both are *)
(* given the same one.                                                     *)
(***************************************************************************)
EXTENDS MemoryStore

CONSTANTS Backends,    \* which Store the services were given
          Readers,     \* requests to the two handlers that may be in flight at a time
          Uploads,     \* what clients upload: a tenant and the results
          Limits,      \* the limits readers ask for; 0 also is one that is not a number
          ListDefault, ListMax,      \* limits of a list: 50 and 200
          DetailDefault, DetailMax,  \* limits of a detail: 500 and 2000
          RowsDefault, \* the MySQL store's own limit of rows: 200
          MaxPerClaim, \* the limit of a claim
          NoRead       \* nothing has been read

ASSUME ReportAssumption ==
    /\ Backends \subseteq {"memory", "mysql"}
    /\ Uploads \subseteq [tenant : Tenants, rows : Seq(Row)]
    /\ Limits \subseteq Int
    /\ {ListDefault, ListMax, DetailDefault, DetailMax, RowsDefault, MaxPerClaim} \subseteq Nat \ {0}
    /\ ListDefault <= ListMax /\ DetailDefault <= DetailMax
    /\ DetailMax = ListCap

VARIABLES backend,  \* factoryRes.Store
          upload,   \* what request r uploads
          state,    \* how far its handler is
          locked,   \* the runs in a worker's open claim transaction (MySQL)
          reading,  \* what GetRun told reader v, who is about to read the rows
          report,   \* the answer of the last step, if it gave one to a reader
          seen      \* history: an answer, any one, that a client remembers

uploadVars == <<upload, state>>
readerVars == <<reading, report, seen>>
vars == <<storeVars, clock, backend, uploadVars, locked, readerVars>>

NoReport == [kind |-> "none"]

NoUpload == [tenant |-> NoTenant, rows |-> <<>>]

(* Two members are history: whether the upload had been answered, and      *)
(* whether the remembered answer had been given, when GetRun read the run. *)
Detail == [run : Requests, tenant : Tenants, record : RunRecord,
           answered : BOOLEAN, later : BOOLEAN]

Memory == [run : Requests, status : RunStatuses, rows : Nat]

(* What the reports keep and show has the types of the Store's records. *)
TypeOK ==
    /\ StoreTypeOK
    /\ backend \in Backends
    /\ upload \in [Requests -> Uploads \cup {NoUpload}]
    /\ state \in [Requests -> {"new", "rows", "answered", "failed"}]
    /\ locked \in SUBSET Requests
    /\ reading \in [Readers -> Detail \cup {NoRead}]
    /\ seen \in Memory \cup {NoRead}

Init ==
    /\ StoreInit
    /\ backend \in Backends
    /\ upload = [r \in Requests |-> NoUpload]
    /\ state = [r \in Requests |-> "new"]
    /\ locked = {}
    /\ reading = [v \in Readers |-> NoRead]
    /\ report = NoReport
    /\ seen = NoRead
-----------------------------------------------------------------------------
(* Uploads and workers *)

CountIn(rows, disp) == Cardinality({i \in DOMAIN rows : rows[i].disp = disp})

SummaryOf(rows) ==
    [received |-> Len(rows), valid |-> Len(rows) - CountIn(rows, "rejected"),
     rejected |-> CountIn(rows, "rejected"), unchanged |-> CountIn(rows, "unchanged"),
     enqueued |-> CountIn(rows, "enqueued")]

(* Nothing is said to a reader. *)
Silent == report' = NoReport /\ UNCHANGED <<reading, seen>>

(* InsertRun *)
StoreRun(r, u) ==
    /\ state[r] = "new"
    /\ upload' = [upload EXCEPT ![r] = u]
    /\ LET s == SummaryOf(u.rows)
           stored == backend = "memory" \/ TenantExists(u.tenant)
       IN  \/ /\ stored
              /\ InsertRunRow(r, [tenant |-> u.tenant, status |-> RunStatus(s),
                                  push |-> PushTriggered(s), sum |-> s, created |-> clock])
              /\ state' = [state EXCEPT ![r] = "rows"]
           \/ /\ ~stored
              /\ state' = [state EXCEPT ![r] = "failed"]
              /\ UNCHANGED runs
    /\ UNCHANGED <<productHash, runProducts, clock, backend, locked>>
    /\ Silent

(* InsertRunProducts, all at once in memory and one by one in MySQL, where *)
(* a second row with a key fails; then the answer.                         *)
StoreRows(r) ==
    /\ state[r] = "rows"
    /\ LET rows == upload[r].rows
           n == Len(runProducts[r])
       IN  \/ /\ backend = "memory"
              /\ InsertRunProducts(r, rows)
              /\ state' = [state EXCEPT ![r] = "answered"]
           \/ /\ backend = "mysql" /\ n < Len(rows) /\ ~DuplicateRow(r, rows[n + 1])
              /\ InsertProductRow(r, rows[n + 1])
              /\ UNCHANGED state
           \/ /\ backend = "mysql"
              /\ state' = [state EXCEPT ![r] = IF n = Len(rows) THEN "answered" ELSE "failed"]
              /\ n < Len(rows) => DuplicateRow(r, rows[n + 1])
              /\ UNCHANGED runProducts
    /\ UNCHANGED <<productHash, runs, clock, backend, upload, locked>>
    /\ Silent

(* The memory store selects and marks under its mutex. *)
Claim ==
    /\ backend = "memory"
    /\ \E S \in OldestOf(MaxPerClaim) : S # {} /\ ClaimRuns(S)
    /\ UNCHANGED <<productHash, runProducts, clock, backend, uploadVars, locked>>
    /\ Silent

(* MySQL: SELECT ... FOR UPDATE, which waits for the rows another claim    *)
(* has locked; the UPDATEs are seen by nobody before the commit.           *)
LockRuns ==
    /\ backend = "mysql" /\ locked = {}
    /\ \E S \in OldestOf(MaxPerClaim) : S # {} /\ locked' = S
    /\ UNCHANGED <<storeVars, clock, backend, uploadVars>>
    /\ Silent

(* The commit, or the end of the transaction without one. *)
EndClaim ==
    /\ locked # {}
    /\ locked' = {}
    /\ ClaimRuns(locked) \/ UNCHANGED runs
    /\ UNCHANGED <<productHash, runProducts, clock, backend, uploadVars>>
    /\ Silent

(* CompleteRun after the push, FailRun also without one. *)
Resolve(r) ==
    /\ runs[r].status = "processing"
    /\ \E status \in {"completed", "failed"} : ResolveRun(runs[r].tenant, r, status)
    /\ UNCHANGED <<productHash, runProducts, clock, backend, uploadVars, locked>>
    /\ Silent
-----------------------------------------------------------------------------
(* Readers *)

(* The handlers' treatment of ?limit=. *)
Clamp(n, default, max) == IF n <= 0 THEN default ELSE IF n > max THEN max ELSE n

(* The MySQL store does it once more, with limits of its own for rows. *)
StoreLimit(n, default, max) == IF backend = "mysql" THEN Clamp(n, default, max) ELSE n

(* History: the client keeps one of these answers in mind, or none. *)
Remember(answers) == seen' = seen \/ (seen = NoRead /\ seen' \in answers)

(* DebugRunsHandler *)
ListRuns(t, n) ==
    /\ \E list \in NewestFirst(t) :
          LET ids == Truncated(list, StoreLimit(Clamp(n, ListDefault, ListMax), ListDefault, ListMax))
          IN  /\ report' = [kind |-> "list", tenant |-> t, limit |-> n, ids |-> ids,
                            items |-> [i \in DOMAIN ids |-> runs[ids[i]]]]
              /\ Remember({[run |-> r, status |-> runs[r].status, rows |-> 0] : r \in ToSet(ids)})
    /\ UNCHANGED <<storeVars, clock, backend, uploadVars, locked, reading>>

(* DebugRunDetailHandler, to GetRun: a run of another tenant is not found. *)
GetRun(v, t, r) ==
    /\ reading[v] = NoRead
    /\ \/ /\ r \in RunsOf(t)
          /\ reading' = [reading EXCEPT ![v] =
                           [run |-> r, tenant |-> t, record |-> runs[r],
                            answered |-> state[r] = "answered", later |-> seen # NoRead]]
          /\ report' = NoReport
       \/ /\ r \notin RunsOf(t)
          /\ report' = [kind |-> "not_found"]
          /\ UNCHANGED reading
    /\ UNCHANGED <<storeVars, clock, backend, uploadVars, locked, seen>>

(* Its second half, from ?limit= on: ListRunProducts and the answer. *)
ListProducts(v, n) ==
    /\ reading[v] # NoRead
    /\ LET read == reading[v]
           limit == StoreLimit(Clamp(n, DetailDefault, DetailMax), RowsDefault, ListCap)
       IN  \E list \in ByKey(read.run) :
              LET rows == Truncated(list, limit)
              IN  /\ report' = [kind |-> "detail", read |-> read, limit |-> n, rows |-> rows]
                  /\ Remember({[run |-> read.run, status |-> read.record.status,
                                 rows |-> Len(rows)]})
    /\ reading' = [reading EXCEPT ![v] = NoRead]
    /\ UNCHANGED <<storeVars, clock, backend, uploadVars, locked>>

Next ==
    \/ \E r \in Requests :
          \/ \E u \in Uploads : StoreRun(r, u)
          \/ StoreRows(r) \/ Resolve(r)
    \/ Claim \/ LockRuns \/ EndClaim
    \/ \E t \in Tenants, n \in Limits : ListRuns(t, n)
    \/ \E v \in Readers, t \in Tenants, r \in Requests : GetRun(v, t, r)
    \/ \E v \in Readers, n \in Limits : ListProducts(v, n)
    \/ Tick /\ Silent /\ UNCHANGED <<storeVars, backend, uploadVars, locked>>

Spec == Init /\ [][Next]_vars
-----------------------------------------------------------------------------
Min2(a, b) == IF a < b THEN a ELSE b

(* What a reader who asks for n entries is entitled to. *)
Asked(n, default, max) == CASE n \in 1 .. max -> n [] n > max -> max [] OTHER -> default

(* A list of runs, whichever store answers and whatever the limit asked    *)
(* for, holds runs of the reader's tenant alone, newest first, and exactly *)
(* as many of the newest as were asked for or exist.                       *)
ListsNewestOwn ==
    [][report'.kind = "list" =>
          LET ids == report'.ids
              mine == {r \in Requests : runs[r].tenant = report'.tenant}
          IN  /\ ToSet(ids) \subseteq mine
              /\ Cardinality(ToSet(ids)) = Len(ids)
              /\ Len(ids) = Min2(Cardinality(mine), Asked(report'.limit, ListDefault, ListMax))
              /\ \A i \in DOMAIN ids : \A q \in mine \ {ids[j] : j \in 1 .. i} :
                    runs[q].created <= runs[ids[i]].created]_vars

(* The two reads of a detail fit together although uploads go on between   *)
(* them: what is shown are results of that very run, in the order of their *)
(* keys; for a run that had been answered when it was read, it is all of   *)
(* them, or as many as asked for; and the memory store shows all or none.  *)
DetailAgrees ==
    report.kind = "detail" =>
        LET read == report.read
            whole == Min2(read.record.sum.received,
                          Asked(report.limit, DetailDefault, DetailMax))
            shownOf(row) == Cardinality({i \in DOMAIN report.rows : report.rows[i] = row})
            results == upload[read.run].rows
        IN  /\ upload[read.run].tenant = read.tenant
            /\ \A i \in DOMAIN report.rows :
                  shownOf(report.rows[i])
                      <= Cardinality({j \in DOMAIN results : results[j] = report.rows[i]})
            /\ \A i, j \in DOMAIN report.rows :
                  i < j => report.rows[i].key <= report.rows[j].key
            /\ read.answered => Len(report.rows) = whole
            /\ backend = "memory" => Len(report.rows) \in {0, whole}

Rank(status) ==
    CASE status = "absent" -> 0
      [] status = "has_changes" -> 1
      [] status = "processing" -> 2
      [] OTHER -> 3

(* The same status, or a later one. *)
NotBehind(a, b) == a = b \/ Rank(a) > Rank(b)

(* However readers overlap with uploads, workers and each other, a read    *)
(* that begins after an answer is not behind it: the run has not gone back *)
(* to an earlier status, its end has not changed, and a detail has at      *)
(* least the rows that had been shown, or as many as asked for.            *)
ReadsForward ==
    [][/\ report'.kind = "list" /\ seen # NoRead =>
             \A i \in DOMAIN report'.ids :
                report'.ids[i] = seen.run => NotBehind(report'.items[i].status, seen.status)
       /\ report'.kind = "detail" /\ report'.read.later /\ report'.read.run = seen.run =>
             /\ NotBehind(report'.read.record.status, seen.status)
             /\ Len(report'.rows)
                   >= Min2(seen.rows, Asked(report'.limit, DetailDefault, DetailMax))]_vars
=============================================================================
