----------------------------- MODULE StateStore -----------------------------
(***************************************************************************)
(* internal/state, MySQL backend: the tables the API service and the       *)
(* worker service share, and the statement each Store method executes.     *)
(* Every operator below is one autocommitted statement except the claim of *)
(* a batch of runs, which is a transaction and lives in Worker.            *)
(*                                                                         *)
(* Tables: product_state (productHash), runs, run_products (runProducts),  *)
(* tenants (the constant TenantRows: nothing in the program inserts a      *)
(* tenant after start-up).  Run ids are 128 random bits and taken to be    *)
(* unique, so the run of request r is named r itself.                      *)
(***************************************************************************)
EXTENDS Processor

CONSTANTS Requests,    \* upsert requests; also the ids of the runs they create
          TenantRows,  \* the tenants that have a row in table tenants
          ListCap,     \* ListRunProducts' upper limit (2000 in the code)
          MaxClock     \* bound on the seconds the clock advances

ASSUME StoreAssumption ==
    /\ IsFiniteSet(Requests)
    /\ TenantRows \subseteq Tenants
    /\ ListCap \in Nat \ {0}
    /\ MaxClock \in Nat

VARIABLES productHash, \* product_state: [Tenants -> [Keys -> hash]]
          runs,        \* runs: [Requests -> RunRecord]
          runProducts, \* run_products: [Requests -> Seq(Row)], in insertion order
          clock        \* wall clock in seconds, the resolution of TIMESTAMP

storeVars == <<productHash, runs, runProducts>>

RunStatuses == {"absent", "no_change_detected", "has_changes", "processing",
                "completed", "failed"}

RunRecord == [tenant : Tenants \cup {NoTenant}, status : RunStatuses,
              push : BOOLEAN, sum : Summary, created : Nat]

(* A run id that has no row. *)
NoRun == [tenant |-> NoTenant, status |-> "absent", push |-> FALSE,
          sum |-> EmptySummary(0), created |-> 0]

StoreTypeOK ==
    /\ productHash \in [Tenants -> [Keys -> Hashes \cup {NoHash}]]
    /\ runs \in [Requests -> RunRecord]
    /\ runProducts \in [Requests -> Seq(Row)]
    /\ clock \in Nat

StoreInit ==
    /\ productHash = [t \in Tenants |-> [k \in Keys |-> NoHash]]
    /\ runs = [r \in Requests |-> NoRun]
    /\ runProducts = [r \in Requests |-> <<>>]
    /\ clock = 0

(* Time passes. *)
Tick ==
    /\ clock < MaxClock
    /\ clock' = clock + 1
-----------------------------------------------------------------------------
(* A key stands for all that the column's collation, which ignores case,   *)
(* takes for equal to it.                                                  *)
GetProductHash(t, k) == productHash[t][k]

(* Mutant: the statement forgets the tenant. *)
UpsertProductHash_AnyTenant(t, k, h) ==
    productHash' = [u \in Tenants |-> [productHash[u] EXCEPT ![k] = h]]

UpsertProductHash(t, k, h) ==
    productHash' = [productHash EXCEPT ![t][k] = h]

(* runs.tenant_id references tenants. *)
TenantExists(t) == t \in TenantRows

InsertRunRow(r, rec) == runs' = [runs EXCEPT ![r] = rec]

(* The primary key of run_products is (run_id, product_key). *)
DuplicateRow(r, row) ==
    \E i \in DOMAIN runProducts[r] : runProducts[r][i].key = row.key

InsertProductRow(r, row) ==
    runProducts' = [runProducts EXCEPT ![r] = Append(@, row)]

(* The rows of a run, in the order of their keys and cut off at the limit: *)
(* a row is returned when fewer than limit rows precede it.                *)
StoredRows(r) == {runProducts[r][i] : i \in DOMAIN runProducts[r]}

(* Mutant: the limit is off by one. *)
ListRunProducts_OffByOne(r, limit) ==
    LET cut == IF limit > ListCap THEN ListCap ELSE limit
    IN  {row \in StoredRows(r) :
            Cardinality({q \in StoredRows(r) : q.key <= row.key}) < cut}

ListRunProducts(r, limit) ==
    LET cut == IF limit > ListCap THEN ListCap ELSE limit
    IN  {row \in StoredRows(r) :
            Cardinality({q \in StoredRows(r) : q.key < row.key}) < cut}

(* UPDATE runs SET status = s WHERE run_id = r *)
WithStatus(rs, S, s) ==
    [r \in Requests |-> IF r \in S THEN [rs[r] EXCEPT !.status = s] ELSE rs[r]]

CompleteRun(r) == runs' = WithStatus(runs, {r}, "completed")

(* Mutant: the status column receives something that is not a run status. *)
FailRun_WritesMessage(r) == runs' = WithStatus(runs, {r}, "error message")

FailRun(r) == runs' = WithStatus(runs, {r}, "failed")

(* Mutant: runs already being processed are claimed again. *)
Claimable_Reclaims ==
    {r \in Requests : runs[r].status \in {"has_changes", "processing"} /\ runs[r].push}

(* The rows the claim's SELECT ... FOR UPDATE matches. *)
Claimable == {r \in Requests : runs[r].status = "has_changes" /\ runs[r].push}
=============================================================================
