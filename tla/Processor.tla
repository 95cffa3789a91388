----------------------------- MODULE Processor -----------------------------
(***************************************************************************)
(* The delta engine of internal/ingest: how one product is classified      *)
(* against its previous hash, how a run's summary is counted, and which    *)
(* status the run starts with.  No state: the handlers of UpsertHandlers   *)
(* call these operators.                                                   *)
(*                                                                         *)
(* A product is abstracted to its product_key, the hash of its normalized  *)
(* content (SHA-256, taken to be injective) and whether it passes          *)
(* validation.  Field-level validation and normalization are not in this   *)
(* module.                                                                 *)
(***************************************************************************)
EXTENDS Naturals, Sequences, FiniteSets

CONSTANTS Tenants,     \* tenant ids
          Keys,        \* product keys; numbers, because ListRunProducts sorts by them
          Hashes,      \* normalized content hashes
          NoHash,      \* the empty hash string
          NoTenant     \* the tenant id of a row that does not exist

ASSUME KeysAssumption == Keys \subseteq Nat \ {0}
ASSUME SentinelAssumption == NoHash \notin Hashes /\ NoTenant \notin Tenants

(* The empty product_key: an unparsable NDJSON line, or a product that     *)
(* lacks the field.                                                        *)
NoKey == 0

Dispositions == {"rejected", "unchanged", "enqueued"}

(* One product of a request body. *)
Item == [key : Keys \cup {NoKey}, hash : Hashes, valid : BOOLEAN]

(* ProductProcessResult, and the row of run_products it becomes. *)
Row == [key : Keys \cup {NoKey}, hash : Hashes \cup {NoHash}, disp : Dispositions]

(* Every product that passes base validation has a product_key. *)
WellFormedItem(item) == item.valid => item.key # NoKey
-----------------------------------------------------------------------------
(* Mutant: a product that is seen for the first time is not pushed. *)
ComputeDisposition_FirstSeen(previousHash, currentHash) ==
    IF previousHash \in {NoHash, currentHash} THEN "unchanged" ELSE "enqueued"

ComputeDisposition(previousHash, currentHash) ==
    IF previousHash # NoHash /\ previousHash = currentHash
    THEN "unchanged"
    ELSE "enqueued"

ProcessProduct(item, previousHash) ==
    IF item.valid
    THEN [key |-> item.key, hash |-> item.hash,
          disp |-> ComputeDisposition(previousHash, item.hash)]
    ELSE [key |-> item.key, hash |-> NoHash, disp |-> "rejected"]

(* ProcessSummary *)
Summary == [received : Nat, valid : Nat, rejected : Nat, unchanged : Nat, enqueued : Nat]

EmptySummary(received) ==
    [received |-> received, valid |-> 0, rejected |-> 0, unchanged |-> 0, enqueued |-> 0]

Bump(n, condition) == IF condition THEN n + 1 ELSE n

(* Mutant: rejected products are not counted. *)
CountResult_LosesRejected(s, row) ==
    [s EXCEPT !.valid     = Bump(@, row.disp # "rejected"),
              !.unchanged = Bump(@, row.disp = "unchanged"),
              !.enqueued  = Bump(@, row.disp = "enqueued")]

(* The counters after one more result. *)
CountResult(s, row) ==
    [s EXCEPT !.valid     = Bump(@, row.disp # "rejected"),
              !.rejected  = Bump(@, row.disp = "rejected"),
              !.unchanged = Bump(@, row.disp = "unchanged"),
              !.enqueued  = Bump(@, row.disp = "enqueued")]

(* Mutant: a run with a single change does not trigger a push. *)
PushTriggered_OffByOne(s) == s.enqueued > 1

PushTriggered(s) == s.enqueued > 0

(* The status an ingestion run is stored with. *)
RunStatus(s) ==
    IF PushTriggered(s) THEN "has_changes"
    ELSE IF s.rejected = 0 THEN "no_change_detected"
    ELSE "completed"
=============================================================================
