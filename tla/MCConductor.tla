---------------------------- MODULE MCConductor ----------------------------
(***************************************************************************)
(* Small instances of Conductor for TLC.  Product keys and tenants are     *)
(* numbers, everything else is a model value.                              *)
(***************************************************************************)
EXTENDS Conductor, TLC

CONSTANTS h1, h2  \* the members of Hashes

ASSUME {h1, h2} \subseteq Hashes

Good(k, h) == [key |-> k, hash |-> h, valid |-> TRUE]
Bad(k, h) == [key |-> k, hash |-> h, valid |-> FALSE]

Json(t, items) == [tenant |-> t, kind |-> "json", items |-> items, body |-> "whole"]
Bulk(t, items) == [tenant |-> t, kind |-> "bulk", items |-> items, body |-> "whole"]

(* Bodies that the handlers take in all the ways they can end: one product *)
(* or two, a key twice, a rejected product, an unknown tenant, a malformed *)
(* array and a body cut off.                                               *)
MixedShapes ==
    {Json(1, <<Good(1, h1)>>),
     Json(1, <<Good(1, h2), Good(2, h1)>>),
     Bulk(1, <<Good(1, h1), Bad(NoKey, h1)>>),
     Bulk(1, <<Good(1, h2), Good(1, h1)>>),
     Bulk(2, <<Good(1, h2)>>),
     [Json(1, <<>>) EXCEPT !.body = "malformed"],
     [Bulk(1, <<Good(1, h1)>>) EXCEPT !.body = "cut"]}

(* One product each, so that almost every request makes a run for the      *)
(* queue.                                                                  *)
QueueShapes == {Bulk(1, <<Good(1, h1)>>), Bulk(1, <<Good(1, h2)>>)}

(* Requests overlap where it matters to the queue: others come and go      *)
(* while one has its stamp and is not stored.  A worker is left running.   *)
OverlapBound ==
    /\ Cardinality({r \in InFlight : pc[r] # "insert_run"}) <= 1
    /\ \E w \in Workers : wpc[w] # "stopped"

(* Bodies that are read to their end and hold every key once. *)
WholeShapes ==
    {Json(1, <<Bad(2, h1), Good(1, h1)>>),
     Bulk(1, <<Good(1, h1)>>),
     Bulk(1, <<Good(1, h2)>>),
     Bulk(2, <<Good(1, h1)>>)}

(* A body cut off after its first line, and the same body sent again.      *)
RetryShapes ==
    {[Bulk(1, <<Good(1, h1)>>) EXCEPT !.body = "cut"],
     Bulk(1, <<Good(1, h1)>>)}

(* One request with two products. *)
PairShapes == {Json(1, <<Good(1, h1), Good(2, h2)>>)}

Symmetry == Permutations(Requests) \cup Permutations(Workers)
=============================================================================
