------------------------------ MODULE MCUpload ------------------------------
(* A small instance of Upload for TLC. *)
EXTENDS Upload, TLC

CONSTANTS h1, h2  \* the members of Hashes

ASSUME {h1, h2} \subseteq Hashes

Body(kind, items) == [tenant |-> 1, kind |-> kind, items |-> items, body |-> "whole"]

One(h) == [key |-> 1, hash |-> h, valid |-> TRUE]

(* A body whose connection is lost after the first line. *)
Whole == Body("bulk", <<One(h1)>>)
Cut == [Whole EXCEPT !.body = "cut"]

UploadShapes == {Whole, Cut, Body("json", <<One(h2)>>)}

(* One of the calls may go wrong, one be cut off and one have another      *)
(* content.                                                                *)
MaxOfEach == 1

Few(S) == Cardinality(S) <= MaxOfEach

Bounded ==
    /\ Few({r \in Requests : resp[r] \in {"error", "lost"}})
    /\ Few({r \in Requests : sent[r] = Cut})
    /\ Few({r \in Requests : sent[r].kind = "json"} \ {r \in Requests : sent[r] = NoShape})

Symmetry == Permutations(Requests)
=============================================================================
