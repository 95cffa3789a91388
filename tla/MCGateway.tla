----------------------------- MODULE MCGateway -----------------------------
(* Small instances of Gateway for TLC. *)
EXTENDS Gateway, TLC

CONSTANT k1  \* the member of IdemKeys

ASSUME k1 \in IdemKeys

Post(token, header, key) ==
    [method |-> "POST", endpoint |-> "upsert", token |-> token, header |-> header, key |-> key]

(* Tenants that use the same key, both endpoints, calls that are refused   *)
(* in dev or in production, and a method the handler does not take.        *)
MixedMessages ==
    {Post(1, Bad, k1), Post(2, 2, k1), Post(None, 2, k1),
     [Post(1, None, k1) EXCEPT !.endpoint = "bulk"],
     [Post(1, None, k1) EXCEPT !.method = "PUT"]}

(* Calls of two tenants. *)
TwoTenants == {Post(1, None, k1), Post(2, None, k1)}

Symmetry == Permutations(Calls)
=============================================================================
