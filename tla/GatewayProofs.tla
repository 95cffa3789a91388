--------------------------- MODULE GatewayProofs ---------------------------
(***************************************************************************)
(* Proofs about Gateway, for any set of concurrent calls, any messages and *)
(* any lifetime of a cached answer, with failing Store calls and crashes.  *)
(***************************************************************************)
EXTENDS Gateway, TLAPS

(* What is known of a call by where it is. *)
CallInv ==
    \A c \in Calls :
        /\ at[c] # "client" => msg[c] \in Messages
        /\ at[c] \in {"lookup", "store"} => Keyed(msg[c])
        /\ at[c] \in {"client", "auth", "tenant", "lookup", "handler"} => reply[c] = None
        /\ at[c] \in {"client", "auth", "tenant", "lookup"} => missed[c] = None
        /\ at[c] # "over" => stored[c] = None
        /\ at[c] = "store" => reply[c] # None /\ reply[c].of = c
        /\ \A d \in before[c] : at[d] = "over"

(* A record repeats the answer of a call that is over and had this scope. *)
CacheInv ==
    \A s \in Scopes : cache[s] # None =>
        /\ at[cache[s].of] = "over"
        /\ Scope(cache[s].of) = s
        /\ reply[cache[s].of] = [code |-> cache[s].code, of |-> cache[s].of]

(* Once an answer is cached its scope has a record that lives at least as  *)
(* long, but for what rounding takes.                                      *)
StoredInv ==
    \A d \in Calls : stored[d] # None =>
        /\ Scope(d) \in Scopes
        /\ cache[Scope(d)] # None
        /\ stored[d] <= now
        /\ stored[d] + TTL <= cache[Scope(d)].expires + Loss

(* A replayed answer stays the answer it repeats. *)
ReplayInv ==
    \A c \in Calls : Replayed(c) => at[c] = "over" /\ at[reply[c].of] = "over"

(* In production what is past AuthMiddleware has a token. *)
TokenInv ==
    \A c \in Calls :
        (/\ env = "prod"
         /\ \/ at[c] \in {"tenant", "lookup", "handler", "store"}
            \/ reply[c] # None /\ reply[c].of # None)
        => msg[c].token \in Tenants

GatewayInv ==
    /\ TypeOK /\ CallInv /\ CacheInv /\ StoredInv /\ ReplayInv /\ TokenInv
    /\ ReplayInScope /\ RetryIsReplayed
-----------------------------------------------------------------------------
(* No call but c is affected. *)
OnlyCall(c) ==
    \A d \in Calls \ {c} :
        /\ at'[d] = at[d] /\ msg'[d] = msg[d] /\ tenant'[d] = tenant[d]
        /\ reply'[d] = reply[d] /\ before'[d] = before[d]
        /\ stored'[d] = stored[d] /\ missed'[d] = missed[d]

(* What a step of c has to show for c itself. *)
CallOK(c) ==
    /\ at[c] # "client" => msg[c] \in Messages
    /\ at[c] \in {"lookup", "store"} => Keyed(msg[c])
    /\ at[c] \in {"client", "auth", "tenant", "lookup", "handler"} => reply[c] = None
    /\ at[c] \in {"client", "auth", "tenant", "lookup"} => missed[c] = None
    /\ at[c] # "over" => stored[c] = None
    /\ at[c] = "store" => reply[c] # None /\ reply[c].of = c

TokenOK(c) ==
    (/\ env = "prod"
     /\ \/ at[c] \in {"tenant", "lookup", "handler", "store"}
        \/ reply[c] # None /\ reply[c].of # None)
    => msg[c].token \in Tenants

(* What rounding takes is a time. *)
LEMMA LossType == Loss \in Nat
BY GatewayAssumption DEF Loss

(* Rounding to the nearest second takes less than half of one. *)
LEMMA RoundedFacts ==
    ASSUME NEW t \in Nat
    PROVE  Rounded(t) \in Nat /\ t <= Rounded(t) + Loss
<1>1. PICK part \in 0 .. Second - 1 : part = t % Second /\ part <= t
  BY GatewayAssumption
<1>2. Rounded(t) = IF 2 * part < Second THEN t - part ELSE t + (Second - part)
  BY <1>1 DEF Rounded
<1> QED
  BY <1>1, <1>2, GatewayAssumption DEF Loss

(* A record that was not touched still repeats a call that is over, and    *)
(* the calls that are over are not c.                                      *)
LEMMA CacheFrame ==
    ASSUME GatewayInv, NEW c \in Calls, at[c] # "over", OnlyCall(c),
           UNCHANGED <<now, cache, stored>>
    PROVE  CacheInv' /\ StoredInv'
<1>1. ASSUME NEW s \in Scopes, cache[s] # None
      PROVE  cache[s].of \in Calls /\ cache[s].of # c
  <2>1. PICK rec \in Record : rec = cache[s]
    BY <1>1 DEF GatewayInv, TypeOK
  <2>2. rec.of \in Calls
    BY DEF Record
  <2>3. at[rec.of] = "over"
    BY <1>1, <2>1 DEF GatewayInv, CacheInv
  <2> QED
    BY <2>1, <2>2, <2>3
<1>2. CacheInv'
  BY <1>1 DEF GatewayInv, CacheInv, OnlyCall, Scope
<1>3. ASSUME NEW d \in Calls, stored[d] # None PROVE d # c
  BY <1>3 DEF GatewayInv, CallInv
<1>4. StoredInv'
  BY <1>3 DEF GatewayInv, StoredInv, OnlyCall, Scope
<1> QED
  BY <1>2, <1>4

(* The answer c has after the step is its own, or repeats one in its scope. *)
AnswerOK(c) ==
    \/ reply'[c] = None
    \/ reply'[c].of \in {None, c}
    \/ \E d \in Calls \ {c} :
          /\ reply'[c] = reply[d] /\ reply[d].of = d
          /\ at[d] = "over" /\ at'[c] = "over"
          /\ tenant[d] = tenant'[c]
          /\ msg[d].endpoint = msg'[c].endpoint /\ msg[d].key = msg'[c].key

(* What c missed had expired. *)
MissOK(c) ==
    \/ missed'[c] = None
    \/ \A d \in before'[c] :
          stored[d] # None /\ Scope(c)' = Scope(d) => missed'[c] + Loss > stored[d] + TTL

(* A step of one call that stores no answer. *)
LEMMA CallStepKeeps ==
    ASSUME GatewayInv, NEW c \in Calls, at[c] # "over", OnlyCall(c),
           UNCHANGED <<env, now, cache, stored>>,
           TypeOK', CallOK(c)', TokenOK(c)',
           \A d \in before'[c] : at[d] = "over",
           AnswerOK(c), MissOK(c)
    PROVE  GatewayInv'
<1> USE DEF GatewayInv
<1>1. CacheInv' /\ StoredInv'
  BY CacheFrame
<1>2. CallInv'
  <2>1. ASSUME NEW e \in Calls, e # c
        PROVE  /\ CallOK(e)'
               /\ \A d \in before'[e] : at'[d] = "over"
    BY <2>1 DEF CallInv, CallOK, OnlyCall, TypeOK
  <2>2. \A d \in before'[c] : at'[d] = "over"
    BY DEF OnlyCall, TypeOK
  <2> QED
    BY <2>1, <2>2 DEF CallInv, CallOK
<1>3. TokenInv'
  BY DEF TokenInv, TokenOK, OnlyCall
<1>4. ASSUME NEW e \in Calls, e # c, Replayed(e)'
      PROVE  /\ Replayed(e)
             /\ reply[e].of \in Calls /\ reply[e].of # c
  <2>1. Replayed(e)
    BY <1>4 DEF Replayed, OnlyCall
  <2> QED
    BY <2>1 DEF Replayed, ReplayInv, TypeOK, Reply
<1>5. ASSUME Replayed(c)'
      PROVE  /\ reply'[c].of \in Calls \ {c}
             /\ reply'[c] = reply[reply'[c].of]
             /\ at[reply'[c].of] = "over" /\ at'[c] = "over"
             /\ tenant[reply'[c].of] = tenant'[c]
             /\ msg[reply'[c].of].endpoint = msg'[c].endpoint
             /\ msg[reply'[c].of].key = msg'[c].key
  BY <1>5 DEF Replayed, AnswerOK
<1>6. ReplayInv'
  BY <1>4, <1>5 DEF ReplayInv, OnlyCall
<1>7. ReplayInScope'
  BY <1>4, <1>5 DEF ReplayInScope, OnlyCall
<1>8. RetryIsReplayed'
  <2>1. SUFFICES ASSUME NEW e \in Calls, NEW d \in Calls,
                        d \in before'[e], stored'[d] # None, missed'[e] # None,
                        Scope(e)' = Scope(d)'
                 PROVE  missed'[e] + Loss > stored'[d] + TTL
    BY DEF RetryIsReplayed
  <2>2. d # c
    BY <2>1 DEF CallInv
  <2>3. Scope(d)' = Scope(d)
    BY <2>2 DEF OnlyCall, Scope
  <2>4. CASE e = c
    BY <2>1, <2>3, <2>4 DEF MissOK
  <2>5. CASE e # c
    <3>1. d \in before[e] /\ missed[e] = missed'[e] /\ Scope(e) = Scope(d)
      BY <2>1, <2>2, <2>5 DEF OnlyCall, Scope
    <3> QED
      BY <2>1, <3>1 DEF RetryIsReplayed
  <2> QED
    BY <2>4, <2>5
<1> QED
  BY <1>1, <1>2, <1>3, <1>6, <1>7, <1>8

-----------------------------------------------------------------------------
LEMMA InvInit == Init => GatewayInv
<1> SUFFICES ASSUME Init PROVE GatewayInv
  OBVIOUS
<1>1. TypeOK
  BY GatewayAssumption DEF Init, TypeOK
<1>2. CallInv /\ CacheInv /\ StoredInv
  BY DEF Init, CallInv, CacheInv, StoredInv
<1>3. ReplayInv /\ TokenInv /\ ReplayInScope /\ RetryIsReplayed
  BY DEF Init, ReplayInv, TokenInv, ReplayInScope, RetryIsReplayed, Replayed
<1> QED
  BY <1>1, <1>2, <1>3 DEF GatewayInv

LEMMA ArriveStep ==
    ASSUME GatewayInv, NEW c \in Calls, NEW m \in Messages, Arrive(c, m)
    PROVE  GatewayInv'
<1> USE DEF GatewayInv
<1>1. TypeOK'
  BY DEF Arrive, To, TypeOK
<1>2. OnlyCall(c)
  BY DEF Arrive, To, TypeOK, OnlyCall
<1>3. /\ at'[c] = "auth" /\ msg'[c] = m /\ reply'[c] = None
      /\ missed'[c] = None /\ stored'[c] = None
      /\ before'[c] = {d \in Calls : at[d] = "over"}
      /\ at[c] # "over"
  BY DEF Arrive, To, TypeOK, CallInv
<1>4. CallOK(c)' /\ TokenOK(c)'
  BY <1>3 DEF CallOK, TokenOK
<1>5. UNCHANGED <<env, now, cache, stored>>
  BY DEF Arrive
<1> QED
  BY <1>1, <1>2, <1>3, <1>4, <1>5, CallStepKeeps DEF AnswerOK, MissOK

(* In production AuthMiddleware lets no call pass without a token. *)
LEMMA AuthStep ==
    ASSUME GatewayInv, NEW c \in Calls, AuthMiddleware(c)
    PROVE  GatewayInv'
<1> USE DEF GatewayInv
<1>0. /\ at[c] = "auth" /\ msg[c] \in Messages /\ reply[c] = None
      /\ missed[c] = None /\ stored[c] = None
      /\ UNCHANGED <<env, now, cache, msg, before, stored, missed>>
      /\ \A d \in before[c] : at[d] = "over"
  BY DEF AuthMiddleware, CallInv
<1>1. \/ at' = [at EXCEPT ![c] = "over"] /\ reply' = [reply EXCEPT ![c] = [code |-> 401, of |-> None]]
         /\ UNCHANGED tenant
      \/ /\ at' = [at EXCEPT ![c] = "tenant"] /\ reply' = reply
         /\ \/ tenant' = tenant
            \/ msg[c].token \in Tenants /\ tenant' = [tenant EXCEPT ![c] = msg[c].token]
         /\ env = "prod" => msg[c].token \in Tenants
  BY DEF AuthMiddleware, To, Refuse, Write, MayPassUnauthenticated
<1>2. [code |-> 401, of |-> None] \in Reply
  BY DEF Reply, Codes
<1>3. TypeOK'
  BY <1>0, <1>1, <1>2 DEF TypeOK
<1>4. OnlyCall(c)
  BY <1>0, <1>1 DEF TypeOK, OnlyCall
<1>5. /\ at'[c] \in {"tenant", "over"} /\ msg'[c] \in Messages /\ missed'[c] = None
      /\ stored'[c] = None
      /\ reply'[c] = None \/ reply'[c].of = None
      /\ at'[c] = "tenant" => reply'[c] = None
      /\ at'[c] = "tenant" /\ env' = "prod" => msg'[c].token \in Tenants
  BY <1>0, <1>1 DEF TypeOK
<1>6. CallOK(c)' /\ TokenOK(c)'
  BY <1>5 DEF CallOK, TokenOK
<1> QED
  BY <1>0, <1>3, <1>4, <1>5, <1>6, CallStepKeeps DEF AnswerOK, MissOK

LEMMA TenantStep ==
    ASSUME GatewayInv, NEW c \in Calls, TenantMiddleware(c)
    PROVE  GatewayInv'
<1> USE DEF GatewayInv
<1>0. /\ at[c] = "tenant" /\ msg[c] \in Messages /\ reply[c] = None
      /\ missed[c] = None /\ stored[c] = None
      /\ UNCHANGED <<env, now, cache, msg, before, stored, missed>>
      /\ \A d \in before[c] : at[d] = "over"
      /\ env = "prod" => msg[c].token \in Tenants
  BY DEF TenantMiddleware, CallInv, TokenInv
<1>1. msg[c].header \in Tenants \cup {None, Bad}
  BY <1>0, GatewayAssumption DEF Message
<1>2. \/ at' = [at EXCEPT ![c] = "over"] /\ reply' = [reply EXCEPT ![c] = [code |-> 400, of |-> None]]
         /\ UNCHANGED tenant
      \/ /\ \E t \in Tenants : tenant' = [tenant EXCEPT ![c] = t]
         /\ reply' = reply
         /\ \/ Keyed(msg[c]) /\ at' = [at EXCEPT ![c] = "lookup"]
            \/ at' = [at EXCEPT ![c] = "handler"]
  BY <1>1, GatewayAssumption DEF TenantMiddleware, To, Refuse, Write
<1>3. [code |-> 400, of |-> None] \in Reply
  BY DEF Reply, Codes
<1>4. TypeOK'
  BY <1>0, <1>2, <1>3 DEF TypeOK
<1>5. OnlyCall(c)
  BY <1>0, <1>2 DEF TypeOK, OnlyCall
<1>6. /\ at'[c] \in {"lookup", "handler", "over"} /\ msg'[c] \in Messages /\ missed'[c] = None
      /\ stored'[c] = None
      /\ reply'[c] = None \/ reply'[c].of = None
      /\ at'[c] # "over" => reply'[c] = None
      /\ at'[c] = "lookup" => Keyed(msg'[c])
      /\ env' = "prod" => msg'[c].token \in Tenants
  BY <1>0, <1>2 DEF TypeOK
<1>7. CallOK(c)' /\ TokenOK(c)'
  BY <1>6 DEF CallOK, TokenOK, Keyed
<1> QED
  BY <1>0, <1>4, <1>5, <1>6, <1>7, CallStepKeeps DEF AnswerOK, MissOK

LEMMA ScopeType ==
    ASSUME NEW c \in Calls, TypeOK, msg[c] \in Messages, Keyed(msg[c])
    PROVE  Scope(c) \in Scopes
<1>1. msg[c] \in Message
  BY GatewayAssumption
<1>2. msg[c].endpoint \in Endpoints /\ msg[c].key \in IdemKeys \cup {None} /\ msg[c].key # None
  BY <1>1 DEF Message, Keyed
<1> QED
  BY <1>2 DEF Scope, Scopes, TypeOK

(* A hit repeats the answer the record holds; on a miss every answer that  *)
(* was ever cached in the scope has outlived TTL, but for the rounding.    *)
LEMMA LookupStep ==
    ASSUME GatewayInv, NEW c \in Calls, Lookup(c)
    PROVE  GatewayInv'
<1> USE DEF GatewayInv
<1> DEFINE rec == cache[Scope(c)]
<1>0. /\ at[c] = "lookup" /\ msg[c] \in Messages /\ Keyed(msg[c]) /\ reply[c] = None
      /\ missed[c] = None /\ stored[c] = None
      /\ UNCHANGED <<env, now, cache, msg, tenant, before, stored>>
      /\ \A d \in before[c] : at[d] = "over"
      /\ env = "prod" => msg[c].token \in Tenants
  BY DEF Lookup, CallInv, TokenInv
<1>1. Scope(c) \in Scopes
  BY <1>0, ScopeType
<1>2. CASE Refuse(c, 500) /\ UNCHANGED missed
  <2>1. [code |-> 500, of |-> None] \in Reply
    BY DEF Reply, Codes
  <2>2. TypeOK' /\ OnlyCall(c)
    BY <1>0, <1>2, <2>1 DEF Refuse, To, Write, TypeOK, OnlyCall
  <2>3. /\ at'[c] = "over" /\ reply'[c].of = None /\ missed'[c] = None
    BY <1>0, <1>2 DEF Refuse, To, Write, TypeOK
  <2>4. CallOK(c)' /\ TokenOK(c)'
    BY <1>0, <2>3 DEF CallOK, TokenOK
  <2> QED
    BY <1>0, <2>2, <2>3, <2>4, CallStepKeeps DEF AnswerOK, MissOK
<1>3. CASE Live(rec) /\ To(c, "over") /\ Write(c, rec.code, rec.of) /\ UNCHANGED missed
  <2>1. PICK r \in Record : r = rec
    BY <1>1, <1>3 DEF TypeOK, Live
  <2>2. r.code \in Codes /\ r.of \in Calls
    BY DEF Record
  <2>3. /\ at[r.of] = "over" /\ Scope(r.of) = Scope(c)
        /\ reply[r.of] = [code |-> r.code, of |-> r.of]
    BY <1>1, <1>3, <2>1 DEF CacheInv, Live
  <2>4. /\ at' = [at EXCEPT ![c] = "over"]
        /\ reply' = [reply EXCEPT ![c] = [code |-> r.code, of |-> r.of]]
        /\ missed' = missed
    BY <1>3, <2>1 DEF To, Write
  <2>5. [code |-> r.code, of |-> r.of] \in Reply
    BY <2>2 DEF Reply
  <2>6. TypeOK' /\ OnlyCall(c)
    BY <1>0, <2>4, <2>5 DEF TypeOK, OnlyCall
  <2>7. at'[c] = "over" /\ reply'[c] = reply[r.of] /\ missed'[c] = None
    BY <1>0, <2>3, <2>4 DEF TypeOK
  <2>8. CallOK(c)' /\ TokenOK(c)'
    BY <1>0, <2>7 DEF CallOK, TokenOK
  <2>9. AnswerOK(c)
    <3>1. /\ tenant[r.of] = tenant[c]
          /\ msg[r.of].endpoint = msg[c].endpoint /\ msg[r.of].key = msg[c].key
      BY <2>3 DEF Scope
    <3>2. r.of # c
      BY <1>0, <2>3
    <3>3. reply[r.of].of = r.of
      BY <2>3
    <3> QED
      BY <1>0, <2>2, <2>3, <2>7, <3>1, <3>2, <3>3 DEF AnswerOK
  <2> QED
    BY <1>0, <2>6, <2>7, <2>8, <2>9, CallStepKeeps DEF MissOK
<1>4. CASE ~Live(rec) /\ To(c, "handler") /\ missed' = [missed EXCEPT ![c] = now] /\ UNCHANGED reply
  <2>1. TypeOK' /\ OnlyCall(c)
    BY <1>0, <1>4 DEF To, TypeOK, OnlyCall
  <2>2. at'[c] = "handler" /\ reply'[c] = None /\ missed'[c] = now
    BY <1>0, <1>4 DEF To, TypeOK
  <2>3. CallOK(c)' /\ TokenOK(c)'
    BY <1>0, <2>2 DEF CallOK, TokenOK
  <2>4. ASSUME NEW d \in before[c], stored[d] # None, Scope(c) = Scope(d)
        PROVE  now + Loss > stored[d] + TTL
    <3>1. d \in Calls
      BY DEF TypeOK
    <3>2. rec # None /\ stored[d] + TTL <= rec.expires + Loss
      BY <2>4, <3>1 DEF StoredInv
    <3>3. PICK r \in Record : r = rec
      BY <1>1, <3>2 DEF TypeOK
    <3>4. r.expires \in Nat
      BY DEF Record
    <3>5. ~(now <= r.expires)
      BY <1>4, <3>2, <3>3 DEF Live
    <3>6. stored[d] \in Nat /\ now \in Nat /\ TTL \in Nat
      BY <2>4, <3>1, GatewayAssumption DEF TypeOK
    <3> QED
      BY <3>2, <3>3, <3>4, <3>5, <3>6, LossType
  <2>5. Scope(c)' = Scope(c)
    BY <1>0 DEF Scope
  <2>6. MissOK(c)
    BY <1>0, <2>2, <2>4, <2>5 DEF MissOK
  <2> QED
    BY <1>0, <2>1, <2>2, <2>3, <2>6, CallStepKeeps DEF AnswerOK
<1> QED
  BY <1>2, <1>3, <1>4 DEF Lookup

LEMMA HandleStep ==
    ASSUME GatewayInv, NEW c \in Calls, Handle(c)
    PROVE  GatewayInv'
<1> USE DEF GatewayInv
<1>0. /\ at[c] = "handler" /\ msg[c] \in Messages /\ stored[c] = None
      /\ UNCHANGED <<env, now, cache, msg, tenant, before, stored, missed>>
      /\ \A d \in before[c] : at[d] = "over"
      /\ env = "prod" => msg[c].token \in Tenants
  BY DEF Handle, CallInv, TokenInv
<1>1. PICK code \in HandlerCodes(msg[c]) : reply' = [reply EXCEPT ![c] = [code |-> code, of |-> c]]
  BY DEF Handle, Write
<1>2. [code |-> code, of |-> c] \in Reply
  <2>1. code \in Codes
    BY DEF HandlerCodes, Codes
  <2> QED
    BY <2>1 DEF Reply
<1>3. \/ Keyed(msg[c]) /\ at' = [at EXCEPT ![c] = "store"]
      \/ at' = [at EXCEPT ![c] = "over"]
  BY DEF Handle, To
<1>4. TypeOK' /\ OnlyCall(c)
  BY <1>0, <1>1, <1>2, <1>3 DEF TypeOK, OnlyCall
<1>5. /\ at'[c] \in {"store", "over"} /\ reply'[c] # None /\ reply'[c].of = c
      /\ at'[c] = "store" => Keyed(msg[c])
  <2>1. reply'[c] = [code |-> code, of |-> c]
    BY <1>1 DEF TypeOK
  <2>2. reply'[c] # None /\ reply'[c].of = c
    BY <1>2, <2>1, SentinelAssumption
  <2>3. at'[c] \in {"store", "over"} /\ (at'[c] = "store" => Keyed(msg[c]))
    BY <1>3 DEF TypeOK
  <2> QED
    BY <2>2, <2>3
<1>6. CallOK(c)' /\ TokenOK(c)'
  BY <1>0, <1>5 DEF CallOK, TokenOK, Keyed
<1>7. MissOK(c)
  <2>1. Scope(c)' = Scope(c) /\ missed' = missed /\ before' = before
    BY <1>0 DEF Scope
  <2>2. ASSUME NEW d \in before[c], stored[d] # None, Scope(c) = Scope(d), missed[c] # None
        PROVE  missed[c] + Loss > stored[d] + TTL
    BY <2>2 DEF RetryIsReplayed, TypeOK
  <2> QED
    BY <2>1, <2>2 DEF MissOK
<1> QED
  BY <1>0, <1>4, <1>5, <1>6, <1>7, CallStepKeeps DEF AnswerOK

(* A record written now outlives every answer cached so far. *)
LEMMA StoreStep ==
    ASSUME GatewayInv, NEW c \in Calls, Store(c)
    PROVE  GatewayInv'
<1> USE DEF GatewayInv
<1>0. /\ at[c] = "store" /\ msg[c] \in Messages /\ Keyed(msg[c])
      /\ reply[c] # None /\ reply[c].of = c /\ stored[c] = None
      /\ UNCHANGED <<env, now, msg, tenant, reply, before, missed>>
      /\ at' = [at EXCEPT ![c] = "over"]
      /\ \A d \in before[c] : at[d] = "over"
      /\ env = "prod" => msg[c].token \in Tenants
  BY DEF Store, To, CallInv, TokenInv
<1>1. \A d \in Calls : Scope(d)' = Scope(d)
  BY <1>0 DEF Scope
<1>2. CASE UNCHANGED <<cache, stored>>
  <2>1. TypeOK' /\ OnlyCall(c)
    BY <1>0, <1>2 DEF TypeOK, OnlyCall
  <2>2. at'[c] = "over"
    BY <1>0 DEF TypeOK
  <2>3. CallOK(c)' /\ TokenOK(c)'
    BY <1>0, <2>2 DEF CallOK, TokenOK
  <2>4. MissOK(c)
    <3>1. ASSUME NEW d \in before[c], stored[d] # None, Scope(c) = Scope(d), missed[c] # None
          PROVE  missed[c] + Loss > stored[d] + TTL
      BY <3>1 DEF RetryIsReplayed, TypeOK
    <3> QED
      BY <1>0, <1>1, <3>1 DEF MissOK
  <2> QED
    BY <1>0, <1>2, <2>1, <2>3, <2>4, CallStepKeeps DEF AnswerOK
<1>3. CASE /\ cache' = [cache EXCEPT ![Scope(c)] =
                          [code |-> reply[c].code, of |-> c, expires |-> Rounded(now + TTL)]]
           /\ stored' = [stored EXCEPT ![c] = now]
  <2> DEFINE new == [code |-> reply[c].code, of |-> c, expires |-> Rounded(now + TTL)]
  <2>1. Scope(c) \in Scopes
    BY <1>0, ScopeType
  <2>2. PICK a \in Reply : a = reply[c]
    BY <1>0 DEF TypeOK
  <2>3. a.code \in Codes /\ a = [code |-> a.code, of |-> a.of]
    BY DEF Reply
  <2>4. /\ now \in Nat /\ TTL \in Nat /\ Rounded(now + TTL) \in Nat
        /\ now + TTL <= Rounded(now + TTL) + Loss
    <3>1. now \in Nat /\ TTL \in Nat /\ now + TTL \in Nat
      BY GatewayAssumption DEF TypeOK
    <3> QED
      BY <3>1, RoundedFacts
  <2>5. new \in Record
    BY <2>2, <2>3, <2>4 DEF Record
  <2>6. new # None
    BY <2>5, SentinelAssumption
  <2>7. /\ cache'[Scope(c)] = new
        /\ \A s \in Scopes : s # Scope(c) => cache'[s] = cache[s]
        /\ stored'[c] = now
        /\ \A d \in Calls \ {c} : stored'[d] = stored[d]
        /\ at'[c] = "over"
        /\ \A d \in Calls \ {c} : at'[d] = at[d]
    BY <1>0, <1>3, <2>1 DEF TypeOK
  <2> HIDE DEF new
  <2>8. TypeOK'
    <3>1. cache' \in [Scopes -> Record \cup {None}]
      BY <1>3, <2>5 DEF TypeOK, new
    <3>2. stored' \in [Calls -> Nat \cup {None}]
      BY <1>3, <2>4 DEF TypeOK
    <3> QED
      BY <1>0, <3>1, <3>2 DEF TypeOK
  <2>9. CallInv'
    BY <1>0, <2>7 DEF CallInv, TypeOK
  <2>10. CacheInv'
    <3>1. SUFFICES ASSUME NEW s \in Scopes, cache'[s] # None
                   PROVE  /\ at'[cache'[s].of] = "over"
                          /\ Scope(cache'[s].of) = s
                          /\ reply[cache'[s].of] = [code |-> cache'[s].code, of |-> cache'[s].of]
      BY <1>0 DEF CacheInv, Scope
    <3>2. CASE s = Scope(c)
      <4>1. new.of = c /\ new.code = a.code
        BY <2>2 DEF new
      <4> QED
        BY <1>0, <1>1, <2>2, <2>3, <2>7, <3>2, <4>1
    <3>3. CASE s # Scope(c)
      <4>1. PICK r \in Record : r = cache[s]
        BY <2>7, <3>1, <3>3 DEF TypeOK
      <4>2. r.of \in Calls
        BY DEF Record
      <4>3. /\ at[r.of] = "over" /\ Scope(r.of) = s
            /\ reply[r.of] = [code |-> r.code, of |-> r.of]
        BY <2>7, <3>1, <3>3, <4>1 DEF CacheInv
      <4> QED
        BY <1>1, <2>7, <3>3, <4>1, <4>2, <4>3
    <3> QED
      BY <3>2, <3>3
  <2>11. StoredInv'
    <3>1. SUFFICES ASSUME NEW d \in Calls, stored'[d] # None
                   PROVE  /\ Scope(d) \in Scopes
                          /\ cache'[Scope(d)] # None
                          /\ stored'[d] <= now
                          /\ stored'[d] + TTL <= cache'[Scope(d)].expires + Loss
      BY <1>0, <1>1 DEF StoredInv
    <3>2. Scope(d) \in Scopes /\ stored'[d] \in Nat /\ stored'[d] <= now
      BY <2>1, <2>4, <2>7, <2>8, <3>1 DEF StoredInv, TypeOK
    <3>3. new.expires = Rounded(now + TTL)
      BY DEF new
    <3>4. CASE Scope(d) = Scope(c)
      BY <2>4, <2>6, <2>7, <3>2, <3>3, <3>4, LossType
    <3>5. CASE Scope(d) # Scope(c)
      BY <2>7, <3>1, <3>2, <3>5 DEF StoredInv
    <3> QED
      BY <3>4, <3>5
  <2>12. ReplayInv'
    BY <1>0, <2>7 DEF ReplayInv, Replayed
  <2>13. TokenInv'
    BY <1>0, <2>7 DEF TokenInv
  <2>14. ReplayInScope'
    BY <1>0 DEF ReplayInScope, Replayed
  <2>15. RetryIsReplayed'
    <3>1. SUFFICES ASSUME NEW e \in Calls, NEW d \in Calls,
                          d \in before[e], stored'[d] # None, missed[e] # None,
                          Scope(e) = Scope(d)
                   PROVE  missed[e] + Loss > stored'[d] + TTL
      BY <1>0, <1>1 DEF RetryIsReplayed
    <3>2. d # c
      BY <1>0, <3>1 DEF CallInv
    <3> QED
      BY <2>7, <3>1, <3>2 DEF RetryIsReplayed
  <2> QED
    BY <2>8, <2>9, <2>10, <2>11, <2>12, <2>13, <2>14, <2>15
<1> QED
  BY <1>2, <1>3 DEF Store

LEMMA CrashStep == GatewayInv /\ Crash => GatewayInv'
<1> SUFFICES ASSUME GatewayInv, Crash PROVE GatewayInv'
  OBVIOUS
<1> USE DEF GatewayInv
<1>0. /\ UNCHANGED <<env, now, cache, msg, tenant, reply, before, stored, missed>>
      /\ \A c \in Calls : at'[c] = IF at[c] = "client" THEN "client" ELSE "over"
      /\ \A c \in Calls : Scope(c)' = Scope(c)
  BY DEF Crash, Scope
<1>1. TypeOK'
  BY DEF Crash, TypeOK
<1>2. CallInv'
  BY <1>0 DEF CallInv, TypeOK, Keyed
<1>3. CacheInv'
  <2>1. ASSUME NEW s \in Scopes, cache[s] # None
        PROVE  cache[s].of \in Calls
    <3>1. PICK rec \in Record : rec = cache[s]
      BY <2>1 DEF TypeOK
    <3> QED
      BY <3>1 DEF Record
  <2> QED
    BY <1>0, <2>1 DEF CacheInv
<1>4. StoredInv'
  BY <1>0 DEF StoredInv
<1>5. ReplayInv'
  <2>1. ASSUME NEW c \in Calls, Replayed(c)
        PROVE  reply[c].of \in Calls
    BY <2>1 DEF Replayed, TypeOK, Reply
  <2> QED
    BY <1>0, <2>1 DEF ReplayInv, Replayed
<1>6. TokenInv'
  BY <1>0 DEF TokenInv
<1>7. ReplayInScope'
  BY <1>0 DEF ReplayInScope, Replayed
<1>8. RetryIsReplayed'
  BY <1>0 DEF RetryIsReplayed
<1> QED
  BY <1>1, <1>2, <1>3, <1>4, <1>5, <1>6, <1>7, <1>8

LEMMA TickStep == GatewayInv /\ Tick => GatewayInv'
<1> SUFFICES ASSUME GatewayInv, Tick PROVE GatewayInv'
  OBVIOUS
<1> USE DEF GatewayInv
<1>0. /\ now \in Nat /\ now' = now + 1 /\ now' \in Nat
      /\ UNCHANGED <<env, cache, at, msg, tenant, reply, before, stored, missed>>
      /\ \A c \in Calls : Scope(c)' = Scope(c)
  BY DEF Tick, callVars, Scope, TypeOK
<1>1. TypeOK'
  BY <1>0 DEF TypeOK
<1>2. CallInv' /\ CacheInv' /\ ReplayInv' /\ TokenInv'
  BY <1>0 DEF CallInv, CacheInv, ReplayInv, TokenInv, Replayed, Scope
<1>3. StoredInv'
  <2>1. ASSUME NEW d \in Calls, stored[d] # None
        PROVE  stored[d] \in Nat
    BY <2>1 DEF TypeOK
  <2>2. ASSUME NEW d \in Calls, stored[d] # None
        PROVE  stored[d] <= now'
    BY <1>0, <2>1, <2>2 DEF StoredInv
  <2> QED
    BY <1>0, <2>2 DEF StoredInv
<1>4. ReplayInScope' /\ RetryIsReplayed'
  BY <1>0 DEF ReplayInScope, RetryIsReplayed, Replayed
<1> QED
  BY <1>1, <1>2, <1>3, <1>4

THEOREM GatewayInvHolds == Spec => []GatewayInv
<1>1. GatewayInv /\ [Next]_vars => GatewayInv'
  <2> SUFFICES ASSUME GatewayInv, [Next]_vars PROVE GatewayInv'
    OBVIOUS
  <2>1. CASE UNCHANGED vars
    BY <2>1 DEF vars, callVars, GatewayInv, TypeOK, CallInv, CacheInv, StoredInv, ReplayInv,
                TokenInv, ReplayInScope, RetryIsReplayed, Replayed, Scope
  <2>2. CASE Next
    BY <2>2, ArriveStep, AuthStep, TenantStep, LookupStep, HandleStep, StoreStep, CrashStep,
       TickStep DEF Next, CallStep
  <2> QED
    BY <2>1, <2>2
<1> QED
  BY InvInit, <1>1, PTL DEF Spec

(* Type correctness of the gateway. *)
THEOREM TypeCorrect == Spec => []TypeOK
<1>1. GatewayInv => TypeOK
  BY DEF GatewayInv
<1> QED
  BY GatewayInvHolds, <1>1, PTL

(* IdempotencyMiddleware never answers a call with what another tenant,    *)
(* endpoint or key was answered, however the calls interleave.             *)
THEOREM ReplayInScopeHolds == Spec => []ReplayInScope
<1>1. GatewayInv => ReplayInScope
  BY DEF GatewayInv
<1> QED
  BY GatewayInvHolds, <1>1, PTL

(* Once an answer is cached a later call in its scope does not run the     *)
(* handler before TTL is over, but for what the expires_at column rounds   *)
(* off: a PutIdempotency that comes late only extends the life of the      *)
(* record.                                                                 *)
THEOREM RetryIsReplayedHolds == Spec => []RetryIsReplayed
<1>1. GatewayInv => RetryIsReplayed
  BY DEF GatewayInv
<1> QED
  BY GatewayInvHolds, <1>1, PTL

(* In production neither the handler nor the cache answers a call without  *)
(* a valid token.                                                          *)
THEOREM AnswersAuthenticatedHolds == Spec => []AnswersAuthenticated
<1>1. GatewayInv => AnswersAuthenticated
  BY GatewayAssumption DEF GatewayInv, TokenInv, AnswersAuthenticated, Executed, Replayed
<1> QED
  BY GatewayInvHolds, <1>1, PTL
=============================================================================
