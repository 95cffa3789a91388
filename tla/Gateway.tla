------------------------------ MODULE Gateway ------------------------------
(***************************************************************************)
(* What a call passes before it reaches an upsert handler, in the order    *)
(* cmd/api/main.go wires it: AuthMiddleware, TenantMiddleware, then the    *)
(* IdempotencyMiddleware of the endpoint, which caches answers in table    *)
(* idempotency for TTL.  Calls run concurrently; the cache is read before  *)
(* the handler runs and written after it, in two statements.               *)
(*                                                                         *)
(* The handler is one step here that answers in one of the ways            *)
(* UpsertHandlers can end.  An answer is identified by the call whose      *)
(* handler produced it: it carries a run id.                               *)
(***************************************************************************)
EXTENDS Naturals, FiniteSets

CONSTANTS Calls,         \* HTTP calls
          Messages,      \* what clients send
          Tenants,       \* tenant ids
          DefaultTenant, \* tenantctx.DefaultTenantID
          Endpoints,     \* the two upsert endpoints
          IdemKeys,      \* Idempotency-Key values
          None,          \* a header that is missing, a record that does not exist
          Bad,           \* a token or a tenant header that is not valid
          Envs,          \* the values Config.Env may have
          TTL,           \* life of a cached answer (24 hours)
          Second,        \* a second, in units of the clock: what TIMESTAMP resolves
          MaxNow,        \* bound on the clock
          TenantRows,    \* the tenants that have a row in table tenants
          Faults         \* Store calls may fail and the process may die

Message == [method : {"GET", "POST", "PUT"}, endpoint : Endpoints,
            token : Tenants \cup {None, Bad},    \* Authorization
            header : Tenants \cup {None, Bad},   \* X-Tenant-ID
            key : IdemKeys \cup {None}]          \* Idempotency-Key

ASSUME GatewayAssumption ==
    /\ Messages \subseteq Message
    /\ DefaultTenant \in Tenants
    /\ None \notin Tenants \cup IdemKeys \cup Calls \cup {Bad}
    /\ Bad \notin Tenants
    /\ Envs \subseteq {"dev", "prod"}
    /\ TTL \in Nat /\ MaxNow \in Nat /\ Second \in Nat \ {0}
    /\ TenantRows \subseteq Tenants
    /\ Faults \in BOOLEAN

VARIABLES env,      \* Config.Env, read at start-up
          now,      \* the clock
          cache,    \* table idempotency: [scope -> record or None]
          at,       \* where a call is
          msg,      \* what it carries
          tenant,   \* the tenant in its context
          reply,    \* the answer the client got
          before,   \* history: the calls that were over when it arrived
          stored,   \* history: when its answer was cached
          missed    \* history: when its lookup found nothing

callVars == <<at, msg, tenant, reply, before, stored, missed>>
vars == <<env, now, cache, callVars>>

(* The primary key of table idempotency. *)
Scopes == Tenants \X Endpoints \X IdemKeys

Codes == {200, 400, 401, 405, 500}

(* status_code, response_body_json and expires_at. *)
Record == [code : Codes, of : Calls, expires : Nat]

(* An answer: its status and the call whose handler wrote its body, if any *)
(* did.                                                                    *)
Reply == [code : Codes, of : Calls \cup {None}]

ASSUME SentinelAssumption == None \notin Record /\ None \notin Reply /\ None \notin Nat

TypeOK ==
    /\ env \in Envs
    /\ now \in Nat
    /\ cache \in [Scopes -> Record \cup {None}]
    /\ at \in [Calls -> {"client", "auth", "tenant", "lookup", "handler", "store", "over"}]
    /\ msg \in [Calls -> Messages \cup {None}]
    /\ tenant \in [Calls -> Tenants]
    /\ reply \in [Calls -> Reply \cup {None}]
    /\ before \in [Calls -> SUBSET Calls]
    /\ stored \in [Calls -> Nat \cup {None}]
    /\ missed \in [Calls -> Nat \cup {None}]

Init ==
    /\ env \in Envs
    /\ now = 0
    /\ cache = [s \in Scopes |-> None]
    /\ at = [c \in Calls |-> "client"]
    /\ msg = [c \in Calls |-> None]
    /\ tenant = [c \in Calls |-> DefaultTenant]
    /\ reply = [c \in Calls |-> None]
    /\ before = [c \in Calls |-> {}]
    /\ stored = [c \in Calls |-> None]
    /\ missed = [c \in Calls |-> None]

To(c, place) == at' = [at EXCEPT ![c] = place]

Write(c, code, of) == reply' = [reply EXCEPT ![c] = [code |-> code, of |-> of]]

(* The middleware answers the call itself. *)
Refuse(c, code) == To(c, "over") /\ Write(c, code, None)
-----------------------------------------------------------------------------
(* A client sends a message, perhaps one it sent before. *)
Arrive(c, m) ==
    /\ at[c] = "client"
    /\ msg' = [msg EXCEPT ![c] = m]
    /\ before' = [before EXCEPT ![c] = {d \in Calls : at[d] = "over"}]
    /\ To(c, "auth")
    /\ UNCHANGED <<env, now, cache, tenant, reply, stored, missed>>

(* Mutant: the exception for local testing is not limited to dev. *)
MayPassUnauthenticated_Anywhere(c) == tenant[c] # DefaultTenant \/ msg[c].token = None

(* In dev a call may come without a token, or with a tenant that is        *)
(* already in its context.                                                 *)
MayPassUnauthenticated(c) ==
    env = "dev" /\ (tenant[c] # DefaultTenant \/ msg[c].token = None)

AuthMiddleware(c) ==
    /\ at[c] = "auth"
    /\ \/ /\ MayPassUnauthenticated(c)
          /\ To(c, "tenant")
          /\ UNCHANGED <<tenant, reply>>
       \/ /\ ~MayPassUnauthenticated(c)
          /\ msg[c].token \in {None, Bad}
          /\ Refuse(c, 401)
          /\ UNCHANGED tenant
       \/ /\ ~MayPassUnauthenticated(c)
          /\ msg[c].token \in Tenants
          /\ tenant' = [tenant EXCEPT ![c] = msg[c].token]
          /\ To(c, "tenant")
          /\ UNCHANGED reply
    /\ UNCHANGED <<env, now, cache, msg, before, stored, missed>>

(* The mux hands the call to IdempotencyMiddleware, which passes on what   *)
(* is not a write or has no key.                                           *)
Keyed(m) == m.method # "GET" /\ m.key # None

TenantMiddleware(c) ==
    /\ at[c] = "tenant"
    /\ LET header == IF env = "dev" THEN msg[c].header ELSE None
       IN  \/ /\ header = Bad
              /\ Refuse(c, 400)
              /\ UNCHANGED tenant
           \/ /\ header # Bad
              /\ tenant' = [tenant EXCEPT ![c] = IF header = None THEN DefaultTenant ELSE header]
              /\ To(c, IF Keyed(msg[c]) THEN "lookup" ELSE "handler")
              /\ UNCHANGED reply
    /\ UNCHANGED <<env, now, cache, msg, before, stored, missed>>
-----------------------------------------------------------------------------
(* Mutant: the cache is shared by all tenants. *)
Scope_AllTenants(c) == <<DefaultTenant, msg[c].endpoint, msg[c].key>>

Scope(c) == <<tenant[c], msg[c].endpoint, msg[c].key>>

(* Mutant: a record is taken to be expired one unit too early. *)
Live_TooShort(rec) == rec # None /\ now < rec.expires

Live(rec) == rec # None /\ now <= rec.expires

(* GetIdempotency.  A cached answer is written with its status. *)
Lookup(c) ==
    /\ at[c] = "lookup"
    /\ LET rec == cache[Scope(c)]
       IN  \/ /\ Faults
              /\ Refuse(c, 500)
              /\ UNCHANGED missed
           \/ /\ Live(rec)
              /\ To(c, "over")
              /\ Write(c, rec.code, rec.of)
              /\ UNCHANGED missed
           \/ /\ ~Live(rec)
              /\ To(c, "handler")
              /\ missed' = [missed EXCEPT ![c] = now]
              /\ UNCHANGED reply
    /\ UNCHANGED <<env, now, cache, msg, tenant, before, stored>>

(* Mutant: the recorder's zero status is passed on. *)
HandlerCodes_Zero(m) == IF m.method = "POST" THEN {0, 200, 500} ELSE {405}

(* The wrapped handler: it only takes POST, and succeeds or fails; which   *)
(* failure makes no difference to the middleware.                          *)
HandlerCodes(m) == IF m.method = "POST" THEN {200, 500} ELSE {405}

(* The handler runs and its answer is written to the client. *)
Handle(c) ==
    /\ at[c] = "handler"
    /\ \E code \in HandlerCodes(msg[c]) : Write(c, code, c)
    /\ To(c, IF Keyed(msg[c]) THEN "store" ELSE "over")
    /\ UNCHANGED <<env, now, cache, msg, tenant, before, stored, missed>>

(* The body column wants JSON, so the empty body of a 405 is refused, and  *)
(* the record references its tenant's row.                                 *)
Storable(c) == reply[c].code # 405 /\ tenant[c] \in TenantRows

(* What a TIMESTAMP column keeps of a time: the nearest whole second. *)
Rounded(t) ==
    LET part == t % Second
    IN  IF 2 * part < Second THEN t - part ELSE t + (Second - part)

(* PutIdempotency, an upsert; an error is dropped, the answer being out    *)
(* already.                                                                *)
Store(c) ==
    /\ at[c] = "store"
    /\ \/ /\ Storable(c)
          /\ cache' = [cache EXCEPT ![Scope(c)] =
                          [code |-> reply[c].code, of |-> c, expires |-> Rounded(now + TTL)]]
          /\ stored' = [stored EXCEPT ![c] = now]
       \/ /\ ~Storable(c) \/ Faults
          /\ UNCHANGED <<cache, stored>>
    /\ To(c, "over")
    /\ UNCHANGED <<env, now, msg, tenant, reply, before, missed>>

(* The API process dies, after 10 seconds of grace at a shutdown: calls    *)
(* end where they are.                                                     *)
Crash ==
    /\ Faults
    /\ \E c \in Calls : at[c] \notin {"client", "over"}
    /\ at' = [c \in Calls |-> IF at[c] = "client" THEN "client" ELSE "over"]
    /\ UNCHANGED <<env, now, cache, msg, tenant, reply, before, stored, missed>>

Tick ==
    /\ now < MaxNow
    /\ now' = now + 1
    /\ UNCHANGED <<env, cache, callVars>>

CallStep(c) ==
    AuthMiddleware(c) \/ TenantMiddleware(c) \/ Lookup(c) \/ Handle(c) \/ Store(c)

Next ==
    \/ \E c \in Calls : \/ \E m \in Messages : Arrive(c, m)
                        \/ CallStep(c)
    \/ Crash
    \/ Tick

Spec == Init /\ [][Next]_vars
-----------------------------------------------------------------------------
(* The handler was run for c. *)
Executed(c) == reply[c] # None /\ reply[c].of = c

(* The answer of c came out of the cache. *)
Replayed(c) == reply[c] # None /\ reply[c].of \notin {None, c}

(* A replayed answer is, status and body, the one a call of the same       *)
(* tenant with the same key got from the same endpoint: the middleware     *)
(* never mixes up tenants, endpoints or keys.                              *)
ReplayInScope ==
    \A c \in Calls : Replayed(c) =>
        LET d == reply[c].of
        IN  /\ tenant[d] = tenant[c]
            /\ msg[d].endpoint = msg[c].endpoint /\ msg[d].key = msg[c].key
            /\ reply[c] = reply[d]

(* What rounding may take off the life of a record: less than half a       *)
(* second.                                                                 *)
Loss == (Second - 1) \div 2

(* A call repeated after the first one was answered and cached does not    *)
(* run the handler again until TTL is over, but for what the expires_at    *)
(* column rounds off, whatever other calls with the key do in between.     *)
RetryIsReplayed ==
    \A c, d \in Calls :
        (/\ d \in before[c] /\ stored[d] # None /\ missed[c] # None
         /\ Scope(c) = Scope(d))
        => missed[c] + Loss > stored[d] + TTL

(* In production neither the handler nor the cache answers a call without  *)
(* a valid token.                                                          *)
AnswersAuthenticated ==
    \A c \in Calls : env = "prod" /\ (Executed(c) \/ Replayed(c)) => msg[c].token \in Tenants

(* In production a call that reaches the handler is served for the tenant  *)
(* its token names.                                                        *)
TenantFromToken ==
    \A c \in Calls : env = "prod" /\ Executed(c) => tenant[c] = msg[c].token
=============================================================================
