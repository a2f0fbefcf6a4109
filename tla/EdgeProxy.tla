------------------------------- MODULE EdgeProxy -------------------------------
(***************************************************************************)
(* The Cloudflare worker every browser request goes through: it counts the *)
(* requests of a client to a path in a key-value store, answers 429 beyond *)
(* a limit, and relays the others to the backend.                          *)
(*                                                                         *)
(* The store has no increment: the worker reads the count, compares it,    *)
(* and writes the successor back, so two requests served together may      *)
(* write the same number.  Each write renews the expiry of the key: the    *)
(* window closes only after a pause, and a request that is refused does    *)
(* not write.  One client is modelled: the counts of two addresses do not  *)
(* touch each other.                                                       *)
(***************************************************************************)
EXTENDS Naturals

CONSTANTS
    Requests,   \* requests of the client in flight together (bound)
    Paths,      \* paths in use, each the set of the fragments it includes
    Limits,     \* [login, register, status, orders, other |-> requests]
    Window      \* expirationTtl, in ticks

ASSUME EdgeConstants ==
    /\ Paths \subseteq SUBSET STRING
    /\ Limits \in [{"login", "register", "status", "orders", "other"} -> Nat \ {0}]
    /\ Window \in Nat \ {0}

VARIABLES
    kv,     \* rate:path:ip -> count, and the ticks before the key expires
    hop     \* where each request is

edgeVars == <<kv, hop>>

NoPath == {}

\* get: before RATE_LIMITS.get; put: let through, count not written yet; forward:
\* before the backend; passed: in the backend's hands; answered: by the backend;
\* limited, unavailable: by the worker itself, with 429 or 502; asset: from ASSETS.
Places == {"free", "get", "put", "forward", "passed", "answered", "limited",
           "unavailable", "asset"}

Hops == [at: Places, path: Paths \cup {NoPath}, seen: Nat]

FreeHop == [at |-> "free", path |-> NoPath, seen |-> 0]

EdgeInit ==
    /\ kv = [p \in Paths |-> [count |-> 0, ttl |-> 0]]
    /\ hop = [r \in Requests |-> FreeHop]

EdgeTypeOK ==
    /\ kv \in [Paths -> [count: Nat, ttl: 0..Window]]
    /\ hop \in [Requests -> Hops]

-----------------------------------------------------------------------------
\* Redirections of /r/, /p/ and the Meta callback are relayed, never followed.
IsRedirectToBrowser(path) == path \cap {"/r/", "/p/", "/api/meta/oauth/"} # {}

IsBackendRoute(path) == path \cap {"/api/", "/ws/", "/p/", "/feed/", "/sitemap.xml"} # {}

Relayed(path) == IsBackendRoute(path) \/ IsRedirectToBrowser(path)

\* Mutant: "/orders" is tested before "/orders/status", as before 2026-09-05.
RateLimit_OrdersFirst(path) ==
    IF "/orders" \in path THEN Limits.orders
    ELSE IF "/orders/status" \in path THEN Limits.status
    ELSE Limits.other

\* getRateLimit: the first fragment the path includes decides.
RateLimit(path) ==
    IF "/auth/login" \in path THEN Limits.login
    ELSE IF "/auth/register" \in path THEN Limits.register
    ELSE IF "/orders/status" \in path THEN Limits.status
    ELSE IF "/orders" \in path THEN Limits.orders
    ELSE Limits.other

ReceivedHop(path) == [at |-> IF Relayed(path) THEN "get" ELSE "asset", path |-> path, seen |-> 0]

\* The browser sends request r.
Receive(r, path) ==
    /\ hop[r] = FreeHop
    /\ hop' = [hop EXCEPT ![r] = ReceivedHop(path)]
    /\ UNCHANGED kv

\* Mutant: a refused request also renews the key.
GetCount_PutsWhenRefused(r) ==
    LET path == hop[r].path IN
    /\ hop[r].at = "get"
    /\ IF kv[path].count >= RateLimit(path)
       THEN /\ hop' = [hop EXCEPT ![r].at = "limited"]
            /\ kv' = [kv EXCEPT ![path].ttl = Window]
       ELSE /\ hop' = [hop EXCEPT ![r].at = "put", ![r].seen = kv[path].count]
            /\ UNCHANGED kv

\* checkRateLimit up to its comparison.
GetCount(r) ==
    LET path == hop[r].path IN
    /\ hop[r].at = "get"
    /\ hop' = IF kv[path].count >= RateLimit(path)
              THEN [hop EXCEPT ![r].at = "limited"]
              ELSE [hop EXCEPT ![r].at = "put", ![r].seen = kv[path].count]
    /\ UNCHANGED kv

\* Mutant: the expiry is added to what is left of the previous one.
PutCount_AddsUp(r) ==
    LET path == hop[r].path IN
    /\ hop[r].at = "put"
    /\ kv' = [kv EXCEPT ![path] = [count |-> hop[r].seen + 1, ttl |-> @.ttl + Window]]
    /\ hop' = [hop EXCEPT ![r].at = "forward"]

\* ... and its put, of the successor of what was read.
PutCount(r) ==
    /\ hop[r].at = "put"
    /\ kv' = [kv EXCEPT ![hop[r].path] = [count |-> hop[r].seen + 1, ttl |-> Window]]
    /\ hop' = [hop EXCEPT ![r].at = "forward"]

\* fetch(targetUrl): the backend takes the request ...
Forward(r) ==
    /\ hop[r].at = "forward"
    /\ hop' = [hop EXCEPT ![r].at = "passed"]
    /\ UNCHANGED kv

\* ... or the worker answers 502 in its place.
BackendUnavailable(r) ==
    /\ hop[r].at = "forward"
    /\ hop' = [hop EXCEPT ![r].at = "unavailable"]
    /\ UNCHANGED kv

\* The backend's response is handed to the browser as it is.
RelayResponse(r) ==
    /\ hop[r].at = "passed"
    /\ hop' = [hop EXCEPT ![r].at = "answered"]
    /\ UNCHANGED kv

\* One tick older, a key at the end of its life is gone.
Aged ==
    [p \in Paths |-> IF kv[p].ttl <= 1 THEN [count |-> 0, ttl |-> 0]
                     ELSE [kv[p] EXCEPT !.ttl = @ - 1]]

\* The worker's own steps; Forward and RelayResponse are steps of the backend too.
EdgeStep(r) == GetCount(r) \/ PutCount(r) \/ BackendUnavailable(r)

EdgeFairness == \A r \in Requests :
    /\ WF_edgeVars(GetCount(r))
    /\ WF_edgeVars(PutCount(r))
=============================================================================
