----------------------------- MODULE KeyGateway -----------------------------
(***************************************************************************)
(* API keys in front of the orchestrator (gateway/keys.py, auth.py,        *)
(* oauth.py, api/admin.py, api/oauth.py, the checks of api/routes.py and   *)
(* the MCP endpoint): who may start a run, how often, and up to which      *)
(* cost.                                                                   *)
(*                                                                         *)
(* Every handler runs on the event loop. Those of the REST endpoints await *)
(* nothing between reading the key's row and starting the run, so such a   *)
(* request is one step; what interleaves with it is the end of the runs it *)
(* started before, which charge the key. A request of the MCP endpoint is  *)
(* checked, and then awaits the MCP application, whose tool starts the run *)
(* at any later time. Costs are in millionths of a dollar, to which the    *)
(* code rounds them. Abstracted: key material and hashes, names, token     *)
(* counts, and request_count and last_used_at, which are only displayed.   *)
(***************************************************************************)
EXTENDS RateLimiter, FiniteSets

CONSTANTS
    Caps,        \* the spend caps an administrator sets
    None,        \* spend_cap_usd = null, no cap
    MaxRunCost,  \* what one run can cost at most
    Ttl,         \* oauth_token_ttl_seconds
    MaxNow, MaxBoots, MaxRunning, MaxMcp, MaxTokens \* bounds

ASSUME CostAssumption == Caps \subseteq Nat /\ None \notin Nat /\ MaxRunCost \in Nat
ASSUME TokenAssumption == Ttl \in Nat
ASSUME BoundAssumption == {MaxNow, MaxBoots, MaxRunning, MaxMcp, MaxTokens} \subseteq Nat

VARIABLES
    status, cost, cap, \* table api_keys: absent, active or revoked; the rest
    running,     \* runs in flight which will charge the key
    admitted,    \* MCP requests past the check, whose tool has not been called
    mcp,         \* runs in flight of the MCP endpoint, which charge nobody
    tokens,      \* access tokens handed out
    boot,        \* the process: one more with every restart
    secret,      \* what tokens are signed with: the process that first had it
    ready,       \* app.state.sandbox_ready
    peak,        \* history: the most runs the key had in flight
    promise      \* history: the highest cap a run of the key was let in under

table == <<status, cost, cap>>
flight == <<running, admitted, mcp, peak, promise>>
vars == <<limiter, table, flight, tokens, boot, secret, ready>>

\* The claims that matter; the scopes other than orchestrate:run guard nothing.
Token == [sub : Keys, run : BOOLEAN, exp : Nat, secret : Nat]

Init ==
    /\ LimiterInit
    /\ status = [k \in Keys |-> "absent"]
    /\ cost = [k \in Keys |-> 0]
    /\ cap = [k \in Keys |-> None]
    /\ running = [k \in Keys |-> 0]
    /\ admitted = [k \in Keys |-> 0]
    /\ mcp = [k \in Keys |-> 0]
    /\ tokens = {}
    /\ boot = 0 /\ secret = 0
    /\ ready \in BOOLEAN
    /\ peak = [k \in Keys |-> 0]
    /\ promise = [k \in Keys |-> 0]
-----------------------------------------------------------------------------
(* The administrator. *)

Create(k) ==
    /\ status[k] = "absent"
    /\ status' = [status EXCEPT ![k] = "active"]
    /\ UNCHANGED <<limiter, cost, cap, flight, tokens, boot, secret, ready>>

Revoke(k) ==
    /\ status[k] = "active"
    /\ status' = [status EXCEPT ![k] = "revoked"]
    /\ UNCHANGED <<limiter, cost, cap, flight, tokens, boot, secret, ready>>

\* Of a revoked key, too.
SetSpendCap(k, c) ==
    /\ status[k] # "absent"
    /\ cap' = [cap EXCEPT ![k] = c]
    /\ UNCHANGED <<limiter, status, cost, flight, tokens, boot, secret, ready>>
-----------------------------------------------------------------------------
(* Credentials: the key itself, or a token issued to it. *)

\* POST /oauth/token.
IssueToken(k, run) ==
    /\ status[k] = "active"
    /\ Cardinality(tokens) < MaxTokens
    /\ tokens' = tokens \cup {[sub |-> k, run |-> run, exp |-> now + Ttl, secret |-> secret]}
    /\ UNCHANGED <<limiter, table, flight, boot, secret, ready>>

Validates(t) == t.exp > now /\ t.secret = secret

\* Faulty variant: a valid token is enough, its key is not looked up again.
ResolveUnchecked(k, scoped) ==
    \/ status[k] = "active"
    \/ \E t \in tokens : t.sub = k /\ Validates(t) /\ (scoped => t.run)

\* resolve_principal returns the record of k for some credential.
Resolve(k, scoped) ==
    \/ status[k] = "active"
    \/ \E t \in tokens : t.sub = k /\ Validates(t) /\ (scoped => t.run) /\ status[k] = "active"
-----------------------------------------------------------------------------
(* Requests. *)

\* require_api_key answers 429.
TooMany(k) ==
    /\ Resolve(k, FALSE)
    /\ Refuse(k)
    /\ UNCHANGED <<table, flight, tokens, boot, secret, ready>>

\* Faulty variant: a key that has spent exactly its cap is not over it.
OverCapStrictly(k) == cap[k] # None /\ cost[k] > cap[k]

OverCap(k) == cap[k] # None /\ cost[k] >= cap[k]

\* A request that starts no run: GET /v1/runs/{id}, the skills and templates,
\* and a start answered 503 (no sandbox) or 402 (over the cap).
Lookup(k) ==
    /\ Resolve(k, FALSE)
    /\ Allow(k)
    /\ UNCHANGED <<table, flight, tokens, boot, secret, ready>>

\* The three endpoints that start a run: authentication and rate limit first,
\* then the sandbox, then the cap.
StartRun(k) ==
    /\ Resolve(k, FALSE)
    /\ Allow(k)
    /\ ready /\ ~OverCap(k)
    /\ running[k] < MaxRunning
    /\ running' = [running EXCEPT ![k] = @ + 1]
    /\ peak' = [peak EXCEPT ![k] = IF @ > running[k] THEN @ ELSE running[k] + 1]
    /\ promise' = [promise EXCEPT ![k] =
                     IF cap[k] = None \/ @ = None THEN None
                     ELSE IF cap[k] > @ THEN cap[k] ELSE @]
    /\ UNCHANGED <<table, admitted, mcp, tokens, boot, secret, ready>>

\* add_usage when the run has ended, whatever became of the key meanwhile.
FinishRun(k, c) ==
    /\ running[k] > 0
    /\ running' = [running EXCEPT ![k] = @ - 1]
    /\ cost' = [cost EXCEPT ![k] = @ + c]
    /\ UNCHANGED <<limiter, status, cap, admitted, mcp, peak, promise, tokens, boot, secret, ready>>

\* The run raised: nothing is charged.
FailRun(k) ==
    /\ running[k] > 0
    /\ running' = [running EXCEPT ![k] = @ - 1]
    /\ UNCHANGED <<limiter, table, admitted, mcp, peak, promise, tokens, boot, secret, ready>>

\* MCPAuthMiddleware: no rate limit, no sandbox check, no cap.
McpAdmit(k) ==
    /\ Resolve(k, TRUE)
    /\ admitted[k] + mcp[k] < MaxMcp
    /\ admitted' = [admitted EXCEPT ![k] = @ + 1]
    /\ UNCHANGED <<limiter, table, running, mcp, peak, promise, tokens, boot, secret, ready>>

\* Faulty variant: the tool starts a run for whoever sends it a message.
McpStartAnyone(k) ==
    /\ mcp[k] < MaxMcp
    /\ mcp' = [mcp EXCEPT ![k] = @ + 1]
    /\ UNCHANGED <<limiter, table, running, admitted, peak, promise, tokens, boot, secret, ready>>

\* The orchestrate tool, on the request of one that was admitted: it looks at no key
\* again, and nothing is charged at its end.
McpStart(k) ==
    /\ admitted[k] > 0
    /\ admitted' = [admitted EXCEPT ![k] = @ - 1]
    /\ mcp' = [mcp EXCEPT ![k] = @ + 1]
    /\ UNCHANGED <<limiter, table, running, peak, promise, tokens, boot, secret, ready>>

\* The request was another one of the protocol, was malformed, or its client left.
McpPasses(k) ==
    /\ admitted[k] > 0
    /\ admitted' = [admitted EXCEPT ![k] = @ - 1]
    /\ UNCHANGED <<limiter, table, running, mcp, peak, promise, tokens, boot, secret, ready>>

McpEnd(k) ==
    /\ mcp[k] > 0
    /\ mcp' = [mcp EXCEPT ![k] = @ - 1]
    /\ UNCHANGED <<limiter, table, running, admitted, peak, promise, tokens, boot, secret, ready>>
-----------------------------------------------------------------------------
Pass ==
    /\ now < MaxNow
    /\ Tick
    /\ UNCHANGED <<table, flight, tokens, boot, secret, ready>>

\* The table and the tokens outlive the process; its requests, runs and deques do not.
\* So does a signing key that is configured, or an admin token in its place; otherwise
\* a new one is drawn. preflight decides ready anew.
Restart ==
    /\ boot < MaxBoots
    /\ boot' = boot + 1
    /\ secret' \in {secret, boot'}
    /\ ready' \in BOOLEAN
    /\ Forget
    /\ running' = [k \in Keys |-> 0]
    /\ admitted' = [k \in Keys |-> 0]
    /\ mcp' = [k \in Keys |-> 0]
    /\ UNCHANGED <<table, tokens, peak, promise>>

Admin(k) == Create(k) \/ Revoke(k) \/ \E c \in Caps \cup {None} : SetSpendCap(k, c)
Request(k) == TooMany(k) \/ Lookup(k) \/ StartRun(k) \/ McpAdmit(k) \/ \E run \in BOOLEAN : IssueToken(k, run)
McpDispatch(k) == McpStart(k) \/ McpPasses(k)
End(k) == FailRun(k) \/ McpEnd(k) \/ \E c \in 0 .. MaxRunCost : FinishRun(k, c)
Next == Pass \/ Restart \/ \E k \in Keys : Admin(k) \/ Request(k) \/ McpDispatch(k) \/ End(k)

Spec == Init /\ [][Next]_vars
-----------------------------------------------------------------------------
(* Correctness. *)

TypeOK ==
    /\ LimiterTypeOK
    /\ status \in [Keys -> {"absent", "active", "revoked"}]
    /\ cost \in [Keys -> Nat]
    /\ cap \in [Keys -> Caps \cup {None}]
    /\ running \in [Keys -> Nat]
    /\ admitted \in [Keys -> Nat]
    /\ mcp \in [Keys -> Nat]
    /\ tokens \subseteq Token
    /\ boot \in Nat /\ secret \in Nat
    /\ ready \in BOOLEAN
    /\ peak \in [Keys -> Nat]
    /\ promise \in [Keys -> Nat \cup {None}]

\* Once a key is revoked, neither it nor a token issued to it before opens the gateway
\* again, at any endpoint and after any restart, and it gets no further token. What a
\* check has admitted may go on: an MCP request that was past it when the key was
\* revoked can still start its run, one run for each such request and no more.
RevokedOpensNothing ==
    [][\A k \in Keys : status[k] # "active" =>
         /\ Len(grants'[k]) <= Len(grants[k])
         /\ running'[k] <= running[k]
         /\ admitted'[k] <= admitted[k]
         /\ admitted'[k] + mcp'[k] <= admitted[k] + mcp[k]
         /\ {t \in tokens' : t.sub = k} \subseteq tokens]_vars

\* The cap is checked at the start of a run and charged at its end: the runs in
\* flight can carry a key past the cap it was let in under, but by less than
\* what as many runs cost as the key ever had in flight at once.
OvershootBounded ==
    \A k \in Keys : promise[k] # None /\ peak[k] > 0 =>
        cost[k] + MaxRunCost * running[k] < promise[k] + MaxRunCost * peak[k]
=============================================================================
