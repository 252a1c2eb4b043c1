--------------------------- MODULE EgressApproval ---------------------------
(***************************************************************************)
(* The human-approval gate for outbound hosts: EgressApprovalStore and     *)
(* EgressPolicy (sandbox/egress_approval.py, sandbox/egress.py), asked by  *)
(* the request_egress tool on the runs' worker threads, decided by an      *)
(* admin on the event loop, enforced by the threads of the proxy.          *)
(*                                                                         *)
(* The store and the policy each have a lock; what happens under one lock  *)
(* is one step, and what is between two locks can be interleaved.  Admin   *)
(* requests are handled on the event loop, one at a time.                  *)
(*                                                                         *)
(* Abstracted: a name is a host together with the form it is written in,   *)
(* after strip() and lower(); reasons and times are left out, and so are   *)
(* blank hosts, which are refused before anything is looked at.            *)
(***************************************************************************)
EXTENDS Integers, Sequences, FiniteSets

CONSTANTS
    Agents,      \* worker threads whose runs call request_egress
    Hosts, Under,\* host names; Under[h]: the names that end with "." + h
    Configured,  \* the names of SANDBOX_EGRESS_ALLOWLIST
    Asked,       \* the names the agents ask for
    MaxRequests, \* bound: requests filed while the process lives
    MaxRestarts  \* bound: restarts of the process

\* host, "host." and "*.host".
Names == [form : {"plain", "rooted", "wild"}, host : Hosts]

ASSUME UnderAssumption == Under \in [Hosts -> SUBSET Hosts]
ASSUME NamesAssumption == Configured \subseteq Names /\ Asked \subseteq Names
ASSUME BoundAssumption == MaxRequests \in Nat /\ MaxRestarts \in Nat

VARIABLES
    allowlist, \* EgressPolicy: the entries added to _exact and _suffixes
    requests,  \* EgressApprovalStore._requests, in insertion order
    agent,     \* where each agent is in request_egress
    told,      \* what the tool answered the agent last
    adding,    \* the request approve() has marked and not yet added, or 0
    permitted, \* the hosts the proxy has opened a tunnel to
    restarts

store == <<allowlist, requests, adding>>
vars == <<store, agent, told, permitted, restarts>>

\* EgressPolicy.is_allowed: the name without a final dot is an exact entry, or
\* ends with the suffix of a wildcard entry. An entry kept with its final dot
\* is never equal to such a name.
Admits(entry, name) ==
    \/ entry.form = "plain" /\ name.form # "wild" /\ name.host = entry.host
    \/ entry.form = "wild" /\ name.host \in Under[entry.host]
    \/ entry.form = "wild" /\ name.form = "wild" /\ name.host = entry.host

Allowed(name) == \E e \in allowlist : Admits(e, name)

Pending(n) == {i \in DOMAIN requests : requests[i] = [name |-> n, status |-> "pending"]}
Nobody == [pos |-> "idle"]
Silence == [answer |-> "none"]

Init ==
    /\ allowlist = Configured
    /\ requests = <<>>
    /\ agent = [a \in Agents |-> Nobody]
    /\ told = [a \in Agents |-> Silence]
    /\ adding = 0
    /\ permitted = {}
    /\ restarts = 0

-----------------------------------------------------------------------------
(* run_egress_tool and EgressApprovalStore.request, on an agent's thread. *)

\* is_allowed, before the store's lock is taken.
Ask(a, n) ==
    /\ agent[a].pos = "idle"
    /\ IF Allowed(n)
       THEN /\ told' = [told EXCEPT ![a] = [answer |-> "allowed", name |-> n]]
            /\ UNCHANGED agent
       ELSE /\ told' = [told EXCEPT ![a] = Silence]
            /\ agent' = [agent EXCEPT ![a] = [pos |-> "filing", name |-> n]]
    /\ UNCHANGED <<store, permitted, restarts>>

\* Faulty variant: files a request without looking for a pending one.
FileAlways(a) ==
    /\ agent[a].pos = "filing"
    /\ Len(requests) < MaxRequests
    /\ requests' = Append(requests, [name |-> agent[a].name, status |-> "pending"])
    /\ agent' = [agent EXCEPT ![a] = [pos |-> "filed", ticket |-> Len(requests) + 1]]
    /\ UNCHANGED <<allowlist, adding, told, permitted, restarts>>

\* Under the lock: the first pending request for the name, or a new one.
File(a) ==
    /\ agent[a].pos = "filing"
    /\ IF Pending(agent[a].name) # {}
       THEN /\ \E i \in Pending(agent[a].name) :
                agent' = [agent EXCEPT ![a] = [pos |-> "filed", ticket |-> i]]
            /\ UNCHANGED requests
       ELSE /\ Len(requests) < MaxRequests
            /\ requests' = Append(requests, [name |-> agent[a].name, status |-> "pending"])
            /\ agent' = [agent EXCEPT ![a] = [pos |-> "filed", ticket |-> Len(requests) + 1]]
    /\ UNCHANGED <<allowlist, adding, told, permitted, restarts>>

\* Faulty variant: whatever is no longer pending counts as approved.
TellDecided(a) ==
    /\ agent[a].pos = "filed"
    /\ LET req == requests[agent[a].ticket]
       IN  told' = [told EXCEPT ![a] =
                      [answer |-> IF req.status # "pending" THEN "allowed" ELSE "pending",
                       name |-> req.name]]
    /\ agent' = [agent EXCEPT ![a] = Nobody]
    /\ UNCHANGED <<store, permitted, restarts>>

\* The tool reads the status of the returned request, which is the store's own
\* object, and not a copy: an admin may have decided it meanwhile.
Tell(a) ==
    /\ agent[a].pos = "filed"
    /\ LET req == requests[agent[a].ticket]
       IN  told' = [told EXCEPT ![a] =
                      [answer |-> IF req.status = "approved" THEN "allowed" ELSE "pending",
                       name |-> req.name]]
    /\ agent' = [agent EXCEPT ![a] = Nobody]
    /\ UNCHANGED <<store, permitted, restarts>>

-----------------------------------------------------------------------------
(* approve_egress and deny_egress, on the event loop. *)

\* Faulty variant: a request that was decided before is approved again.
ApproveDecided(i) ==
    /\ adding = 0 /\ i \in DOMAIN requests
    /\ requests' = [requests EXCEPT ![i].status = "approved"]
    /\ adding' = i
    /\ UNCHANGED <<allowlist, agent, told, permitted, restarts>>

\* Faulty variant: the early return for a decided request skips the status only.
ApproveAddsAnyway(i) ==
    /\ adding = 0 /\ i \in DOMAIN requests
    /\ requests' = [requests EXCEPT ![i].status = IF @ = "pending" THEN "approved" ELSE @]
    /\ adding' = i
    /\ UNCHANGED <<allowlist, agent, told, permitted, restarts>>

\* approve, under the store's lock; a decided request is returned as it is.
Approve(i) ==
    /\ adding = 0 /\ i \in DOMAIN requests
    /\ requests[i].status = "pending"
    /\ requests' = [requests EXCEPT ![i].status = "approved"]
    /\ adding' = i
    /\ UNCHANGED <<allowlist, agent, told, permitted, restarts>>

\* Faulty variant: the suffix list is only filled from the configuration.
AddPlain ==
    /\ adding # 0
    /\ allowlist' = allowlist \cup {n \in {requests[adding].name} : n.form # "wild"}
    /\ adding' = 0
    /\ UNCHANGED <<requests, agent, told, permitted, restarts>>

\* EgressPolicy.add, under the policy's own lock.
Add ==
    /\ adding # 0
    /\ allowlist' = allowlist \cup {requests[adding].name}
    /\ adding' = 0
    /\ UNCHANGED <<requests, agent, told, permitted, restarts>>

Deny(i) ==
    /\ adding = 0 /\ i \in DOMAIN requests
    /\ requests[i].status = "pending"
    /\ requests' = [requests EXCEPT ![i].status = "denied"]
    /\ UNCHANGED <<allowlist, adding, agent, told, permitted, restarts>>

-----------------------------------------------------------------------------
\* _ProxyHandler: CONNECT to an allowed host is tunnelled, all else gets a 403.
Connect(h) ==
    /\ Allowed([form |-> "plain", host |-> h])
    /\ permitted' = permitted \cup {h}
    /\ UNCHANGED <<store, agent, told, restarts>>

\* The store and the policy are in-process; a new process starts from the
\* configuration.
Restart ==
    /\ restarts < MaxRestarts
    /\ restarts' = restarts + 1
    /\ allowlist' = Configured
    /\ requests' = <<>>
    /\ adding' = 0
    /\ permitted' = {}
    /\ agent' = [a \in Agents |-> Nobody]
    /\ told' = [a \in Agents |-> Silence]

Next ==
    \/ \E a \in Agents : File(a) \/ Tell(a) \/ \E n \in Asked : Ask(a, n)
    \/ \E i \in 1 .. MaxRequests : Approve(i) \/ Deny(i)
    \/ Add
    \/ \E h \in Hosts : Connect(h)
    \/ Restart

Spec == Init /\ [][Next]_vars
-----------------------------------------------------------------------------
(* Correctness. *)

Status == {"pending", "approved", "denied"}

TypeOK ==
    /\ allowlist \subseteq Names
    /\ requests \in Seq([name : Names, status : Status])
    /\ agent \in [Agents -> {Nobody} \cup [pos : {"filing"}, name : Names]
                                     \cup [pos : {"filed"}, ticket : DOMAIN requests]]
    /\ told \in [Agents -> {Silence} \cup [answer : {"allowed", "pending"}, name : Names]]
    /\ adding \in {0} \cup DOMAIN requests
    /\ permitted \subseteq Hosts
    /\ restarts \in Nat

\* However the threads race, a host is put before the admin once at a time:
\* two requests for the same host are never both pending.
OnePendingPerHost ==
    \A i, j \in DOMAIN requests :
        requests[i] = requests[j] /\ requests[i].status = "pending" => i = j

\* A decision stands as long as the process lives: neither a later decision nor
\* another request for the host changes it.
DecisionsStand ==
    [][\A i \in DOMAIN requests :
          requests[i].status # "pending" /\ restarts' = restarts =>
              i \in DOMAIN requests' /\ requests'[i] = requests[i]]_vars

\* What was approved is on the live allowlist as soon as the admin's request is
\* answered, wildcards included. (A name asked for with a final
\* dot is stored with it and never matched: such an approval has no effect.)
ApprovalTakesEffect ==
    \A i \in DOMAIN requests :
        requests[i].status = "approved" /\ adding # i /\ requests[i].name.form # "rooted" =>
            Allowed(requests[i].name)

\* An agent is told "Host already permitted" only for a name the allowlist admits,
\* or whose approval is just being put there. (Names with
\* a final dot are never admitted.)
BeingAdded(n) == adding # 0 /\ requests[adding].name = n
AnswerHasGrounds ==
    \A a \in Agents :
        told[a].answer = "allowed" =>
            Allowed(told[a].name) \/ BeingAdded(told[a].name) \/ told[a].name.form = "rooted"

\* The gate: whatever the interleaving of agents, admin, proxy and restarts, the
\* proxy permits only hosts that the configuration or an approval admits.
Approved == {requests[i].name : i \in {j \in DOMAIN requests : requests[j].status = "approved"}}
Gate == INSTANCE EgressGate WITH granted <- Configured \cup Approved
KeepsGate == Gate!Spec
=============================================================================
