------------------------ MODULE EgressApprovalProofs ------------------------
(***************************************************************************)
(* Theorems about EgressApproval, for any number of agents, any names and  *)
(* any number of requests.  OnePendingPerHost is inductive: requests are   *)
(* only filed under the lock that the search for a pending one holds.  The *)
(* gate needs to know where the entries of the allowlist come from         *)
(* (Sourced), and that approve() marks before it adds.                     *)
(***************************************************************************)
EXTENDS EgressApproval, TLAPS

Requests == [name : Names, status : Status]

\* Every entry of the live allowlist was configured or is approved.
Sourced ==
    /\ allowlist \subseteq Configured \cup Approved
    /\ adding # 0 => requests[adding].status = "approved"

\* Whatever is approved has been added, or is the request being added.
Applied ==
    \A i \in DOMAIN requests :
        requests[i].status = "approved" /\ adding # i => requests[i].name \in allowlist

IInv == TypeOK /\ OnePendingPerHost /\ Sourced /\ Applied

-----------------------------------------------------------------------------
LEMMA InitIInv == Init => IInv
<1> SUFFICES ASSUME Init PROVE IInv  OBVIOUS
<1>1. requests = <<>> /\ DOMAIN requests = {}  BY DEF Init
<1>2. TypeOK
  BY <1>1, NamesAssumption DEF Init, TypeOK, Nobody, Silence
<1> QED BY <1>1, <1>2 DEF Init, IInv, OnePendingPerHost, Sourced, Applied

\* The list of requests, its domain and its entries.
LEMMA RequestFacts ==
  ASSUME TypeOK
  PROVE  /\ requests \in Seq(Requests)
         /\ Len(requests) \in Nat /\ DOMAIN requests = 1 .. Len(requests)
         /\ \A i \in DOMAIN requests :
                requests[i] = [name |-> requests[i].name, status |-> requests[i].status]
                /\ requests[i].name \in Names /\ requests[i].status \in Status
<1>1. requests \in Seq(Requests)  BY DEF TypeOK, Requests
<1>2. \A i \in DOMAIN requests : requests[i] \in Requests  BY <1>1
<1> QED BY <1>1, <1>2 DEF Requests

\* A new pending request for a name that has none.
LEMMA Filed ==
  ASSUME IInv, NEW n \in Names, Pending(n) = {},
         requests' = Append(requests, [name |-> n, status |-> "pending"]),
         UNCHANGED <<allowlist, adding>>
  PROVE  /\ requests' \in Seq(Requests) /\ OnePendingPerHost' /\ Sourced' /\ Applied'
         /\ DOMAIN requests \subseteq DOMAIN requests'
         /\ Len(requests) + 1 \in DOMAIN requests'
<1> DEFINE new == [name |-> n, status |-> "pending"]
<1>1. requests \in Seq(Requests) /\ Len(requests) \in Nat
      /\ DOMAIN requests = 1 .. Len(requests)
  BY RequestFacts DEF IInv
<1>2. new \in Requests  BY DEF Requests, Status
<1>3. /\ requests' \in Seq(Requests)
      /\ DOMAIN requests' = 1 .. Len(requests) + 1
      /\ requests'[Len(requests) + 1] = new
      /\ \A i \in 1 .. Len(requests) : requests'[i] = requests[i]
  BY <1>1, <1>2
<1>4. \A i \in DOMAIN requests : requests[i] # new  BY DEF Pending
<1>5. OnePendingPerHost'  BY <1>1, <1>3, <1>4 DEF IInv, OnePendingPerHost
<1>6. adding \in {0} \cup DOMAIN requests  BY DEF IInv, TypeOK
<1>7. Sourced'
  <2>1. Approved \subseteq Approved'  BY <1>1, <1>3 DEF Approved
  <2> QED BY <1>1, <1>3, <1>6, <2>1 DEF IInv, Sourced
<1>8. Applied'  BY <1>1, <1>3 DEF IInv, Applied
<1> QED BY <1>1, <1>3, <1>5, <1>7, <1>8

\* A decision: one request changes its status, from pending.
LEMMA Decided ==
  ASSUME IInv, NEW i \in DOMAIN requests, requests[i].status = "pending",
         NEW s \in {"approved", "denied"},
         requests' = [requests EXCEPT ![i].status = s]
  PROVE  /\ requests' \in Seq(Requests) /\ DOMAIN requests' = DOMAIN requests
         /\ requests'[i] = [name |-> requests[i].name, status |-> s]
         /\ \A j \in DOMAIN requests : j # i => requests'[j] = requests[j]
         /\ OnePendingPerHost'
<1>1. /\ requests \in Seq(Requests) /\ Len(requests) \in Nat
      /\ DOMAIN requests = 1 .. Len(requests)
      /\ requests[i] = [name |-> requests[i].name, status |-> requests[i].status]
      /\ requests[i].name \in Names
  BY RequestFacts DEF IInv
<1>2. [requests[i] EXCEPT !.status = s] = [name |-> requests[i].name, status |-> s]
  BY <1>1
<1>3. /\ DOMAIN requests' = DOMAIN requests
      /\ requests'[i] = [name |-> requests[i].name, status |-> s]
      /\ \A j \in DOMAIN requests : j # i => requests'[j] = requests[j]
  BY <1>1, <1>2
<1>4. [name |-> requests[i].name, status |-> s] \in Requests
  BY <1>1 DEF Requests, Status
<1>5. requests' \in Seq(Requests)  BY <1>1, <1>3, <1>4
<1>6. OnePendingPerHost'
  <2> SUFFICES ASSUME NEW j \in DOMAIN requests, NEW k \in DOMAIN requests,
                      requests'[j] = requests'[k], requests'[j].status = "pending"
               PROVE  j = k
    BY <1>3 DEF OnePendingPerHost
  <2>1. j # i /\ k # i  BY <1>3
  <2> QED BY <1>3, <2>1 DEF IInv, OnePendingPerHost
<1> QED BY <1>3, <1>5, <1>6

-----------------------------------------------------------------------------
(* One lemma per action. *)

LEMMA AskIInv ==
  ASSUME IInv, NEW a \in Agents, NEW n \in Asked, Ask(a, n)  PROVE IInv'
<1>1. n \in Names  BY NamesAssumption
<1>2. TypeOK'
  BY <1>1 DEF IInv, TypeOK, Ask, store, Nobody, Silence
<1>3. UNCHANGED <<allowlist, requests, adding>>  BY DEF Ask, store
<1>4. OnePendingPerHost'  BY <1>3 DEF IInv, OnePendingPerHost
<1>5. Sourced' /\ Applied'  BY <1>3 DEF IInv, Sourced, Applied, Approved
<1> QED BY <1>2, <1>4, <1>5 DEF IInv

LEMMA FileIInv ==
  ASSUME IInv, NEW a \in Agents, File(a)  PROVE IInv'
<1>1. agent[a].name \in Names
  BY DEF IInv, TypeOK, File, Nobody
<1>2. CASE Pending(agent[a].name) # {}
  <2>1. PICK i \in DOMAIN requests :
            agent' = [agent EXCEPT ![a] = [pos |-> "filed", ticket |-> i]]
    BY <1>2 DEF File, Pending
  <2>2. UNCHANGED <<allowlist, requests, adding, told, permitted, restarts>>
    BY <1>2 DEF File
  <2>3. TypeOK'  BY <2>1, <2>2 DEF IInv, TypeOK
  <2>4. OnePendingPerHost'  BY <2>2 DEF IInv, OnePendingPerHost
  <2>5. Sourced' /\ Applied'  BY <2>2 DEF IInv, Sourced, Applied, Approved
  <2> QED BY <2>3, <2>4, <2>5 DEF IInv
<1>3. CASE Pending(agent[a].name) = {}
  <2>1. /\ requests' = Append(requests, [name |-> agent[a].name, status |-> "pending"])
        /\ agent' = [agent EXCEPT ![a] = [pos |-> "filed", ticket |-> Len(requests) + 1]]
        /\ UNCHANGED <<allowlist, adding, told, permitted, restarts>>
    BY <1>3 DEF File
  <2>2. /\ requests' \in Seq(Requests) /\ OnePendingPerHost' /\ Sourced' /\ Applied'
        /\ DOMAIN requests \subseteq DOMAIN requests'
        /\ Len(requests) + 1 \in DOMAIN requests'
    BY <1>1, <1>3, <2>1, Filed
  <2>3. agent' \in [Agents -> {Nobody} \cup [pos : {"filing"}, name : Names]
                                       \cup [pos : {"filed"}, ticket : DOMAIN requests']]
    BY <2>1, <2>2 DEF IInv, TypeOK
  <2>4. TypeOK'  BY <2>1, <2>2, <2>3 DEF IInv, TypeOK, Requests
  <2> QED BY <2>2, <2>4 DEF IInv
<1> QED BY <1>2, <1>3

LEMMA TellIInv ==
  ASSUME IInv, NEW a \in Agents, Tell(a)  PROVE IInv'
<1>1. agent[a].ticket \in DOMAIN requests
  BY DEF IInv, TypeOK, Tell, Nobody
<1>2. requests[agent[a].ticket].name \in Names
  BY <1>1, RequestFacts DEF IInv
<1>3. UNCHANGED <<allowlist, requests, adding>>  BY DEF Tell, store
<1>4. TypeOK'  BY <1>2, <1>3 DEF IInv, TypeOK, Tell
<1>5. OnePendingPerHost'  BY <1>3 DEF IInv, OnePendingPerHost
<1>6. Sourced' /\ Applied'  BY <1>3 DEF IInv, Sourced, Applied, Approved
<1> QED BY <1>4, <1>5, <1>6 DEF IInv

LEMMA ApproveIInv ==
  ASSUME IInv, NEW i, Approve(i)  PROVE IInv'
<1>1. /\ i \in DOMAIN requests /\ adding = 0 /\ adding' = i
      /\ UNCHANGED <<allowlist, agent, told, permitted, restarts>>
  BY DEF Approve
<1>2. /\ requests' \in Seq(Requests) /\ DOMAIN requests' = DOMAIN requests
      /\ requests'[i] = [name |-> requests[i].name, status |-> "approved"]
      /\ \A j \in DOMAIN requests : j # i => requests'[j] = requests[j]
      /\ OnePendingPerHost'
  BY <1>1, Decided DEF Approve
<1>3. TypeOK'  BY <1>1, <1>2 DEF IInv, TypeOK, Requests
<1>4. Approved \subseteq Approved'  BY <1>1, <1>2 DEF Approved
<1>5. Sourced'  BY <1>1, <1>2, <1>4 DEF IInv, Sourced
<1>6. Applied'  BY <1>1, <1>2, RequestFacts DEF IInv, Applied
<1> QED BY <1>2, <1>3, <1>5, <1>6 DEF IInv

LEMMA AddIInv ==
  ASSUME IInv, Add  PROVE IInv'
<1>1. /\ adding \in DOMAIN requests /\ adding' = 0
      /\ allowlist' = allowlist \cup {requests[adding].name}
      /\ UNCHANGED <<requests, agent, told, permitted, restarts>>
  BY DEF IInv, TypeOK, Add
<1>2. requests[adding].name \in Names  BY <1>1, RequestFacts DEF IInv
<1>3. requests[adding].name \in Approved  BY <1>1 DEF IInv, Sourced, Add, Approved
<1>4. TypeOK'  BY <1>1, <1>2 DEF IInv, TypeOK
<1>5. OnePendingPerHost'  BY <1>1 DEF IInv, OnePendingPerHost
<1>6. Sourced'  BY <1>1, <1>3 DEF IInv, Sourced, Approved
<1>7. Applied'  BY <1>1 DEF IInv, Applied
<1> QED BY <1>4, <1>5, <1>6, <1>7 DEF IInv

LEMMA DenyIInv ==
  ASSUME IInv, NEW i, Deny(i)  PROVE IInv'
<1>1. /\ i \in DOMAIN requests /\ adding = 0
      /\ UNCHANGED <<allowlist, adding, agent, told, permitted, restarts>>
  BY DEF Deny
<1>2. /\ requests' \in Seq(Requests) /\ DOMAIN requests' = DOMAIN requests
      /\ requests'[i] = [name |-> requests[i].name, status |-> "denied"]
      /\ \A j \in DOMAIN requests : j # i => requests'[j] = requests[j]
      /\ OnePendingPerHost'
  BY <1>1, Decided DEF Deny
<1>3. TypeOK'  BY <1>1, <1>2 DEF IInv, TypeOK, Requests
<1>4. Approved \subseteq Approved'  BY <1>1, <1>2 DEF Approved, Deny
<1>5. Sourced'  BY <1>1, <1>4 DEF IInv, Sourced
<1>6. Applied'  BY <1>1, <1>2 DEF IInv, Applied
<1> QED BY <1>2, <1>3, <1>5, <1>6 DEF IInv

LEMMA ConnectIInv ==
  ASSUME IInv, NEW h \in Hosts, Connect(h)  PROVE IInv'
<1>1. UNCHANGED <<allowlist, requests, adding>>  BY DEF Connect, store
<1>2. TypeOK'  BY DEF IInv, TypeOK, Connect, store
<1>3. OnePendingPerHost'  BY <1>1 DEF IInv, OnePendingPerHost
<1>4. Sourced' /\ Applied'  BY <1>1 DEF IInv, Sourced, Applied, Approved
<1> QED BY <1>2, <1>3, <1>4 DEF IInv

LEMMA RestartIInv ==
  ASSUME IInv, Restart  PROVE IInv'
<1>1. requests' = <<>> /\ DOMAIN requests' = {}  BY DEF Restart
<1>2. TypeOK'
  BY <1>1, NamesAssumption DEF IInv, Restart, TypeOK, Nobody, Silence
<1> QED BY <1>1, <1>2 DEF Restart, IInv, OnePendingPerHost, Sourced, Applied

LEMMA StutterIInv == ASSUME IInv, UNCHANGED vars  PROVE IInv'
<1> USE DEF vars, store
<1>1. TypeOK'  BY DEF IInv, TypeOK
<1>2. OnePendingPerHost'  BY DEF IInv, OnePendingPerHost
<1>3. Sourced' /\ Applied'  BY DEF IInv, Sourced, Applied, Approved
<1> QED BY <1>1, <1>2, <1>3 DEF IInv

LEMMA NextIInv == IInv /\ [Next]_vars => IInv'
BY AskIInv, FileIInv, TellIInv, ApproveIInv, AddIInv, DenyIInv, ConnectIInv,
   RestartIInv, StutterIInv DEF Next

LEMMA Invariance == Spec => []IInv
BY InitIInv, NextIInv, PTL DEF Spec

-----------------------------------------------------------------------------
\* The gate's state keeps its types.
THEOREM TypeCorrect == Spec => []TypeOK
<1>1. IInv => TypeOK  BY DEF IInv
<1> QED BY <1>1, Invariance, PTL

\* However the agents' threads race, no host has two pending requests: an admin
\* is asked once for each host (EgressApprovalStore.request).
THEOREM NoDuplicateRequests == Spec => []OnePendingPerHost
<1>1. IInv => OnePendingPerHost  BY DEF IInv
<1> QED BY <1>1, Invariance, PTL

\* A listed name admits itself, final dots apart.
LEMMA SelfAdmitting ==
  ASSUME NEW n \in Names, n.form # "rooted", n \in allowlist
  PROVE  Allowed(n)
<1>1. Admits(n, n)  BY DEF Admits, Names
<1> QED BY <1>1 DEF Allowed

\* approve() puts the host on the live allowlist before it answers, for every
\* name that is_allowed can match (EgressPolicy.add, is_allowed).
THEOREM ApprovalsTakeEffect == Spec => []ApprovalTakesEffect
<1>1. IInv => ApprovalTakesEffect
  <2> SUFFICES ASSUME IInv, NEW i \in DOMAIN requests, requests[i].status = "approved",
                      adding # i, requests[i].name.form # "rooted"
               PROVE  Allowed(requests[i].name)
    BY DEF ApprovalTakesEffect
  <2>1. requests[i].name \in allowlist  BY DEF IInv, Applied
  <2>2. requests[i].name \in Names  BY RequestFacts DEF IInv
  <2> QED BY <2>1, <2>2, SelfAdmitting
<1> QED BY <1>1, Invariance, PTL

\* The allowlist only grows while the process lives.
LEMMA AllowedGrows ==
  ASSUME NEW n, allowlist \subseteq allowlist', Allowed(n)
  PROVE  Allowed(n)'
<1>1. PICK e \in allowlist : Admits(e, n)  BY DEF Allowed
<1>2. e \in allowlist' /\ Admits(e, n)  BY <1>1
<1> QED BY <1>2 DEF Allowed, Admits

Grounded(n) == Allowed(n) \/ BeingAdded(n) \/ n.form = "rooted"

\* What was said of a name stays true of it in the next state.
LEMMA GroundsRemain ==
  ASSUME IInv, [Next]_vars, ~Restart, NEW n, Grounded(n)
  PROVE  Grounded(n)'
<1>0. requests \in Seq(Requests) /\ Len(requests) \in Nat
      /\ DOMAIN requests = 1 .. Len(requests) /\ adding \in {0} \cup DOMAIN requests
  BY RequestFacts DEF IInv, TypeOK
<1>1. allowlist \subseteq allowlist'
  BY DEF Next, vars, store, Ask, File, Tell, Approve, Add, Deny, Connect
<1>2. CASE Allowed(n)  BY <1>1, <1>2, AllowedGrows DEF Grounded
<1>3. CASE n.form = "rooted"  BY <1>3 DEF Grounded
<1>4. CASE BeingAdded(n) /\ n.form # "rooted"
  <2>1. CASE Add
    <3>1. n \in Names  BY <1>0, <1>4, RequestFacts DEF IInv, BeingAdded
    <3>2. n \in allowlist'  BY <1>4, <2>1 DEF Add, BeingAdded
    <3>3. Admits(n, n)  BY <3>1, <1>4 DEF Admits, Names
    <3>4. Allowed(n)'  BY <3>2, <3>3 DEF Allowed, Admits
    <3> QED BY <3>4 DEF Grounded
  <2>2. CASE \E b \in Agents : File(b)
    <3>1. adding' = adding /\ requests'[adding] = requests[adding]
      BY <1>0, <1>4, <2>2 DEF File, BeingAdded
    <3>2. BeingAdded(n)'  BY <1>4, <3>1 DEF BeingAdded
    <3> QED BY <3>2 DEF Grounded
  <2>3. CASE UNCHANGED <<requests, adding>>
    <3>1. BeingAdded(n)'  BY <1>4, <2>3 DEF BeingAdded
    <3> QED BY <3>1 DEF Grounded
  <2> QED
    BY <1>4, <2>1, <2>2, <2>3
    DEF Next, vars, store, Ask, Tell, Approve, Deny, Connect, BeingAdded
<1> QED BY <1>2, <1>3, <1>4 DEF Grounded

\* An agent that reads an approved request reads grounds.
LEMMA ApprovedIsGrounded ==
  ASSUME IInv, NEW i \in DOMAIN requests, requests[i].status = "approved"
  PROVE  Grounded(requests[i].name)
<1>1. CASE adding = i
  <2>1. adding # 0  BY <1>1, RequestFacts DEF IInv
  <2> QED BY <1>1, <2>1 DEF Grounded, BeingAdded
<1>2. CASE adding # i /\ requests[i].name.form # "rooted"
  <2>1. requests[i].name \in allowlist /\ requests[i].name \in Names
    BY <1>2, RequestFacts DEF IInv, Applied
  <2> QED BY <1>2, <2>1, SelfAdmitting DEF Grounded
<1> QED BY <1>1, <1>2 DEF Grounded

\* "Host already permitted" is said of a name on the allowlist, or on its way
\* there (run_egress_tool reads a status that approve() has already set).
THEOREM AnswersHaveGrounds == Spec => []AnswerHasGrounds
<1>1. Init => AnswerHasGrounds  BY DEF Init, AnswerHasGrounds, Silence
<1>2. IInv /\ AnswerHasGrounds /\ [Next]_vars => AnswerHasGrounds'
  <2> SUFFICES ASSUME IInv, AnswerHasGrounds, [Next]_vars,
                      NEW a \in Agents, told'[a].answer = "allowed",
                      NEW n, n = told'[a].name
               PROVE  Grounded(n)'
    BY DEF AnswerHasGrounds, Grounded
  <2>0. told \in [Agents -> {Silence} \cup [answer : {"allowed", "pending"}, name : Names]]
    BY DEF IInv, TypeOK
  <2>1. ~Restart  BY DEF Restart, Silence
  <2>2. CASE told'[a] = told[a]
    <3>1. Grounded(n)  BY <2>2 DEF AnswerHasGrounds, Grounded
    <3> QED BY <2>1, <3>1, GroundsRemain
  <2>3. CASE \E b \in Agents, m \in Asked : Ask(b, m) /\ told'[a] # told[a]
    <3>1. PICK b \in Agents, m \in Asked : Ask(b, m) /\ told'[a] # told[a]  BY <2>3
    <3>2. Allowed(m) /\ told'[a].name = m
      BY <2>0, <3>1 DEF Ask, Silence
    <3>3. Grounded(n)  BY <3>2 DEF Grounded
    <3> QED BY <2>1, <3>3, GroundsRemain
  <2>4. CASE \E b \in Agents : Tell(b) /\ told'[a] # told[a]
    <3>1. PICK b \in Agents : Tell(b) /\ told'[a] # told[a]  BY <2>4
    <3>2. PICK i \in DOMAIN requests : i = agent[b].ticket
      BY <3>1 DEF IInv, TypeOK, Tell, Nobody
    <3>3. told'[a] = [answer |-> IF requests[i].status = "approved"
                                 THEN "allowed" ELSE "pending",
                      name |-> requests[i].name]
      BY <2>0, <3>1, <3>2 DEF Tell
    <3>4. requests[i].status = "approved" /\ n = requests[i].name  BY <3>3
    <3>5. Grounded(n)  BY <3>4, ApprovedIsGrounded
    <3> QED BY <2>1, <3>5, GroundsRemain
  <2> QED
    BY <2>1, <2>2, <2>3, <2>4
    DEF Next, vars, store, File, Approve, Add, Deny, Connect
<1> QED BY <1>1, <1>2, Invariance, PTL DEF Spec

\* No step of the process changes a decided request (approve and deny return it
\* as it is, request never reuses it).
THEOREM DecisionsAlwaysStand == Spec => DecisionsStand
<1> DEFINE Stands == \A i \in DOMAIN requests :
                         requests[i].status # "pending" /\ restarts' = restarts =>
                             i \in DOMAIN requests' /\ requests'[i] = requests[i]
<1>1. IInv /\ [Next]_vars => [Stands]_vars
  <2> SUFFICES ASSUME IInv, Next, NEW i \in DOMAIN requests,
                      requests[i].status # "pending", restarts' = restarts
               PROVE  i \in DOMAIN requests' /\ requests'[i] = requests[i]
    OBVIOUS
  <2>1. requests \in Seq(Requests) /\ Len(requests) \in Nat
        /\ DOMAIN requests = 1 .. Len(requests)
    BY RequestFacts DEF IInv
  <2>2. CASE UNCHANGED requests  BY <2>2
  <2>3. CASE \E a \in Agents : File(a) /\ requests' # requests
    BY <2>1, <2>3 DEF File
  <2>4. CASE \E k \in 1 .. MaxRequests : Approve(k) \/ Deny(k)
    <3>1. PICK k \in DOMAIN requests :
             /\ requests[k].status = "pending"
             /\ \/ requests' = [requests EXCEPT ![k].status = "approved"]
                \/ requests' = [requests EXCEPT ![k].status = "denied"]
      BY <2>4 DEF Approve, Deny
    <3>2. k # i  BY <3>1
    <3> QED BY <2>1, <3>1, <3>2
  <2>5. CASE Restart
    BY <2>5 DEF Restart, IInv, TypeOK
  <2> QED BY <2>2, <2>3, <2>4, <2>5 DEF Next, Ask, Tell, Add, Connect, store
<1> QED BY <1>1, Invariance, PTL DEF Spec, DecisionsStand

\* The gate (sandbox/egress_approval.py, "every new outbound domain is gated by a
\* person"): the store, the policy and the proxy together implement EgressGate.
THEOREM ImplementsGate == Spec => KeepsGate
<1>1. Init => Gate!Init
  <2> SUFFICES ASSUME Init PROVE Gate!Init  OBVIOUS
  <2>1. Approved = {}  BY DEF Init, Approved
  <2> QED BY <2>1 DEF Init, Gate!Init
<1>2. IInv /\ [Next]_vars => [Gate!Next]_(Gate!gvars)
  <2> SUFFICES ASSUME IInv, [Next]_vars PROVE [Gate!Next]_(Gate!gvars)  OBVIOUS
  <2> USE DEF Gate!gvars, Gate!Next
  <2>0. requests \in Seq(Requests) /\ Len(requests) \in Nat
        /\ DOMAIN requests = 1 .. Len(requests)
    BY RequestFacts DEF IInv
  <2>1. CASE UNCHANGED <<requests, permitted>>
    BY <2>1 DEF Approved
  <2>2. CASE \E a \in Agents : File(a) /\ requests' # requests
    <3>1. PICK n : requests' = Append(requests, [name |-> n, status |-> "pending"])
      BY <2>2 DEF File
    <3>2. /\ DOMAIN requests' = 1 .. Len(requests) + 1
          /\ requests'[Len(requests) + 1].status = "pending"
          /\ \A i \in DOMAIN requests : requests'[i] = requests[i]
      BY <2>0, <3>1
    <3>3. Approved' = Approved  BY <2>0, <3>2 DEF Approved
    <3>4. permitted' = permitted  BY <2>2 DEF File
    <3> QED BY <3>3, <3>4
  <2>3. CASE \E i \in 1 .. MaxRequests : Approve(i)
    <3>1. PICK i \in DOMAIN requests : Approve(i)  BY <2>3 DEF Approve
    <3>2. /\ DOMAIN requests' = DOMAIN requests
          /\ requests'[i] = [name |-> requests[i].name, status |-> "approved"]
          /\ \A j \in DOMAIN requests : j # i => requests'[j] = requests[j]
      BY <3>1, Decided DEF Approve
    <3>3. Approved' = Approved \cup {requests[i].name}
      BY <3>1, <3>2 DEF Approved, Approve
    <3>4. requests[i].name \in Names /\ permitted' = permitted
      BY <3>1, RequestFacts DEF IInv, Approve
    <3> QED BY <3>3, <3>4 DEF Gate!Approve
  <2>4. CASE \E i \in 1 .. MaxRequests : Deny(i)
    <3>1. PICK i \in DOMAIN requests : Deny(i)  BY <2>4 DEF Deny
    <3>2. /\ DOMAIN requests' = DOMAIN requests
          /\ requests'[i] = [name |-> requests[i].name, status |-> "denied"]
          /\ \A j \in DOMAIN requests : j # i => requests'[j] = requests[j]
      BY <3>1, Decided DEF Deny
    <3>3. Approved' = Approved  BY <3>1, <3>2 DEF Approved, Deny
    <3>4. permitted' = permitted  BY <3>1 DEF Deny
    <3> QED BY <3>3, <3>4
  <2>5. CASE \E h \in Hosts : Connect(h)
    <3>1. PICK h \in Hosts : Connect(h)  BY <2>5
    <3>2. \E e \in allowlist : Admits(e, [form |-> "plain", host |-> h])
      BY <3>1 DEF Connect, Allowed
    <3>3. \E e \in Configured \cup Approved : Admits(e, [form |-> "plain", host |-> h])
      BY <3>2 DEF IInv, Sourced
    <3>4. permitted' = permitted \cup {h} /\ Approved' = Approved
      BY <3>1 DEF Connect, store, Approved
    <3> QED BY <3>3, <3>4 DEF Gate!Permit
  <2>6. CASE Restart
    <3>1. requests' = <<>> /\ permitted' = {}  BY <2>6 DEF Restart
    <3>2. Approved' = {}  BY <3>1 DEF Approved
    <3> QED BY <3>1, <3>2 DEF Gate!Restart
  <2> QED
    BY <2>1, <2>2, <2>3, <2>4, <2>5, <2>6
    DEF Next, vars, store, Ask, Tell, Add, File
<1> QED BY <1>1, <1>2, Invariance, PTL DEF Spec, KeepsGate, Gate!Spec
=============================================================================
