---------------------------- MODULE SandboxSlots ----------------------------
(***************************************************************************)
(* Executions of generated code (sandbox/docker_runner.py): DockerRunner   *)
(* .run on the worker threads of the runs, with its semaphore of slots,    *)
(* its "docker run" client process, its timeout and its "docker kill".     *)
(* The Docker daemon is external: a client asks it for a container, which  *)
(* starts some time later and ends with its program, or is killed by name. *)
(*                                                                         *)
(* Time is abstract: a communicate() with a timeout may always expire.     *)
(* Abstracted: the flags of the command, the code, its output, and the     *)
(* directory of input files.                                               *)
(***************************************************************************)
EXTENDS Integers, FiniteSets

CONSTANTS
    Runs,   \* the executions: one call of DockerRunner.run each
    Limit   \* max(1, sandbox_max_concurrency)

ASSUME LimitAssumption == Limit \in Nat \ {0}

VARIABLES
    pc,       \* where the execution's thread is
    slots,    \* the value of the semaphore
    client,   \* the docker run process
    kill,     \* what became of the docker kill
    result,   \* how run() ended
    container \* the daemon's container of that name

thread == <<pc, slots, kill, result>>
vars == <<thread, client, container>>

\* Positions between a successful acquire and the release.
Holding == {"starting", "communicating", "killing", "collecting", "releasing"}
Holders == {r \in Runs : pc[r] \in Holding}

Init ==
    /\ pc = [r \in Runs |-> "idle"]
    /\ slots = Limit
    /\ client = [r \in Runs |-> "none"]
    /\ kill = [r \in Runs |-> "none"]
    /\ result = [r \in Runs |-> "none"]
    /\ container = [r \in Runs |-> "none"]

Goto(r, pos) == pc' = [pc EXCEPT ![r] = pos]
Result(r, res) == result' = [result EXCEPT ![r] = res]

-----------------------------------------------------------------------------
(* DockerRunner.run. *)

Call(r) ==
    /\ pc[r] = "idle"
    /\ Goto(r, "preparing")
    /\ UNCHANGED <<slots, kill, result, client, container>>

\* Writing an input file raises, before a slot is taken.
PrepareFails(r) ==
    /\ pc[r] = "preparing"
    /\ Goto(r, "over")
    /\ Result(r, "raised")
    /\ UNCHANGED <<slots, kill, client, container>>

Prepared(r) ==
    /\ pc[r] = "preparing"
    /\ Goto(r, "waiting")
    /\ UNCHANGED <<slots, kill, result, client, container>>

\* _slots.acquire(), which blocks the thread without a time limit.
Acquire(r) ==
    /\ pc[r] = "waiting" /\ slots > 0
    /\ slots' = slots - 1
    /\ Goto(r, "starting")
    /\ UNCHANGED <<kill, result, client, container>>

\* Faulty variant: Popen outside the try whose finally releases the slot.
PopenFailsHolding(r) ==
    /\ pc[r] = "starting"
    /\ Goto(r, "over")
    /\ Result(r, "raised")
    /\ UNCHANGED <<slots, kill, client, container>>

PopenFails(r) ==
    /\ pc[r] = "starting"
    /\ Goto(r, "releasing")
    /\ Result(r, "raised")
    /\ UNCHANGED <<slots, kill, client, container>>

Popen(r) ==
    /\ pc[r] = "starting"
    /\ Goto(r, "communicating")
    /\ client' = [client EXCEPT ![r] = "running"]
    /\ UNCHANGED <<slots, kill, result, container>>

Completes(r) ==
    /\ pc[r] = "communicating" /\ client[r] = "exited"
    /\ Goto(r, "releasing")
    /\ Result(r, "completed")
    /\ UNCHANGED <<slots, kill, client, container>>

\* Faulty variant: the client is taken for the container, docker kill is skipped.
TimesOutKillingClient(r) ==
    /\ pc[r] = "communicating"
    /\ Goto(r, "collecting")
    /\ Result(r, "timed out")
    /\ client' = [client EXCEPT ![r] = IF @ = "running" THEN "killed" ELSE @]
    /\ UNCHANGED <<slots, kill, container>>

\* communicate(timeout) expires; docker kill is started.
TimesOut(r) ==
    /\ pc[r] = "communicating"
    /\ Goto(r, "killing")
    /\ Result(r, "timed out")
    /\ UNCHANGED <<slots, kill, client, container>>

\* The daemon kills the container of that name, or knows none yet (or no more).
\* The exit code of docker kill is not looked at.
KillReturns(r) ==
    /\ pc[r] = "killing"
    /\ Goto(r, "collecting")
    /\ IF container[r] = "running"
       THEN /\ container' = [container EXCEPT ![r] = "gone"]
            /\ kill' = [kill EXCEPT ![r] = "hit"]
       ELSE /\ kill' = [kill EXCEPT ![r] = "missed"]
            /\ UNCHANGED container
    /\ UNCHANGED <<slots, result, client>>

\* Anything but the timeout: the code is not encodable, the output is not UTF-8,
\* docker kill cannot be started. The client and its container are left alone.
Raises(r) ==
    /\ pc[r] \in {"communicating", "killing", "collecting"}
    /\ Goto(r, "releasing")
    /\ Result(r, "raised")
    /\ UNCHANGED <<slots, kill, client, container>>

\* Faulty variant: waits for the client without a time limit.
CollectPatiently(r) ==
    /\ pc[r] = "collecting" /\ client[r] # "running"
    /\ Goto(r, "releasing")
    /\ UNCHANGED <<slots, kill, result, client, container>>

\* communicate(10) returns, or expires and the client is killed.
Collect(r) ==
    /\ pc[r] = "collecting"
    /\ Goto(r, "releasing")
    /\ client' = [client EXCEPT ![r] = IF @ = "running" THEN "killed" ELSE @]
    /\ UNCHANGED <<slots, kill, result, container>>

\* The finally clause.
Release(r) ==
    /\ pc[r] = "releasing"
    /\ slots' = slots + 1
    /\ Goto(r, "over")
    /\ UNCHANGED <<kill, result, client, container>>

-----------------------------------------------------------------------------
(* The docker client process and the daemon. *)

\* The client's request to start the container reaches the daemon.
Submit(r) ==
    /\ client[r] = "running" /\ container[r] = "none"
    /\ container' = [container EXCEPT ![r] = "requested"]
    /\ UNCHANGED <<thread, client>>

\* The container starts, whether or not its client still lives.
ContainerStarts(r) ==
    /\ container[r] = "requested"
    /\ container' = [container EXCEPT ![r] = "running"]
    /\ UNCHANGED <<thread, client>>

\* The program ends, and --rm removes the container.
ContainerEnds(r) ==
    /\ container[r] = "running"
    /\ container' = [container EXCEPT ![r] = "gone"]
    /\ UNCHANGED <<thread, client>>

\* With its container, or because the daemon refused to make one.
ClientExits(r) ==
    /\ client[r] = "running" /\ container[r] \in {"none", "gone"}
    /\ client' = [client EXCEPT ![r] = "exited"]
    /\ UNCHANGED <<thread, container>>

-----------------------------------------------------------------------------
Run(r) ==
    \/ Prepared(r) \/ Acquire(r) \/ Popen(r) \/ Completes(r)
    \/ TimesOut(r) \/ KillReturns(r) \/ Collect(r) \/ Release(r)
Fails(r) == PrepareFails(r) \/ PopenFails(r) \/ Raises(r)
Daemon(r) == Submit(r) \/ ContainerStarts(r) \/ ContainerEnds(r) \/ ClientExits(r)
Next == \E r \in Runs : Call(r) \/ Run(r) \/ Fails(r) \/ Daemon(r)

Spec == Init /\ [][Next]_vars

\* The worker threads run, the timeouts expire and the daemon answers docker
\* kill. A container need not start, its program need not end, and no error is
\* forced to happen.
FairSpec == Spec /\ \A r \in Runs : WF_vars(Run(r))
-----------------------------------------------------------------------------
(* Correctness. *)

TypeOK ==
    /\ pc \in [Runs -> Holding \cup {"idle", "preparing", "waiting", "over"}]
    /\ slots \in 0 .. Limit
    /\ client \in [Runs -> {"none", "running", "exited", "killed"}]
    /\ kill \in [Runs -> {"none", "hit", "missed"}]
    /\ result \in [Runs -> {"none", "completed", "timed out", "raised"}]
    /\ container \in [Runs -> {"none", "requested", "running", "gone"}]

\* Whatever raises in a run, its slot is given back exactly once, so the
\* semaphore never loses capacity and never admits more than Limit executions.
SlotsConserved == slots + Cardinality(Holders) = Limit

\* When run() returns a result, its container is gone or docker kill came before
\* the daemon had started it: a timeout never leaves a container it has seen.
OrphanHasReason ==
    \A r \in Runs :
        pc[r] = "over" /\ container[r] \in {"requested", "running"} =>
            kill[r] = "missed" \/ result[r] = "raised"

\* Every call returns: a thread that waits for a slot gets one, because every
\* holder gives its slot back within its time limits.
CallReturns == \A r \in Runs : pc[r] = "waiting" ~> pc[r] = "over"

\* SECURITY.md: "a concurrency semaphore capping simultaneous containers". The
\* slot is released for a container that docker kill did not find.
ContainersWithinLimit == Cardinality({r \in Runs : container[r] = "running"}) <= Limit
=============================================================================
