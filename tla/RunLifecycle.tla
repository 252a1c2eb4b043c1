---------------------------- MODULE RunLifecycle ----------------------------
(***************************************************************************)
(* Runs as the backend process sees them (orchestrator/runs.py,            *)
(* api/routes.py, api/ws.py, telemetry/events.py):                         *)
(*                                                                         *)
(*  - a request starts a run: in the background (POST /v1/runs), in the    *)
(*    background with a Server-Sent-Events stream attached (POST           *)
(*    /v1/orchestrate/stream), or synchronously (POST /v1/orchestrate);    *)
(*  - the run itself, run_orchestration, is on a worker thread and         *)
(*    publishes events; it keeps the contract of OrchestrationRun;         *)
(*  - the task of the run waits for the thread, stores the result, charges *)
(*    the API key, or records the failure and publishes Phase.ERROR;       *)
(*  - streams and telemetry sockets each own a queue the bus fills.        *)
(*                                                                         *)
(* Requests, tasks, streams and sockets are coroutines of one event loop:  *)
(* code between two awaits runs alone, which variable loop records.        *)
(* Worker threads and crashes interleave with it at every step.  SQLite    *)
(* rows survive a crash, everything else does not, and nothing at start-up *)
(* looks at the rows an earlier process left.                              *)
(***************************************************************************)
EXTENDS Integers, Sequences, FiniteSets

CONSTANTS
    Runs, Sockets,  \* requests that start a run; telemetry WebSockets
    Keyed,          \* the runs whose request carried an API key
    MaxTurns,       \* bound: model turns of a run that publish an event
    MaxFaults,      \* bound: database operations that raise
    MaxCrashes      \* bound: times the process dies and is started again

ASSUME KeyedAssumption == Keyed \subseteq Runs
ASSUME DisjointAssumption == Runs \cap Sockets = {}
ASSUME IdleAssumption == "idle" \notin Runs /\ "all" \notin Runs
ASSUME BoundAssumption == MaxTurns \in Nat /\ MaxFaults \in Nat /\ MaxCrashes \in Nat

VARIABLES
    row,         \* table runs: status, stored result, "absent" without a row
    charged,     \* how often the run's usage was added to its key's row
    how,         \* the endpoint that started the run
    task,        \* where the run's coroutine is
    loop,        \* the run whose synchronous code holds the event loop
    worker, outcome, turns, \* the worker thread: stage, final status, turns
    published,   \* terminal phases published for the run
    subscribers, \* EventBus._subscribers: who owns a registered queue
    queue,       \* the queue of each subscriber, callbacks in flight included
    stream, shown, \* SSE generator of the run; the result frame it sent
    socket, follows, \* WebSocket handler; the run_id it follows, or "all"
    response,    \* what POST /v1/orchestrate answered
    faults, crashes

runVars == <<row, charged, how, task, loop>>
workVars == <<worker, outcome, turns>>
busVars == <<published, subscribers, queue>>
watchVars == <<stream, shown, socket, follows>>
vars == <<runVars, workVars, busVars, watchVars, response, faults, crashes>>

Watchers == Runs \cup Sockets
Outcomes == {"done", "max_iterations"}
Terminal == {"done", "error"}
Event == [run : Runs, phase : Terminal \cup {"progress"}]

\* The positions of a run's code that hold the event loop.
Holding == {"creating", "starting", "finishing", "metering", "failing", "publishing"}
Idle == loop = "idle"
At(r, pos) == loop = r /\ task[r] = pos

Step(r, pos) == task' = [task EXCEPT ![r] = pos] /\ loop' = r
Leave(r, pos) == task' = [task EXCEPT ![r] = pos] /\ loop' = "idle"

\* EventBus.publish: one call_soon_threadsafe per subscriber, in order.
Publish(r, phase) ==
    queue' = [w \in Watchers |->
                IF w \in subscribers
                THEN Append(queue[w], [run |-> r, phase |-> phase]) ELSE queue[w]]

\* A registry or key-store operation raises (locked database, full disk).
Fault == faults < MaxFaults /\ faults' = faults + 1

Init ==
    /\ row = [r \in Runs |-> [status |-> "absent", result |-> "none"]]
    /\ charged = [r \in Runs |-> 0]
    /\ how = [r \in Runs |-> "none"]
    /\ task = [r \in Runs |-> "none"]
    /\ loop = "idle"
    /\ worker = [r \in Runs |-> "none"]
    /\ outcome = [r \in Runs |-> "none"]
    /\ turns = [r \in Runs |-> 0]
    /\ published = [r \in Runs |-> {}]
    /\ subscribers = {}
    /\ queue = [w \in Watchers |-> <<>>]
    /\ stream = [r \in Runs |-> "off"]
    /\ shown = [r \in Runs |-> "nothing"]
    /\ socket = [s \in Sockets |-> "off"]
    /\ follows = [s \in Sockets |-> "all"]
    /\ response = [r \in Runs |-> "none"]
    /\ faults = 0 /\ crashes = 0

-----------------------------------------------------------------------------
(* Starting a run. *)

\* orchestrate: the graph goes to a worker thread, without a row.
PostSync(r) ==
    /\ Idle /\ task[r] = "none"
    /\ how' = [how EXCEPT ![r] = "sync"]
    /\ Leave(r, "waiting")
    /\ worker' = [worker EXCEPT ![r] = "working"]
    /\ UNCHANGED <<row, charged, outcome, turns, busVars, watchVars, response, faults, crashes>>

\* start_run, up to start_background_run.
PostRun(r) ==
    /\ Idle /\ task[r] = "none"
    /\ how' = [how EXCEPT ![r] = "runs"]
    /\ Step(r, "creating")
    /\ UNCHANGED <<row, charged, workVars, busVars, watchVars, response, faults, crashes>>

\* orchestrate_stream: it subscribes before it starts the run.
PostStream(r) ==
    /\ Idle /\ task[r] = "none"
    /\ how' = [how EXCEPT ![r] = "stream"]
    /\ Step(r, "creating")
    /\ subscribers' = subscribers \cup {r}
    /\ UNCHANGED <<row, charged, workVars, published, queue, watchVars, response, faults, crashes>>

\* RunRegistry.create.
Create(r) ==
    /\ At(r, "creating")
    /\ row' = [row EXCEPT ![r].status = "pending"]
    /\ Step(r, "starting")
    /\ UNCHANGED <<charged, how, workVars, busVars, watchVars, response, faults, crashes>>

\* set_status("running"), create_task; the response goes out. A stream's generator
\* has its queue, and has not been iterated yet.
SetRunning(r) ==
    /\ At(r, "starting")
    /\ row' = [row EXCEPT ![r].status = "running"]
    /\ Leave(r, "waiting")
    /\ worker' = [worker EXCEPT ![r] = "working"]
    /\ stream' = [stream EXCEPT ![r] = IF how[r] = "stream" THEN "ready" ELSE @]
    /\ UNCHANGED <<charged, how, outcome, turns, busVars, shown, socket, follows, response, faults, crashes>>

\* create or set_status raises: the request is answered 500. No row, or a row
\* left pending; a stream's subscription is left registered.
StartFails(r) ==
    /\ At(r, "creating") \/ At(r, "starting")
    /\ Fault
    /\ Leave(r, "refused")
    /\ UNCHANGED <<row, charged, how, workVars, busVars, watchVars, response, crashes>>

-----------------------------------------------------------------------------
(* The worker thread (OrchestrationRun, with its events). *)

Turn(r) ==
    /\ worker[r] = "working" /\ turns[r] < MaxTurns
    /\ turns' = [turns EXCEPT ![r] = @ + 1]
    /\ Publish(r, "progress")
    /\ UNCHANGED <<runVars, worker, outcome, published, subscribers, watchVars, response, faults, crashes>>

Announce(r) ==
    /\ worker[r] = "working"
    /\ worker' = [worker EXCEPT ![r] = "announced"]
    /\ \E v \in Outcomes : outcome' = [outcome EXCEPT ![r] = v]
    /\ published' = [published EXCEPT ![r] = @ \cup {"done"}]
    /\ Publish(r, "done")
    /\ UNCHANGED <<runVars, turns, subscribers, watchVars, response, faults, crashes>>

ThreadEnds(r) ==
    /\ \/ worker[r] = "announced" /\ worker' = [worker EXCEPT ![r] = "returned"]
       \/ worker[r] = "working" /\ worker' = [worker EXCEPT ![r] = "raised"]
    /\ UNCHANGED <<runVars, outcome, turns, busVars, watchVars, response, faults, crashes>>

-----------------------------------------------------------------------------
(* The run's coroutine after its await: no other coroutine runs meanwhile. *)

\* Faulty variant: the task has no except clause for the thread's exception.
ResumeUncaught(r) ==
    /\ Idle /\ task[r] = "waiting"
    /\ worker[r] = "returned"
    /\ Step(r, IF how[r] = "sync" THEN "metering" ELSE "finishing")
    /\ UNCHANGED <<row, charged, how, workVars, busVars, watchVars, response, faults, crashes>>

\* Faulty variant: a raised run is logged and forgotten.
ResumeForgetful(r) ==
    /\ Idle /\ task[r] = "waiting"
    /\ \/ worker[r] = "returned" /\ Step(r, IF how[r] = "sync" THEN "metering" ELSE "finishing")
       \/ worker[r] = "raised" /\ Leave(r, "over")
    /\ UNCHANGED <<row, charged, how, workVars, busVars, watchVars, response, faults, crashes>>

Resume(r) ==
    /\ Idle /\ task[r] = "waiting"
    /\ IF how[r] = "sync"
       THEN \/ worker[r] = "returned" /\ Step(r, "metering") /\ UNCHANGED response
            \/ /\ worker[r] = "raised"
               /\ Leave(r, "over")
               /\ response' = [response EXCEPT ![r] = "502"]
       ELSE /\ \/ worker[r] = "returned" /\ Step(r, "finishing")
               \/ worker[r] = "raised" /\ Step(r, "failing")
            /\ UNCHANGED response
    /\ UNCHANGED <<row, charged, how, workVars, busVars, watchVars, faults, crashes>>

\* Faulty variant: the verdict is stored without the result.
FinishStatusOnly(r) ==
    /\ At(r, "finishing")
    /\ row' = [row EXCEPT ![r].status = outcome[r]]
    /\ Step(r, "metering")
    /\ UNCHANGED <<charged, how, workVars, busVars, watchVars, response, faults, crashes>>

\* registry.finish(record.run_id, final["status"], result).
Finish(r) ==
    /\ At(r, "finishing")
    /\ row' = [row EXCEPT ![r] = [status |-> outcome[r], result |-> outcome[r]]]
    /\ Step(r, "metering")
    /\ UNCHANGED <<charged, how, workVars, busVars, watchVars, response, faults, crashes>>

\* keys.add_usage for a run with a key (_meter_key in orchestrate).
Meter(r) ==
    /\ At(r, "metering")
    /\ charged' = [charged EXCEPT ![r] = IF r \in Keyed THEN @ + 1 ELSE @]
    /\ Leave(r, "over")
    /\ response' = [response EXCEPT ![r] = IF how[r] = "sync" THEN "answer" ELSE @]
    /\ UNCHANGED <<row, how, workVars, busVars, watchVars, faults, crashes>>

\* Faulty variant: a failing finish is swallowed and the key is charged anyway.
StoreFailsThenCharges(r) ==
    /\ At(r, "finishing")
    /\ Fault
    /\ Step(r, "metering")
    /\ UNCHANGED <<row, charged, how, workVars, busVars, watchVars, response, crashes>>

\* Faulty variant: a failing charge is swallowed.
StoreFailsUncharged(r) ==
    /\ At(r, "metering") /\ r \in Keyed
    /\ Fault
    /\ Leave(r, "over")
    /\ UNCHANGED <<row, charged, how, workVars, busVars, watchVars, response, crashes>>

\* finish or add_usage raises: the background task turns to its except clause,
\* the synchronous request loses its answer.
StoreFails(r) ==
    /\ At(r, "finishing") \/ (At(r, "metering") /\ r \in Keyed)
    /\ Fault
    /\ IF how[r] = "sync"
       THEN Leave(r, "over") /\ response' = [response EXCEPT ![r] = "500"]
       ELSE Step(r, "failing") /\ UNCHANGED response
    /\ UNCHANGED <<row, charged, how, workVars, busVars, watchVars, crashes>>

\* Faulty variant: a status outside the record's documented set.
RecordFailureAsFailed(r) ==
    /\ At(r, "failing")
    /\ row' = [row EXCEPT ![r].status = "failed"]
    /\ Step(r, "publishing")
    /\ UNCHANGED <<charged, how, workVars, busVars, watchVars, response, faults, crashes>>

\* registry.fail: status and error are written, a stored result stays.
RecordFailure(r) ==
    /\ At(r, "failing")
    /\ row' = [row EXCEPT ![r].status = "error"]
    /\ Step(r, "publishing")
    /\ UNCHANGED <<charged, how, workVars, busVars, watchVars, response, faults, crashes>>

\* registry.fail raises inside the except clause: the task ends unheard.
FailureLost(r) ==
    /\ At(r, "failing")
    /\ Fault
    /\ Leave(r, "died")
    /\ UNCHANGED <<row, charged, how, workVars, busVars, watchVars, response, crashes>>

\* Faulty variant: the failure is recorded but no watcher is told.
PublishErrorSilent(r) ==
    /\ At(r, "publishing")
    /\ Leave(r, "over")
    /\ UNCHANGED <<row, charged, how, workVars, busVars, watchVars, response, faults, crashes>>

PublishError(r) ==
    /\ At(r, "publishing")
    /\ published' = [published EXCEPT ![r] = @ \cup {"error"}]
    /\ Publish(r, "error")
    /\ Leave(r, "over")
    /\ UNCHANGED <<row, charged, how, workVars, subscribers, watchVars, response, faults, crashes>>

-----------------------------------------------------------------------------
(* The SSE generator of a run. *)

\* Faulty variant: unsubscribe keeps the closed queue and drops the others.
CloseStreamInverted(r) ==
    /\ stream' = [stream EXCEPT ![r] = "closed"]
    /\ subscribers' = subscribers \cap {r}
    /\ queue' = [queue EXCEPT ![r] = <<>>]

CloseStream(r) ==
    /\ stream' = [stream EXCEPT ![r] = "closed"]
    /\ subscribers' = subscribers \ {r}
    /\ queue' = [queue EXCEPT ![r] = <<>>]

\* StreamingResponse asks for the first frame: only now the generator is inside its try.
StreamBegins(r) ==
    /\ Idle /\ stream[r] = "ready"
    /\ stream' = [stream EXCEPT ![r] = "open"]
    /\ UNCHANGED <<runVars, workVars, busVars, shown, socket, follows, response, faults, crashes>>

\* Faulty variant: the generator unsubscribes behind its loop and has no finally.
StreamDisconnectSubscribed(r) ==
    /\ Idle /\ stream[r] \in {"open", "ending"}
    /\ stream' = [stream EXCEPT ![r] = "closed"]
    /\ UNCHANGED <<runVars, workVars, busVars, shown, socket, follows, response, faults, crashes>>

\* The client is gone; the finally clause unsubscribes.
StreamDisconnect(r) ==
    /\ Idle /\ stream[r] \in {"open", "ending"}
    /\ CloseStream(r)
    /\ UNCHANGED <<runVars, workVars, published, shown, socket, follows, response, faults, crashes>>

\* The client is gone before the first frame: a generator that was never iterated
\* runs no finally clause, and its queue stays registered.
StreamAbandoned(r) ==
    /\ Idle /\ stream[r] = "ready"
    /\ stream' = [stream EXCEPT ![r] = "abandoned"]
    /\ UNCHANGED <<runVars, workVars, busVars, shown, socket, follows, response, faults, crashes>>

\* One event is taken: another run's is skipped, this run's becomes a frame.
StreamEvent(r) ==
    /\ Idle /\ stream[r] = "open" /\ queue[r] # <<>>
    /\ queue' = [queue EXCEPT ![r] = Tail(@)]
    /\ LET e == Head(queue[r])
       IN  stream' = [stream EXCEPT ![r] =
                        IF e.run = r /\ e.phase \in Terminal THEN "ending" ELSE @]
    /\ UNCHANGED <<runVars, workVars, published, subscribers, shown, socket, follows, response, faults, crashes>>

\* After the terminal frame: read the record, send the result frame, end.
StreamResult(r) ==
    /\ Idle /\ stream[r] = "ending"
    /\ shown' = [shown EXCEPT ![r] = IF row[r].result = "none" THEN "run_id only" ELSE row[r].result]
    /\ CloseStream(r)
    /\ UNCHANGED <<runVars, workVars, published, socket, follows, response, faults, crashes>>

-----------------------------------------------------------------------------
(* The telemetry WebSocket. *)

\* telemetry, once authorized: a run id the client knows, or the global feed.
SocketOpen(s) ==
    /\ Idle /\ socket[s] = "off"
    /\ \E f \in {r \in Runs : row[r].status # "absent"} \cup {"all"} :
        follows' = [follows EXCEPT ![s] = f]
    /\ socket' = [socket EXCEPT ![s] = "open"]
    /\ subscribers' = subscribers \cup {s}
    /\ UNCHANGED <<runVars, workVars, published, queue, stream, shown, response, faults, crashes>>

CloseSocket(s) ==
    /\ socket' = [socket EXCEPT ![s] = "closed"]
    /\ subscribers' = subscribers \ {s}
    /\ queue' = [queue EXCEPT ![s] = <<>>]


SocketEvent(s) ==
    /\ Idle /\ socket[s] = "open" /\ queue[s] # <<>>
    /\ LET e == Head(queue[s])
       IN  IF e.run = follows[s] /\ e.phase \in Terminal
           THEN CloseSocket(s)
           ELSE /\ queue' = [queue EXCEPT ![s] = Tail(@)]
                /\ UNCHANGED <<socket, subscribers>>
    /\ UNCHANGED <<runVars, workVars, published, stream, shown, follows, response, faults, crashes>>

\* _watch_disconnect returns, or a send fails.
SocketDisconnect(s) ==
    /\ Idle /\ socket[s] = "open"
    /\ CloseSocket(s)
    /\ UNCHANGED <<runVars, workVars, published, stream, shown, follows, response, faults, crashes>>

-----------------------------------------------------------------------------
\* The process dies (or is shut down: the cancelled tasks raise CancelledError,
\* which "except Exception" lets through) and a new one serves the same files.
Crash ==
    /\ crashes < MaxCrashes
    /\ crashes' = crashes + 1
    /\ loop' = "idle"
    /\ task' = [r \in Runs |-> IF task[r] \in Holding \cup {"waiting"} THEN "lost" ELSE task[r]]
    /\ worker' = [r \in Runs |-> IF worker[r] \in {"working", "announced"} THEN "lost" ELSE worker[r]]
    /\ subscribers' = {}
    /\ queue' = [w \in Watchers |-> <<>>]
    /\ stream' = [r \in Runs |-> IF stream[r] = "off" THEN "off" ELSE "closed"]
    /\ socket' = [s \in Sockets |-> IF socket[s] = "off" THEN "off" ELSE "closed"]
    /\ UNCHANGED <<row, charged, how, outcome, turns, published, shown, follows, response, faults>>

Post(r) == PostSync(r) \/ PostRun(r) \/ PostStream(r)
Start(r) == Create(r) \/ SetRunning(r) \/ StartFails(r)
Work(r) == Turn(r) \/ Announce(r) \/ ThreadEnds(r)
Settle(r) ==
    \/ Resume(r) \/ Finish(r) \/ Meter(r) \/ StoreFails(r)
    \/ RecordFailure(r) \/ FailureLost(r) \/ PublishError(r)
Stream(r) == StreamBegins(r) \/ StreamEvent(r) \/ StreamResult(r)
Next ==
    \/ \E r \in Runs : Post(r) \/ Start(r) \/ Work(r) \/ Settle(r)
                       \/ Stream(r) \/ StreamDisconnect(r) \/ StreamAbandoned(r)
    \/ \E s \in Sockets : SocketOpen(s) \/ SocketEvent(s) \/ SocketDisconnect(s)
    \/ Crash

\* asyncio resumes every ready coroutine, the executor runs every thread, and
\* run_orchestration ends (OrchestrationRun). Requests, disconnects and crashes
\* need not happen.
Fairness ==
    /\ \A r \in Runs : /\ WF_vars(Start(r)) /\ WF_vars(Work(r))
                       /\ WF_vars(Settle(r)) /\ WF_vars(Stream(r))
    /\ \A s \in Sockets : WF_vars(SocketEvent(s))

Spec == Init /\ [][Next]_vars
FairSpec == Spec /\ Fairness
-----------------------------------------------------------------------------
(* Correctness. *)

Row == [status : {"absent", "pending", "running", "error"} \cup Outcomes,
        result : Outcomes \cup {"none"}]
Position == Holding \cup {"none", "waiting", "over", "refused", "died", "lost"}

RunTypeOK ==
    /\ row \in [Runs -> Row]
    /\ charged \in [Runs -> Nat]
    /\ how \in [Runs -> {"none", "sync", "runs", "stream"}]
    /\ task \in [Runs -> Position]
    /\ loop \in Runs \cup {"idle"}

WorkTypeOK ==
    /\ worker \in [Runs -> {"none", "working", "announced", "returned", "raised", "lost"}]
    /\ outcome \in [Runs -> Outcomes \cup {"none"}]
    /\ turns \in [Runs -> Nat]
    /\ response \in [Runs -> {"none", "answer", "500", "502"}]
    /\ faults \in Nat /\ crashes \in Nat

WatchTypeOK ==
    /\ published \in [Runs -> SUBSET Terminal]
    /\ subscribers \subseteq Watchers
    /\ queue \in [Watchers -> Seq(Event)]
    /\ stream \in [Runs -> {"off", "ready", "open", "ending", "closed", "abandoned"}]
    /\ shown \in [Runs -> Outcomes \cup {"nothing", "run_id only"}]
    /\ socket \in [Sockets -> {"off", "open", "closed"}]
    /\ follows \in [Sockets -> Runs \cup {"all"}]

TypeOK == RunTypeOK /\ WorkTypeOK /\ WatchTypeOK

\* A key pays for a run at most once, and, for a background run, only when the
\* run's result is stored under a finished status: whichever of the two writes
\* fails, and wherever the process dies between them, nobody is charged for a
\* run that is reported as failed or never reported.
ChargedMeansDelivered ==
    \A r \in Runs :
        /\ charged[r] <= 1
        /\ charged[r] = 1 /\ how[r] # "sync" =>
               row[r].status \in Outcomes /\ row[r].result = row[r].status

\* A run of a key that is answered is charged, and so is one that is stored as
\* finished, unless the charge is still to come, the process died between the two
\* writes, or neither the charge nor the failure of it could be written. A task that
\* has ended in any other way left no finished run uncharged.
FinishedMeansCharged ==
    \A r \in Keyed :
        /\ response[r] = "answer" => charged[r] = 1
        /\ row[r].status \in Outcomes /\ charged[r] # 1 =>
               task[r] \in {"metering", "failing", "died", "lost"}

\* Who hears of an error can fetch it: the failure is committed before
\* Phase.ERROR is published, and neither a late finish nor a restart undoes it.
ErrorIsRecorded ==
    \A r \in Runs : "error" \in published[r] => row[r].status = "error"

\* A stream never waits for an event that went by: it subscribed before its run
\* started, so while it waits or is about to, a terminal event that was published is
\* still in its queue.
StreamMissesNothing ==
    \A r \in Runs :
        stream[r] \in {"ready", "open"} /\ published[r] # {} =>
            \E i \in DOMAIN queue[r] : queue[r][i].run = r /\ queue[r][i].phase \in Terminal

\* Every watcher that reads, or is about to, is subscribed; and who is subscribed is
\* one of them, or a stream whose generator was never entered, because its run was
\* refused or its client left before the first frame. Those subscriptions stay.
SubscribersAreWatching ==
    LET reading == {r \in Runs : \/ stream[r] \in {"ready", "open", "ending"}
                                 \/ how[r] = "stream" /\ task[r] \in {"creating", "starting"}}
                   \cup {s \in Sockets : socket[s] = "open"}
        unentered == {r \in Runs : how[r] = "stream" /\ (task[r] = "refused" \/ stream[r] = "abandoned")}
    IN  reading \subseteq subscribers /\ subscribers \subseteq reading \cup unentered

\* A row says running only while a task will settle it, unless the process died
\* with the task or the database refused to record the run's failure, and it
\* says pending only when its start broke off. Nothing repairs those rows.
UnsettledHasReason ==
    \A r \in Runs :
        /\ row[r].status = "running" =>
               task[r] \in {"waiting", "finishing", "failing", "died", "lost"}
        /\ row[r].status = "pending" => task[r] \in {"starting", "refused", "lost"}

\* What a polling client sees: the row, read while no run's code holds the loop.
SeenStatus(r) ==
    CASE At(r, "starting") -> "absent"
      [] loop = r /\ task[r] \in {"metering", "failing", "publishing"}
         /\ how[r] # "sync" -> "running"
      [] OTHER -> row[r].status
SeenResult(r) ==
    IF loop = r /\ task[r] \in {"metering", "failing", "publishing"}
    THEN "none" ELSE row[r].result
Contract == INSTANCE RunContract WITH
    status <- [r \in Runs |-> SeenStatus(r)],
    result <- [r \in Runs |-> SeenResult(r)]

\* Between a run's await and the end of its task no other coroutine runs, so a
\* client that polls sees verdicts and results only appear, never change, even
\* when a stored result is followed by a failing charge.
KeepsContract == Contract!Spec

\* While the process lives, a run that was started is settled, unless the
\* database refuses to record its failure.
RunSettles ==
    \A r \in Runs : row[r].status = "running" ~> row[r].status # "running" \/ task[r] \in {"died", "lost"}

\* A stream ends: after the run's DONE or ERROR, or with the client; only a run
\* whose failure could not be recorded leaves its stream waiting.
StreamEnds ==
    \A r \in Runs : stream[r] \in {"ready", "open"} ~>
        stream[r] \in {"closed", "abandoned"} \/ (task[r] = "died" /\ published[r] = {})


\* docs/api-reference.md: the stream ends with "a final `result` event with the
\* answer". DONE is published by the worker thread before the task stores it.
StreamResultHasAnswer ==
    \A r \in Runs : "done" \in published[r] => shown[r] # "run_id only"

\* docs/observability.md: "each run's tokens/cost are metered onto the API key".
\* The turns of a run that raised later are not.
EveryRunMetered ==
    \A r \in Keyed : task[r] = "over" /\ turns[r] > 0 => charged[r] = 1
=============================================================================
