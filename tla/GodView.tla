------------------------------ MODULE GodView ------------------------------
(***************************************************************************)
(* The God View page (frontend/app/page.tsx, lib/useTelemetry.ts,          *)
(* lib/api.ts, components/OrchestratorCanvas.tsx) over a backend that      *)
(* starts runs, publishes their events and stores their ends.              *)
(*                                                                         *)
(* React commits the state set since the last render and then runs the     *)
(* effects whose dependencies changed, with the values of that render:     *)
(* children first, then the hooks of the page in order. Requests and their *)
(* replies may overtake each other; a message handler runs alone.          *)
(* Abstracted: texts, layout, the health and template requests.            *)
(***************************************************************************)
EXTENDS Integers, SequencesExt

CONSTANTS
    MaxRuns, MaxFaults, \* bounds: submissions; failed requests and writes, lost connections
    Sandboxed, Failing, \* bounds: the submissions that may use the sandbox, and fail
    SharedIds \* BOOLEAN: tool call ids are function names (Gemini), not unique

ASSUME RunsAssumption == MaxRuns \in Nat

VARIABLES
    events, record,     \* backend: what a run published; its row and task
    start,              \* POST /v1/runs of each submission
    socket, from, sent, \* the run's WebSocket, its subscription, its progress
    fetches, asked,     \* GET /v1/runs/{id} in flight; how many were made
    runId, busy, error, result, phase, feed, \* React state; runId = 0 is null
    committed,          \* phase, runId and events.length of the last commit
    processed, view,    \* the canvas: refs, nodes and pulsing edges, timers
    faults

backend == <<events, record, start>>
net == <<socket, from, sent, fetches, asked>>
page == <<runId, busy, error, result, phase, feed>>
canvas == <<processed, view>>
vars == <<backend, net, page, committed, canvas, faults>>

Runs == 1 .. MaxRuns
Terminal == {"done", "error"}
IdOf(r) == IF SharedIds THEN 0 ELSE r
Event(kind, r) == [kind |-> kind, id |-> IdOf(r)]
Ended(r) == \E i \in DOMAIN events[r] : events[r][i].kind \in Terminal
Publish(r, kind) == events' = [events EXCEPT ![r] = Append(@, Event(kind, r))]

Fault == faults < MaxFaults /\ faults' = faults + 1

Init ==
    /\ events = [r \in Runs |-> <<>>]
    /\ record = [r \in Runs |-> "absent"]
    /\ start = [r \in Runs |-> "no"]
    /\ socket = [r \in Runs |-> "none"]
    /\ from = [r \in Runs |-> 0] /\ sent = [r \in Runs |-> 0]
    /\ fetches = {} /\ asked = [r \in Runs |-> 0]
    /\ runId = 0 /\ busy = FALSE /\ error = FALSE /\ result = 0
    /\ phase = "null" /\ feed = <<>>
    /\ committed = [phase |-> "null", runId |-> 0, length |-> 0]
    /\ processed = 0 /\ faults = 0
    /\ view = [nodes |-> {}, pulsing |-> {}, timers |-> <<>>]

-----------------------------------------------------------------------------
(* The backend, as far as the page sees it (RunLifecycle). *)

Create(r) ==
    /\ start[r] = "posted"
    /\ start' = [start EXCEPT ![r] = "created"]
    /\ record' = [record EXCEPT ![r] = "running"]
    /\ UNCHANGED <<events, net, page, committed, canvas, faults>>

RunSandbox(r) ==
    /\ record[r] = "running" /\ r \in Sandboxed
    /\ \/ events[r] = <<>> /\ Publish(r, "start")
       \/ Len(events[r]) = 1 /\ Last(events[r]).kind = "start" /\ Publish(r, "complete")
    /\ UNCHANGED <<record, start, net, page, committed, canvas, faults>>

\* respond publishes DONE; the task stores the result afterwards.
Announce(r) ==
    /\ record[r] = "running" /\ ~Ended(r)
    /\ events[r] # <<>> => Last(events[r]).kind = "complete"
    /\ Publish(r, "done")
    /\ UNCHANGED <<record, start, net, page, committed, canvas, faults>>

Store(r) ==
    /\ record[r] = "running" /\ Ended(r)
    /\ record' = [record EXCEPT ![r] = "finished"]
    /\ UNCHANGED <<events, start, net, page, committed, canvas, faults>>

\* registry.fail, of a run that raised or whose result could not be stored. The
\* error it stores is str(exc), which is empty for some exceptions: "mute".
RecordFailure(r) ==
    /\ record[r] = "running" /\ r \in Failing
    /\ \E recorded \in {"failed", "mute"} : record' = [record EXCEPT ![r] = recorded]
    /\ UNCHANGED <<events, start, net, page, committed, canvas, faults>>

\* registry.fail raises: the task dies, nothing is published any more, and the row
\* goes on reading as running.
FailureLost(r) ==
    /\ record[r] = "running" /\ r \in Failing /\ Fault
    /\ record' = [record EXCEPT ![r] = "stuck"]
    /\ UNCHANGED <<events, start, net, page, committed, canvas>>

\* Faulty variant: watchers are told at once, and the failure is not recorded.
PublishErrorAtOnce(r) ==
    /\ record[r] \in {"running", "failed", "mute"} /\ ~Ended(r) /\ r \in Failing
    /\ Publish(r, "error")
    /\ record' = [record EXCEPT ![r] = "lost"]
    /\ UNCHANGED <<start, net, page, committed, canvas, faults>>

PublishError(r) ==
    /\ record[r] \in {"failed", "mute"}
    /\ \A i \in DOMAIN events[r] : events[r][i].kind # "error"
    /\ Publish(r, "error")
    /\ UNCHANGED <<record, start, net, page, committed, canvas, faults>>

RunStep(r) ==
    \/ Create(r) \/ RunSandbox(r) \/ Announce(r) \/ Store(r)
    \/ RecordFailure(r) \/ FailureLost(r) \/ PublishError(r)

-----------------------------------------------------------------------------
(* Submitting. *)

\* handleSubmit, up to its await; the composer is disabled while busy.
Submit(r) ==
    /\ ~busy /\ start[r] = "no" /\ \A q \in 1 .. r - 1 : start[q] # "no"
    /\ start' = [start EXCEPT ![r] = "posted"]
    /\ error' = FALSE /\ result' = 0 /\ busy' = TRUE
    /\ UNCHANGED <<events, record, net, runId, phase, feed, committed, canvas, faults>>

StartReply(r) ==
    /\ start[r] = "created"
    /\ start' = [start EXCEPT ![r] = "replied"]
    /\ runId' = r
    /\ UNCHANGED <<events, record, net, busy, error, result, phase, feed, committed, canvas, faults>>

\* Refused, or unreachable before or after the run was created.
StartFails(r) ==
    /\ start[r] \in {"posted", "created"} /\ Fault
    /\ start' = [start EXCEPT ![r] = "failed"]
    /\ error' = TRUE /\ busy' = FALSE
    /\ UNCHANGED <<events, record, net, runId, result, phase, feed, committed, canvas>>

Starting == \E r \in Runs : start[r] \in {"posted", "created"}

-----------------------------------------------------------------------------
(* A commit and its effects. *)

\* One event on the canvas: a node and a pulsing edge for a sandbox that starts,
\* unless it has them; for one that is complete, a timer that removes them.
Draw(v, e) ==
    CASE e.kind = "start" /\ e.id \notin v.nodes ->
            [v EXCEPT !.nodes = @ \cup {e.id}, !.pulsing = @ \cup {e.id}]
      [] e.kind = "complete" ->
            [v EXCEPT !.pulsing = @ \ {e.id}, !.timers = Append(@, e.id)]
      [] OTHER -> v

\* Faulty variant: a new run clears the nodes but not the processed ref.
CanvasEffectsKeepingRef ==
    LET cleared == IF feed = <<>> /\ committed.length > 0 THEN [view EXCEPT !.nodes = {}, !.pulsing = {}] ELSE view
    IN  /\ view' = FoldLeft(Draw, cleared, SubSeq(feed, processed + 1, Len(feed)))
        /\ processed' = IF feed = <<>> THEN processed ELSE Len(feed)

\* The reset when events.length becomes 0, and the incremental drawing.
CanvasEffects ==
    LET cleared == IF feed = <<>> /\ committed.length > 0 THEN [view EXCEPT !.nodes = {}, !.pulsing = {}] ELSE view
    IN  /\ view' = FoldLeft(Draw, cleared, SubSeq(feed, processed + 1, Len(feed)))
        /\ processed' = Len(feed)

\* Faulty variant: no cleanup of the old socket.
SubscribeOnly ==
    /\ socket' = [socket EXCEPT ![runId] = "connecting"]
    /\ feed' = <<>> /\ phase' = "null"
    /\ UNCHANGED <<from, sent>>

\* useTelemetry: the cleanup closes the old socket, the effect opens a new one.
Subscribe ==
    /\ socket' = [r \in Runs |->
        IF r = runId THEN "connecting" ELSE IF socket[r] = "none" THEN "none" ELSE "closed"]
    /\ from' = [r \in Runs |-> 0] /\ sent' = [r \in Runs |-> 0]
    /\ feed' = <<>> /\ phase' = "null"

\* Faulty variant: every change of the phase fetches.
FetchesNowAlways == runId # 0 /\ phase # "null"

\* The effect on [phase, runId]. Its phase is the one of this render: for a new
\* run id, still the phase of the run before.
FetchesNow == runId # 0 /\ phase \in Terminal

Uncommitted == committed # [phase |-> phase, runId |-> runId, length |-> Len(feed)]

Commit ==
    /\ Uncommitted
    /\ CanvasEffects
    /\ IF runId # committed.runId THEN Subscribe ELSE UNCHANGED <<socket, from, sent, feed, phase>>
    /\ IF FetchesNow /\ (phase # committed.phase \/ runId # committed.runId)
       THEN /\ asked' = [asked EXCEPT ![runId] = @ + 1]
            /\ fetches' = fetches \cup {[run |-> runId, nth |-> asked'[runId], read |-> "no"]}
       ELSE UNCHANGED <<fetches, asked>>
    /\ committed' = [phase |-> phase, runId |-> runId, length |-> Len(feed)]
    /\ UNCHANGED <<backend, runId, busy, error, result, faults>>

\* The lingering time of a completed sandbox is over; all wait equally long.
TimerFires ==
    /\ view.timers # <<>>
    /\ view' = [nodes |-> view.nodes \ {Head(view.timers)},
                pulsing |-> view.pulsing \ {Head(view.timers)}, timers |-> Tail(view.timers)]
    /\ UNCHANGED <<backend, net, page, committed, processed, faults>>

-----------------------------------------------------------------------------
(* The network. *)

\* The server accepts and subscribes. A handshake takes longer than a render.
Connect(r) ==
    /\ socket[r] = "connecting" /\ ~Uncommitted
    /\ socket' = [socket EXCEPT ![r] = "open"]
    /\ from' = [from EXCEPT ![r] = Len(events[r])]
    /\ sent' = [sent EXCEPT ![r] = Len(events[r])]
    /\ UNCHANGED <<backend, fetches, asked, page, committed, canvas, faults>>

\* onmessage; the server closes the socket behind a terminal event.
Deliver(r) ==
    /\ socket[r] = "open" /\ sent[r] < Len(events[r])
    /\ LET e == events[r][sent[r] + 1]
       IN  /\ feed' = Append(feed, e)
           /\ phase' = IF e.kind \in Terminal THEN e.kind ELSE "executing_sandbox"
           /\ socket' = [socket EXCEPT ![r] = IF e.kind \in Terminal THEN "closed" ELSE @]
    /\ sent' = [sent EXCEPT ![r] = @ + 1]
    /\ UNCHANGED <<backend, from, fetches, asked, runId, busy, error, result, committed, canvas, faults>>

\* The connection is refused or lost; the page does not connect again.
Disconnect(r) ==
    /\ socket[r] \in {"connecting", "open"} /\ Fault
    /\ socket' = [socket EXCEPT ![r] = "closed"]
    /\ UNCHANGED <<backend, from, sent, fetches, asked, page, committed, canvas>>

\* GET /v1/runs/{id} reads the row.
Read(f) ==
    /\ f.read = "no"
    /\ fetches' = (fetches \ {f}) \cup {[f EXCEPT !.read = record[f.run]]}
    /\ UNCHANGED <<backend, socket, from, sent, asked, page, committed, canvas, faults>>

\* The reply arrives: then, which shows an error only if its text is not empty,
\* and finally.
Reply(f) ==
    /\ f.read # "no"
    /\ fetches' = fetches \ {f}
    /\ result' = IF f.read = "finished" THEN f.run ELSE 0
    /\ error' = (error \/ f.read = "failed")
    /\ busy' = FALSE
    /\ UNCHANGED <<backend, socket, from, sent, asked, runId, phase, feed, committed, canvas, faults>>

\* Faulty variant: busy is reset where the result is set.
FetchFailsBusy(f) ==
    /\ Fault
    /\ fetches' = fetches \ {f}
    /\ error' = TRUE
    /\ UNCHANGED <<backend, socket, from, sent, asked, runId, busy, result, phase, feed, committed, canvas>>

\* catch, and finally.
FetchFails(f) ==
    /\ Fault
    /\ fetches' = fetches \ {f}
    /\ error' = TRUE /\ busy' = FALSE
    /\ UNCHANGED <<backend, socket, from, sent, asked, runId, result, phase, feed, committed, canvas>>

Starts(r) == StartReply(r) \/ StartFails(r)
Fetching == \E f \in fetches : Read(f) \/ Reply(f) \/ FetchFails(f)
Feeding(r) == Connect(r) \/ Deliver(r)

Next ==
    \/ \E r \in Runs : RunStep(r) \/ Submit(r) \/ Starts(r) \/ Feeding(r) \/ Disconnect(r)
    \/ Commit \/ TimerFires \/ Fetching

\* React renders, the browser's requests end, and a run settles or its failure is
\* lost (RunLifecycle).
Fairness ==
    /\ \A r \in Runs : WF_vars(RunStep(r)) /\ WF_vars(Starts(r)) /\ WF_vars(Feeding(r))
    /\ WF_vars(Commit) /\ WF_vars(Fetching)

Spec == Init /\ [][Next]_vars /\ Fairness
-----------------------------------------------------------------------------
(* Correctness. *)

\* What the page shows of a run is a gapless piece of that run's events, from
\* the subscription on, in whatever order submissions and their replies went;
\* no socket of another run is left to write into it.
FeedIsOfTheRun ==
    committed.runId = runId /\ runId # 0 =>
        /\ feed = SubSeq(events[runId], from[runId] + 1, sent[runId])
        /\ \A r \in Runs \ {runId} : socket[r] \in {"none", "closed"}

\* A run that is shown as failed is shown without an answer of its own and with an
\* error, once its fetch is back: the failure is recorded before the page can hear
\* of it. The one exception is an exception without a text, whose recorded error
\* page.tsx takes for none.
ErrorIsShown ==
    phase = "error" /\ ~Uncommitted /\ ~Starting /\ (\A f \in fetches : f.run # runId) =>
        result # runId /\ (error \/ record[runId] = "mute")

\* Until some run has ended, the composer is released only with an error. After
\* that it may be, since a new run id meets the phase of the run before.
UnlockedHasReason ==
    runId # 0 /\ ~Starting /\ ~busy => error \/ \E r \in Runs : Ended(r)

\* Where ids are unique, the pulsing edges are those of the sandboxes that have
\* started and are not complete, whatever timers of earlier ones still run.
CanvasShowsOpenSandboxes ==
    ~SharedIds /\ ~Uncommitted =>
        LET ids(kind) == {feed[i].id : i \in {j \in DOMAIN feed : feed[j].kind = kind}}
        IN  /\ view.pulsing = ids("start") \ ids("complete")
            /\ view.pulsing \subseteq view.nodes /\ view.nodes \subseteq ids("start")

\* The page cannot learn of the end of its run: the connection was lost, or the
\* server subscribed it after the terminal event.
FeedLost ==
    /\ runId # 0 /\ committed.runId = runId
    /\ \/ socket[runId] = "closed" /\ phase \notin Terminal
       \/ \E i \in 1 .. from[runId] : events[runId][i].kind \in Terminal

\* The run came to no end: it failed, and its failure could not be recorded.
NeverTold == runId # 0 /\ record[runId] = "stuck" /\ ~Ended(runId)

\* The composer is released at last, unless the feed was lost, or the run's failure:
\* then its socket stays open and silent, and the composer stays disabled.
LockedEnds == busy ~> ~busy \/ FeedLost \/ NeverTold
=============================================================================
