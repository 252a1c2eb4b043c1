------------------------- MODULE RunLifecycleProofs -------------------------
(***************************************************************************)
(* Theorems about RunLifecycle, for any number of runs, sockets, turns,    *)
(* faults and crashes.  The argument: the position of a run's task fixes   *)
(* what its row holds and whether its key was charged (Settled), and the   *)
(* event loop admits one run's synchronous code at a time (LoopOwned).     *)
(***************************************************************************)
EXTENDS RunLifecycle, TLAPS

\* The event loop is held by the run whose code is between two awaits.
LoopOwned == \A r \in Runs : task[r] \in Holding <=> loop = r

\* A thread that announced its end has an outcome.
Concluded == \A r \in Runs : worker[r] \in {"announced", "returned"} => outcome[r] \in Outcomes

\* What the row of a background run and its charge are, by the task's position.
RowIs(r, statuses) == row[r].status \in statuses
NoResult(r) == row[r].result = "none"
Whole(r) == row[r].status \in Outcomes /\ row[r].result = row[r].status

Settled(r) ==
    /\ how[r] = "none" <=> task[r] = "none"
    /\ task[r] \in {"none", "creating"} => RowIs(r, {"absent"}) /\ NoResult(r)
    /\ task[r] = "starting" => RowIs(r, {"pending"}) /\ NoResult(r)
    /\ task[r] = "refused" => RowIs(r, {"absent", "pending"}) /\ NoResult(r)
    /\ task[r] \in {"creating", "starting", "refused", "finishing", "failing", "publishing", "died"} =>
           how[r] # "sync"
    /\ task[r] \in {"waiting", "finishing"} /\ how[r] # "sync" =>
           RowIs(r, {"running"}) /\ NoResult(r)
    /\ task[r] = "finishing" => outcome[r] \in Outcomes
    /\ task[r] = "metering" /\ how[r] # "sync" => Whole(r)
    /\ task[r] \in {"failing", "died"} => (RowIs(r, {"running"}) /\ NoResult(r)) \/ Whole(r)
    /\ task[r] = "publishing" => RowIs(r, {"error"})
    /\ task[r] = "over" /\ how[r] # "sync" =>
           RowIs(r, {"error"}) \/ (Whole(r) /\ (r \in Keyed => charged[r] = 1))
    /\ how[r] = "sync" => RowIs(r, {"absent"}) /\ NoResult(r)
    /\ how[r] = "sync" /\ task[r] = "over" /\ response[r] = "answer" /\ r \in Keyed =>
           charged[r] = 1

\* Charging and telling are the last step of a run.
Once(r) ==
    /\ charged[r] \in {0, 1}
    /\ charged[r] = 1 => task[r] = "over" /\ (how[r] # "sync" => Whole(r))
    /\ response[r] = "answer" => how[r] = "sync" /\ task[r] = "over"
    /\ "error" \in published[r] => RowIs(r, {"error"}) /\ task[r] = "over"
    /\ task[r] = "lost" /\ how[r] # "sync" /\ RowIs(r, {"running"}) => NoResult(r)

IInv ==
    /\ TypeOK
    /\ LoopOwned
    /\ Concluded
    /\ \A r \in Runs : Settled(r) /\ Once(r)

-----------------------------------------------------------------------------
LEMMA InitIInv == Init => IInv
<1> SUFFICES ASSUME Init PROVE IInv  OBVIOUS
<1>1. TypeOK
  BY BoundAssumption DEF Init, TypeOK, RunTypeOK, WorkTypeOK, WatchTypeOK, Row, Position,
     Outcomes, Terminal, Holding, Watchers
<1>2. LoopOwned  BY IdleAssumption DEF Init, LoopOwned, Holding
<1>3. Concluded  BY DEF Init, Concluded
<1>4. \A r \in Runs : Settled(r) /\ Once(r)
  BY DEF Init, Settled, Once, RowIs, NoResult, Whole
<1> QED BY <1>1, <1>2, <1>3, <1>4 DEF IInv

\* A run whose own variables a step leaves alone stays settled.
LEMMA Frame ==
  ASSUME NEW r \in Runs, Settled(r), Once(r),
         row'[r] = row[r], charged'[r] = charged[r], how'[r] = how[r],
         task'[r] = task[r], outcome'[r] = outcome[r],
         response'[r] = response[r], published'[r] = published[r]
  PROVE  Settled(r)' /\ Once(r)'
  BY DEF Settled, Once, RowIs, NoResult, Whole

\* Steps of threads and watchers that touch no run.
LEMMA NoRunTouched ==
  ASSUME IInv, TypeOK',
         UNCHANGED <<runVars, outcome, response, published>>,
         \A r \in Runs : worker'[r] \in {"announced", "returned"} =>
                             worker[r] \in {"announced", "returned"}
  PROVE  IInv'
<1>1. LoopOwned'  BY DEF IInv, LoopOwned, runVars
<1>2. Concluded'  BY DEF IInv, Concluded
<1>3. \A r \in Runs : Settled(r)' /\ Once(r)'  BY Frame DEF IInv, runVars
<1> QED BY <1>1, <1>2, <1>3 DEF IInv

\* What the invariant says before a step, in the parts the proofs cite.
LEMMA Before ==
  ASSUME IInv, NEW q \in Runs
  PROVE  /\ RunTypeOK /\ WorkTypeOK /\ WatchTypeOK /\ LoopOwned /\ Concluded
         /\ Settled(q) /\ Once(q)
  BY DEF IInv, TypeOK

\* The coroutine of q moves to position pos; the other coroutines stay put.
Moves(q, pos) ==
    /\ loop \in {"idle", q}
    /\ \/ Step(q, pos) /\ pos \in Holding
       \/ Leave(q, pos) /\ pos \notin Holding

LEMMA Moved ==
  ASSUME RunTypeOK, LoopOwned, NEW q \in Runs, NEW pos \in Position, Moves(q, pos)
  PROVE  /\ task' \in [Runs -> Position] /\ loop' \in Runs \cup {"idle"}
         /\ task'[q] = pos
         /\ \A r \in Runs \ {q} : task'[r] = task[r]
         /\ LoopOwned'
<1>1. task' = [task EXCEPT ![q] = pos]  BY DEF Moves, Step, Leave
<1>2. task \in [Runs -> Position]  BY DEF RunTypeOK
<1>3. task' \in [Runs -> Position] /\ task'[q] = pos
  BY <1>1, <1>2
<1>4. \A r \in Runs \ {q} : task'[r] = task[r]  BY <1>1, <1>2
<1>5. loop' \in Runs \cup {"idle"}  BY DEF Moves, Step, Leave
<1>6. ASSUME NEW r \in Runs PROVE task'[r] \in Holding <=> loop' = r
  <2>1. CASE r = q
    BY <2>1, <1>3, IdleAssumption DEF Moves, Step, Leave
  <2>2. CASE r # q
    <3>1. task'[r] = task[r]  BY <2>2, <1>4
    <3>2. loop # r  BY <2>2, IdleAssumption DEF Moves
    <3>3. task[r] \notin Holding  BY <3>2 DEF LoopOwned
    <3>4. loop' # r  BY <2>2, IdleAssumption DEF Moves, Step, Leave
    <3> QED BY <3>1, <3>3, <3>4
  <2> QED BY <2>1, <2>2
<1> QED BY <1>3, <1>4, <1>5, <1>6 DEF LoopOwned

\* A step of one run's coroutine: it was that run's turn on the event loop, or
\* nobody's, and the other runs' variables are untouched.
Others(q) ==
    \A r \in Runs \ {q} :
        /\ row'[r] = row[r] /\ charged'[r] = charged[r]
        /\ how'[r] = how[r] /\ outcome'[r] = outcome[r]
        /\ response'[r] = response[r] /\ published'[r] = published[r]

LEMMA OneRunTouched ==
  ASSUME IInv, NEW q \in Runs, NEW pos \in Position, Moves(q, pos),
         row' \in [Runs -> Row], charged' \in [Runs -> Nat],
         how' \in [Runs -> {"none", "sync", "runs", "stream"}],
         WorkTypeOK', WatchTypeOK', Concluded', Settled(q)', Once(q)', Others(q)
  PROVE  IInv'
<1>1. RunTypeOK /\ LoopOwned  BY Before
<1>2. /\ task' \in [Runs -> Position] /\ loop' \in Runs \cup {"idle"}
      /\ \A r \in Runs \ {q} : task'[r] = task[r]
      /\ LoopOwned'
  BY <1>1, Moved
<1>3. TypeOK'  BY <1>2 DEF TypeOK, RunTypeOK
<1>4. ASSUME NEW r \in Runs \ {q} PROVE Settled(r)' /\ Once(r)'
  <2>1. Settled(r) /\ Once(r)  BY DEF IInv
  <2> QED BY <2>1, <1>2, Frame DEF Others
<1>5. \A r \in Runs : Settled(r)' /\ Once(r)'  BY <1>4
<1> QED BY <1>2, <1>3, <1>5 DEF IInv

\* A step that rewrites the status of q's row only.
LEMMA StatusWritten ==
  ASSUME RunTypeOK, NEW q \in Runs,
         NEW s \in {"absent", "pending", "running", "error"} \cup Outcomes,
         row' = [row EXCEPT ![q].status = s]
  PROVE  /\ row' \in [Runs -> Row]
         /\ row'[q].status = s /\ row'[q].result = row[q].result
         /\ \A r \in Runs \ {q} : row'[r] = row[r]
<1>1. row \in [Runs -> Row]  BY DEF RunTypeOK
<1>2. row'[q] = [row[q] EXCEPT !.status = s]  BY <1>1
<1>3. row[q] \in Row  BY <1>1
<1>4. row'[q] \in Row /\ row'[q].status = s /\ row'[q].result = row[q].result
  BY <1>2, <1>3 DEF Row
<1>5. \A r \in Runs \ {q} : row'[r] = row[r]  BY <1>1
<1>6. row' \in [Runs -> Row]  BY <1>1, <1>4
<1> QED BY <1>4, <1>5, <1>6

\* What is published goes to queues of events.
LEMMA PublishType ==
  ASSUME WatchTypeOK, NEW r \in Runs, NEW phase \in Terminal \cup {"progress"}, Publish(r, phase)
  PROVE  queue' \in [Watchers -> Seq(Event)]
<1>1. [run |-> r, phase |-> phase] \in Event  BY DEF Event
<1>2. queue \in [Watchers -> Seq(Event)]  BY DEF WatchTypeOK
<1>3. \A w \in Watchers : Append(queue[w], [run |-> r, phase |-> phase]) \in Seq(Event)
  BY <1>1, <1>2
<1> QED BY <1>2, <1>3 DEF Publish

-----------------------------------------------------------------------------
(* One lemma per action of a run's coroutine. *)

LEMMA PostStep == ASSUME IInv, NEW q \in Runs, Post(q) PROVE IInv'
<1> USE Before DEF RunTypeOK
<1>0. Idle /\ task[q] = "none"  BY DEF Post, PostSync, PostRun, PostStream
<1>a. how[q] = "none" /\ RowIs(q, {"absent"}) /\ NoResult(q) /\ charged[q] = 0
      /\ response[q] # "answer" /\ "error" \notin published[q]
  BY <1>0 DEF Settled, Once
<1>1. CASE PostSync(q)
  <2>1. Moves(q, "waiting")  BY <1>1 DEF PostSync, Moves, Idle, Holding
  <2>2. /\ UNCHANGED <<row, charged, outcome, response, published>>
        /\ how' = [how EXCEPT ![q] = "sync"]
        /\ worker' = [worker EXCEPT ![q] = "working"]
    BY <1>1 DEF PostSync, busVars
  <2>3. task'[q] = "waiting" /\ how'[q] = "sync"  BY <2>1, <2>2, Moved DEF Position
  <2>4. WorkTypeOK'  BY <1>1, <2>2 DEF WorkTypeOK, PostSync
  <2>5. WatchTypeOK'  BY <1>1 DEF WatchTypeOK, PostSync, busVars, watchVars
  <2>6. Concluded'  BY <2>2 DEF WorkTypeOK, Concluded
  <2>7. Settled(q)' /\ Once(q)'
    BY <1>a, <2>2, <2>3 DEF Settled, Once, RowIs, NoResult
  <2>8. Others(q)  BY <2>2 DEF Others
  <2>9. how' \in [Runs -> {"none", "sync", "runs", "stream"}]  BY <2>2
  <2> QED BY <2>1, <2>2, <2>4, <2>5, <2>6, <2>7, <2>8, <2>9, OneRunTouched DEF Position
<1>2. CASE PostRun(q) \/ PostStream(q)
  <2>1. Moves(q, "creating")  BY <1>2 DEF PostRun, PostStream, Moves, Idle, Holding
  <2>2. PICK mode \in {"runs", "stream"} :
          /\ UNCHANGED <<row, charged, workVars, response, published>>
          /\ how' = [how EXCEPT ![q] = mode]
    BY <1>2 DEF PostRun, PostStream, busVars
  <2>3. task'[q] = "creating" /\ how'[q] = mode  BY <2>1, <2>2, Moved DEF Position, Holding
  <2>4. WorkTypeOK'  BY <1>2, <2>2 DEF WorkTypeOK, PostRun, PostStream, workVars
  <2>5. WatchTypeOK'  BY <1>2 DEF WatchTypeOK, PostRun, PostStream, busVars, watchVars, Watchers
  <2>6. Concluded'  BY <2>2 DEF workVars, Concluded
  <2>7. Settled(q)' /\ Once(q)'
    BY <1>a, <2>2, <2>3 DEF Settled, Once, RowIs, NoResult
  <2>8. Others(q)  BY <2>2 DEF Others, workVars
  <2>9. how' \in [Runs -> {"none", "sync", "runs", "stream"}]  BY <2>2
  <2> QED BY <2>1, <2>2, <2>4, <2>5, <2>6, <2>7, <2>8, <2>9, OneRunTouched DEF Position, Holding
<1> QED BY <1>1, <1>2 DEF Post

LEMMA CreateStep == ASSUME IInv, NEW q \in Runs, Create(q) PROVE IInv'
<1> USE Before
<1>0. loop = q /\ task[q] = "creating"  BY DEF Create, At
<1>1. Moves(q, "starting")  BY <1>0 DEF Create, Moves, Holding
<1>2. row' = [row EXCEPT ![q].status = "pending"]
      /\ UNCHANGED <<charged, how, outcome, response, published>>
  BY DEF Create, workVars, busVars
<1>3. task'[q] = "starting"  BY <1>1, Moved DEF Position, Holding
<1>4. /\ row' \in [Runs -> Row] /\ row'[q].status = "pending" /\ row'[q].result = row[q].result
      /\ \A r \in Runs \ {q} : row'[r] = row[r]
  BY <1>2, StatusWritten
<1>5. WorkTypeOK' /\ WatchTypeOK'
  BY DEF WorkTypeOK, WatchTypeOK, Create, workVars, busVars, watchVars
<1>6. Concluded'  BY DEF Concluded, Create, workVars
<1>7. Settled(q)' /\ Once(q)'
  BY <1>0, <1>2, <1>3, <1>4 DEF Settled, Once, RowIs, NoResult
<1>8. Others(q)  BY <1>2, <1>4 DEF Others
<1> QED BY <1>1, <1>2, <1>4, <1>5, <1>6, <1>7, <1>8, OneRunTouched DEF Position, Holding, RunTypeOK

LEMMA SetRunningStep == ASSUME IInv, NEW q \in Runs, SetRunning(q) PROVE IInv'
<1> USE Before
<1>0. loop = q /\ task[q] = "starting"  BY DEF SetRunning, At
<1>1. Moves(q, "waiting")  BY <1>0 DEF SetRunning, Moves, Holding
<1>2. row' = [row EXCEPT ![q].status = "running"]
      /\ UNCHANGED <<charged, how, outcome, response, published>>
  BY DEF SetRunning, busVars
<1>3. task'[q] = "waiting"  BY <1>1, Moved DEF Position
<1>4. /\ row' \in [Runs -> Row] /\ row'[q].status = "running" /\ row'[q].result = row[q].result
      /\ \A r \in Runs \ {q} : row'[r] = row[r]
  BY <1>2, StatusWritten
<1>5. WorkTypeOK' /\ WatchTypeOK'
  BY DEF WorkTypeOK, WatchTypeOK, SetRunning, busVars
<1>6. Concluded'  BY DEF WorkTypeOK, Concluded, SetRunning
<1>7. Settled(q)' /\ Once(q)'
  BY <1>0, <1>2, <1>3, <1>4 DEF Settled, Once, RowIs, NoResult
<1>8. Others(q)  BY <1>2, <1>4 DEF Others
<1> QED BY <1>1, <1>2, <1>4, <1>5, <1>6, <1>7, <1>8, OneRunTouched DEF Position, RunTypeOK

LEMMA StartFailsStep == ASSUME IInv, NEW q \in Runs, StartFails(q) PROVE IInv'
<1> USE Before
<1>0. loop = q /\ task[q] \in {"creating", "starting"}  BY DEF StartFails, At
<1>1. Moves(q, "refused")  BY <1>0 DEF StartFails, Moves, Holding
<1>2. UNCHANGED <<row, charged, how, outcome, response, published>>
  BY DEF StartFails, workVars, busVars
<1>3. task'[q] = "refused"  BY <1>1, Moved DEF Position
<1>4. WorkTypeOK'  BY DEF WorkTypeOK, StartFails, Fault, workVars
<1>5. WatchTypeOK'  BY DEF WatchTypeOK, StartFails, busVars, watchVars
<1>6. Concluded'  BY DEF Concluded, StartFails, workVars
<1>7. Settled(q)' /\ Once(q)'
  BY <1>0, <1>2, <1>3 DEF Settled, Once, RowIs, NoResult
<1>8. Others(q)  BY <1>2 DEF Others
<1> QED BY <1>1, <1>2, <1>4, <1>5, <1>6, <1>7, <1>8, OneRunTouched DEF Position, RunTypeOK

LEMMA ResumeStep == ASSUME IInv, NEW q \in Runs, Resume(q) PROVE IInv'
<1> USE Before
<1>0. loop = "idle" /\ task[q] = "waiting" /\ worker[q] \in {"returned", "raised"}
  BY DEF Resume, Idle
<1>1. UNCHANGED <<row, charged, how, worker, outcome, turns, faults, crashes, busVars, watchVars>>
  BY DEF Resume, workVars
<1>2. Concluded'  BY <1>1 DEF Concluded
<1>3. WatchTypeOK' /\ UNCHANGED published  BY <1>1 DEF WatchTypeOK, busVars, watchVars
<1>4. CASE how[q] = "sync" /\ worker[q] = "raised"
  <2>1. Moves(q, "over") /\ response' = [response EXCEPT ![q] = "502"]
    BY <1>0, <1>4 DEF Resume, Moves, Holding
  <2>2. task'[q] = "over"  BY <2>1, Moved DEF Position
  <2>3. WorkTypeOK' /\ response'[q] = "502"  BY <1>1, <2>1 DEF WorkTypeOK
  <2>4. Settled(q)' /\ Once(q)'
    BY <1>0, <1>1, <1>3, <1>4, <2>2, <2>3 DEF Settled, Once, RowIs, NoResult
  <2>5. Others(q)  BY <1>1, <1>3, <2>1 DEF Others
  <2> QED BY <1>1, <1>2, <1>3, <2>1, <2>3, <2>4, <2>5, OneRunTouched DEF Position, RunTypeOK
<1>5. CASE how[q] # "sync" \/ worker[q] = "returned"
  <2>1. PICK pos \in {"metering", "finishing", "failing"} :
          /\ Step(q, pos)
          /\ how[q] = "sync" <=> pos = "metering"
          /\ pos = "finishing" => worker[q] = "returned"
    BY <1>0, <1>5 DEF Resume
  <2>2. Moves(q, pos) /\ UNCHANGED response  BY <1>0, <1>5, <2>1 DEF Resume, Moves, Holding
  <2>3. task'[q] = pos  BY <2>2, Moved DEF Position, Holding
  <2>4. WorkTypeOK'  BY <1>1, <2>2 DEF WorkTypeOK
  <2>5. worker[q] = "returned" => outcome[q] \in Outcomes  BY DEF Concluded
  <2>6. Settled(q)' /\ Once(q)'
    BY <1>0, <1>1, <1>3, <2>1, <2>2, <2>3, <2>5 DEF Settled, Once, RowIs, NoResult
  <2>7. Others(q)  BY <1>1, <1>3, <2>2 DEF Others
  <2> QED BY <1>1, <1>2, <1>3, <2>2, <2>4, <2>6, <2>7, OneRunTouched DEF Position, Holding, RunTypeOK
<1> QED BY <1>0, <1>4, <1>5

LEMMA FinishStep == ASSUME IInv, NEW q \in Runs, Finish(q) PROVE IInv'
<1> USE Before
<1>0. loop = q /\ task[q] = "finishing"  BY DEF Finish, At
<1>1. outcome[q] \in Outcomes  BY <1>0 DEF Settled
<1>2. Moves(q, "metering")  BY <1>0 DEF Finish, Moves, Holding
<1>3. row' = [row EXCEPT ![q] = [status |-> outcome[q], result |-> outcome[q]]]
      /\ UNCHANGED <<charged, how, outcome, response, published>>
  BY DEF Finish, workVars, busVars
<1>4. /\ row' \in [Runs -> Row]
      /\ row'[q].status = outcome[q] /\ row'[q].result = outcome[q]
      /\ \A r \in Runs \ {q} : row'[r] = row[r]
  BY <1>1, <1>3 DEF RunTypeOK, Row
<1>5. task'[q] = "metering"  BY <1>2, Moved DEF Position, Holding
<1>6. WorkTypeOK' /\ WatchTypeOK'
  BY DEF WorkTypeOK, WatchTypeOK, Finish, workVars, busVars, watchVars
<1>7. Concluded'  BY DEF Concluded, Finish, workVars
<1>8. Settled(q)' /\ Once(q)'
  <2>1. how[q] # "sync" /\ how[q] # "none" /\ charged[q] = 0
        /\ response[q] # "answer" /\ "error" \notin published[q]
    BY <1>0 DEF Settled, Once
  <2> QED BY <1>1, <1>3, <1>4, <1>5, <2>1 DEF Settled, Once, Whole
<1>9. Others(q)  BY <1>3, <1>4 DEF Others
<1> QED BY <1>2, <1>3, <1>4, <1>6, <1>7, <1>8, <1>9, OneRunTouched DEF Position, Holding, RunTypeOK

LEMMA MeterStep == ASSUME IInv, NEW q \in Runs, Meter(q) PROVE IInv'
<1> USE Before
<1>0. loop = q /\ task[q] = "metering"  BY DEF Meter, At
<1>1. Moves(q, "over")  BY <1>0 DEF Meter, Moves, Holding
<1>2. /\ charged' = [charged EXCEPT ![q] = IF q \in Keyed THEN @ + 1 ELSE @]
      /\ response' = [response EXCEPT ![q] = IF how[q] = "sync" THEN "answer" ELSE @]
      /\ UNCHANGED <<row, how, outcome, published>>
  BY DEF Meter, workVars, busVars
<1>3. task'[q] = "over"  BY <1>1, Moved DEF Position
<1>4. charged[q] = 0 /\ response[q] # "answer" /\ how[q] # "none" /\ "error" \notin published[q]
  BY <1>0 DEF Settled, Once
<1>5. /\ charged' \in [Runs -> Nat]
      /\ charged'[q] = IF q \in Keyed THEN 1 ELSE 0
      /\ response'[q] = IF how[q] = "sync" THEN "answer" ELSE response[q]
  BY <1>2, <1>4 DEF RunTypeOK, WorkTypeOK
<1>6. WorkTypeOK' /\ WatchTypeOK'
  <2>1. WorkTypeOK'  BY <1>2 DEF WorkTypeOK, Meter, workVars
  <2>2. WatchTypeOK'  BY DEF WatchTypeOK, Meter, busVars, watchVars
  <2> QED BY <2>1, <2>2
<1>7. Concluded'  BY DEF Concluded, Meter, workVars
<1>8. Settled(q)' /\ Once(q)'
  BY <1>0, <1>2, <1>3, <1>4, <1>5 DEF Settled, Once, RowIs, NoResult, Whole
<1>9. Others(q)  BY <1>2 DEF Others, RunTypeOK, WorkTypeOK
<1> QED BY <1>1, <1>2, <1>5, <1>6, <1>7, <1>8, <1>9, OneRunTouched DEF Position, RunTypeOK

LEMMA StoreFailsStep == ASSUME IInv, NEW q \in Runs, StoreFails(q) PROVE IInv'
<1> USE Before
<1>0. loop = q /\ task[q] \in {"finishing", "metering"}  BY DEF StoreFails, At
<1>1. UNCHANGED <<row, charged, how, workVars, busVars, watchVars, crashes>> /\ Fault
  BY DEF StoreFails
<1>2. Concluded'  BY <1>1 DEF Concluded, workVars
<1>3. WatchTypeOK' /\ UNCHANGED published  BY <1>1 DEF WatchTypeOK, busVars, watchVars
<1>4. charged[q] = 0 /\ how[q] # "none" /\ response[q] # "answer" /\ "error" \notin published[q]
  BY <1>0 DEF Settled, Once
<1>5. CASE how[q] = "sync"
  <2>1. Moves(q, "over") /\ response' = [response EXCEPT ![q] = "500"]
    BY <1>0, <1>5 DEF StoreFails, Moves, Holding
  <2>2. task'[q] = "over"  BY <2>1, Moved DEF Position
  <2>3. WorkTypeOK' /\ response'[q] = "500"  BY <1>1, <2>1 DEF WorkTypeOK, workVars, Fault
  <2>4. Settled(q)' /\ Once(q)'
    BY <1>1, <1>3, <1>4, <1>5, <2>2, <2>3 DEF Settled, Once, RowIs, NoResult, workVars
  <2>5. Others(q)  BY <1>1, <1>3, <2>1 DEF Others, workVars
  <2> QED BY <1>1, <1>2, <1>3, <2>1, <2>3, <2>4, <2>5, OneRunTouched DEF Position, RunTypeOK
<1>6. CASE how[q] # "sync"
  <2>1. Moves(q, "failing") /\ UNCHANGED response
    BY <1>0, <1>6 DEF StoreFails, Moves, Holding
  <2>2. task'[q] = "failing"  BY <2>1, Moved DEF Position, Holding
  <2>3. WorkTypeOK'  BY <1>1, <2>1 DEF WorkTypeOK, workVars, Fault
  <2>4. Settled(q)' /\ Once(q)'
    BY <1>0, <1>1, <1>3, <1>4, <1>6, <2>1, <2>2 DEF Settled, Once, RowIs, NoResult, Whole, workVars
  <2>5. Others(q)  BY <1>1, <1>3, <2>1 DEF Others, workVars
  <2> QED BY <1>1, <1>2, <1>3, <2>1, <2>3, <2>4, <2>5, OneRunTouched DEF Position, Holding, RunTypeOK
<1> QED BY <1>5, <1>6

LEMMA RecordFailureStep == ASSUME IInv, NEW q \in Runs, RecordFailure(q) PROVE IInv'
<1> USE Before
<1>0. loop = q /\ task[q] = "failing"  BY DEF RecordFailure, At
<1>1. Moves(q, "publishing")  BY <1>0 DEF RecordFailure, Moves, Holding
<1>2. row' = [row EXCEPT ![q].status = "error"]
      /\ UNCHANGED <<charged, how, outcome, response, published>>
  BY DEF RecordFailure, workVars, busVars
<1>3. task'[q] = "publishing"  BY <1>1, Moved DEF Position, Holding
<1>4. /\ row' \in [Runs -> Row] /\ row'[q].status = "error" /\ row'[q].result = row[q].result
      /\ \A r \in Runs \ {q} : row'[r] = row[r]
  BY <1>2, StatusWritten
<1>5. WorkTypeOK' /\ WatchTypeOK'
  BY DEF WorkTypeOK, WatchTypeOK, RecordFailure, workVars, busVars, watchVars
<1>6. Concluded'  BY DEF Concluded, RecordFailure, workVars
<1>7. charged[q] = 0 /\ how[q] # "none" /\ how[q] # "sync" /\ response[q] # "answer"
      /\ "error" \notin published[q]
  BY <1>0 DEF Settled, Once
<1>8. Settled(q)' /\ Once(q)'
  BY <1>2, <1>3, <1>4, <1>7 DEF Settled, Once, RowIs
<1>9. Others(q)  BY <1>2, <1>4 DEF Others
<1> QED BY <1>1, <1>2, <1>4, <1>5, <1>6, <1>8, <1>9, OneRunTouched DEF Position, Holding, RunTypeOK

LEMMA FailureLostStep == ASSUME IInv, NEW q \in Runs, FailureLost(q) PROVE IInv'
<1> USE Before
<1>0. loop = q /\ task[q] = "failing"  BY DEF FailureLost, At
<1>1. Moves(q, "died")  BY <1>0 DEF FailureLost, Moves, Holding
<1>2. UNCHANGED <<row, charged, how, outcome, response, published>>
  BY DEF FailureLost, workVars, busVars
<1>3. task'[q] = "died"  BY <1>1, Moved DEF Position
<1>4. WorkTypeOK'  BY DEF WorkTypeOK, FailureLost, Fault, workVars
<1>5. WatchTypeOK'  BY DEF WatchTypeOK, FailureLost, busVars, watchVars
<1>6. Concluded'  BY DEF Concluded, FailureLost, workVars
<1>7. Settled(q)' /\ Once(q)'
  BY <1>0, <1>2, <1>3 DEF Settled, Once, RowIs, NoResult, Whole
<1>8. Others(q)  BY <1>2 DEF Others
<1> QED BY <1>1, <1>2, <1>4, <1>5, <1>6, <1>7, <1>8, OneRunTouched DEF Position, RunTypeOK

LEMMA PublishErrorStep == ASSUME IInv, NEW q \in Runs, PublishError(q) PROVE IInv'
<1> USE Before
<1>0. loop = q /\ task[q] = "publishing"  BY DEF PublishError, At
<1>1. Moves(q, "over")  BY <1>0 DEF PublishError, Moves, Holding
<1>2. /\ published' = [published EXCEPT ![q] = @ \cup {"error"}]
      /\ UNCHANGED <<row, charged, how, outcome, response>>
  BY DEF PublishError, workVars
<1>3. task'[q] = "over"  BY <1>1, Moved DEF Position
<1>4. queue' \in [Watchers -> Seq(Event)]  BY PublishType DEF PublishError, Terminal
<1>5. WorkTypeOK'  BY DEF WorkTypeOK, PublishError, workVars
<1>6. WatchTypeOK'
  <2>1. published' \in [Runs -> SUBSET Terminal]  BY <1>2 DEF WatchTypeOK, Terminal
  <2>2. UNCHANGED <<subscribers, stream, shown, socket, follows>>
    BY DEF PublishError, watchVars
  <2> QED BY <1>4, <2>1, <2>2 DEF WatchTypeOK
<1>7. Concluded'  BY DEF Concluded, PublishError, workVars
<1>8. charged[q] = 0 /\ how[q] # "none" /\ how[q] # "sync" /\ response[q] # "answer"
      /\ RowIs(q, {"error"})
  BY <1>0 DEF Settled, Once
<1>9. Settled(q)' /\ Once(q)'
  BY <1>2, <1>3, <1>8 DEF Settled, Once, RowIs
<1>10. Others(q)  BY <1>2 DEF Others, WatchTypeOK
<1> QED BY <1>1, <1>2, <1>5, <1>6, <1>7, <1>9, <1>10, OneRunTouched DEF Position, RunTypeOK

-----------------------------------------------------------------------------
(* Steps of the worker threads, which run beside the event loop. *)

LEMMA WorkStep == ASSUME IInv, NEW q \in Runs, Work(q) PROVE IInv'
<1> USE Before
<1>0. UNCHANGED runVars /\ RunTypeOK'
  BY DEF Work, Turn, Announce, ThreadEnds, RunTypeOK, runVars
<1>1. CASE Turn(q)
  <2>1. queue' \in [Watchers -> Seq(Event)]  BY <1>1, PublishType DEF Turn
  <2>2. WatchTypeOK'  BY <1>1, <2>1 DEF Turn, WatchTypeOK, watchVars
  <2>3. WorkTypeOK'  BY <1>1 DEF Turn, WorkTypeOK
  <2> QED BY <1>0, <1>1, <2>2, <2>3, NoRunTouched DEF Turn, TypeOK
<1>2. CASE ThreadEnds(q)
  <2>1. WatchTypeOK'  BY <1>2 DEF ThreadEnds, WatchTypeOK, busVars, watchVars
  <2>2. WorkTypeOK'  BY <1>2 DEF ThreadEnds, WorkTypeOK
  <2>3. UNCHANGED <<outcome, response, published>>  BY <1>2 DEF ThreadEnds, busVars
  <2>4. \A r \in Runs : worker'[r] \in {"announced", "returned"} =>
                            worker[r] \in {"announced", "returned"}
    BY <1>2 DEF ThreadEnds, WorkTypeOK
  <2> QED BY <1>0, <2>1, <2>2, <2>3, <2>4, NoRunTouched DEF TypeOK
<1>3. CASE Announce(q)
  <2>1. PICK v \in Outcomes : outcome' = [outcome EXCEPT ![q] = v]  BY <1>3 DEF Announce
  <2>2. queue' \in [Watchers -> Seq(Event)]  BY <1>3, PublishType DEF Announce, Terminal
  <2>3. published' = [published EXCEPT ![q] = @ \cup {"done"}]
        /\ worker' = [worker EXCEPT ![q] = "announced"] /\ UNCHANGED response
    BY <1>3 DEF Announce
  <2>4. WatchTypeOK'
    <3>1. published' \in [Runs -> SUBSET Terminal]  BY <2>3 DEF WatchTypeOK, Terminal
    <3>2. UNCHANGED <<subscribers, stream, shown, socket, follows>>
      BY <1>3 DEF Announce, watchVars
    <3> QED BY <2>2, <3>1, <3>2 DEF WatchTypeOK
  <2>5. WorkTypeOK'  BY <1>3, <2>1, <2>3 DEF Announce, WorkTypeOK
  <2>6. Concluded'  BY <2>1, <2>3 DEF Concluded, WorkTypeOK
  <2>7. LoopOwned'  BY <1>0 DEF LoopOwned, runVars
  <2>8. \A r \in Runs : /\ outcome[r] \in Outcomes => outcome'[r] \in Outcomes
                        /\ "error" \in published'[r] <=> "error" \in published[r]
    BY <2>1, <2>3 DEF WorkTypeOK, WatchTypeOK
  <2>9. ASSUME NEW r \in Runs PROVE Settled(r)' /\ Once(r)'
    BY <1>0, <2>3, <2>8 DEF Settled, Once, RowIs, NoResult, Whole, runVars
  <2> QED BY <1>0, <2>4, <2>5, <2>6, <2>7, <2>9 DEF IInv, TypeOK
<1> QED BY <1>1, <1>2, <1>3 DEF Work

-----------------------------------------------------------------------------
(* Steps of streams and sockets. *)

LEMMA WatchStep ==
  ASSUME IInv, WatchTypeOK', UNCHANGED <<runVars, workVars, published, response, faults, crashes>>
  PROVE  IInv'
<1>1. RunTypeOK /\ WorkTypeOK  BY DEF IInv, TypeOK
<1>2. RunTypeOK'  BY <1>1 DEF RunTypeOK, runVars
<1>3. WorkTypeOK'  BY <1>1 DEF WorkTypeOK, workVars
<1> QED BY <1>2, <1>3, NoRunTouched DEF TypeOK, workVars

LEMMA TailType ==
  ASSUME WatchTypeOK, NEW w \in Watchers, queue[w] # <<>>
  PROVE  /\ [queue EXCEPT ![w] = Tail(@)] \in [Watchers -> Seq(Event)]
         /\ Head(queue[w]) \in Event
<1>1. queue \in [Watchers -> Seq(Event)]  BY DEF WatchTypeOK
<1>2. Tail(queue[w]) \in Seq(Event) /\ Head(queue[w]) \in Event  BY <1>1
<1> QED BY <1>1, <1>2

LEMMA EmptyType ==
  ASSUME WatchTypeOK, NEW w \in Watchers
  PROVE  [queue EXCEPT ![w] = <<>>] \in [Watchers -> Seq(Event)]
<1>1. queue \in [Watchers -> Seq(Event)]  BY DEF WatchTypeOK
<1>2. <<>> \in Seq(Event)  OBVIOUS
<1> QED BY <1>1, <1>2

LEMMA StreamStep ==
  ASSUME IInv, NEW q \in Runs, Stream(q) \/ StreamDisconnect(q) \/ StreamAbandoned(q)
  PROVE  IInv'
<1>0. WatchTypeOK /\ RunTypeOK /\ q \in Watchers  BY DEF IInv, TypeOK, Watchers
<1>1. CASE StreamEvent(q)
  <2>1. queue' \in [Watchers -> Seq(Event)]  BY <1>0, <1>1, TailType DEF StreamEvent
  <2>2. stream' \in [Runs -> {"off", "ready", "open", "ending", "closed", "abandoned"}]
    BY <1>0, <1>1 DEF StreamEvent, WatchTypeOK
  <2>3. UNCHANGED <<published, subscribers, shown, socket, follows>>  BY <1>1 DEF StreamEvent
  <2>4. WatchTypeOK'  BY <1>0, <2>1, <2>2, <2>3 DEF WatchTypeOK
  <2> QED BY <1>1, <2>4, WatchStep DEF StreamEvent
<1>2. ASSUME CloseStream(q), UNCHANGED <<published, socket, follows>>,
             shown' \in [Runs -> Outcomes \cup {"nothing", "run_id only"}]
      PROVE  WatchTypeOK'
  <2>1. queue' \in [Watchers -> Seq(Event)]  BY <1>0, <1>2, EmptyType DEF CloseStream
  <2>2. stream' \in [Runs -> {"off", "ready", "open", "ending", "closed", "abandoned"}]
        /\ subscribers' \subseteq Watchers
    BY <1>0, <1>2 DEF CloseStream, WatchTypeOK
  <2> QED BY <1>0, <1>2, <2>1, <2>2 DEF WatchTypeOK
<1>3. CASE StreamResult(q)
  <2>1. row[q].result \in Outcomes \cup {"none"}  BY <1>0 DEF RunTypeOK, Row
  <2>2. shown' \in [Runs -> Outcomes \cup {"nothing", "run_id only"}]
    BY <1>0, <1>3, <2>1 DEF StreamResult, WatchTypeOK
  <2>3. WatchTypeOK'  BY <1>2, <1>3, <2>2 DEF StreamResult
  <2> QED BY <1>3, <2>3, WatchStep DEF StreamResult
<1>4. CASE StreamDisconnect(q)
  <2>1. shown' \in [Runs -> Outcomes \cup {"nothing", "run_id only"}]
    BY <1>0, <1>4 DEF StreamDisconnect, WatchTypeOK
  <2>2. WatchTypeOK'  BY <1>2, <1>4, <2>1 DEF StreamDisconnect
  <2> QED BY <1>4, <2>2, WatchStep DEF StreamDisconnect
<1>5. CASE StreamBegins(q) \/ StreamAbandoned(q)
  <2>1. stream' \in [Runs -> {"off", "ready", "open", "ending", "closed", "abandoned"}]
    BY <1>0, <1>5 DEF StreamBegins, StreamAbandoned, WatchTypeOK
  <2>2. UNCHANGED <<busVars, shown, socket, follows>>  BY <1>5 DEF StreamBegins, StreamAbandoned
  <2>3. WatchTypeOK'  BY <1>0, <2>1, <2>2 DEF WatchTypeOK, busVars
  <2> QED BY <1>5, <2>2, <2>3, WatchStep DEF StreamBegins, StreamAbandoned, busVars
<1> QED BY <1>1, <1>3, <1>4, <1>5 DEF Stream

LEMMA SocketStep ==
  ASSUME IInv, NEW s \in Sockets, SocketOpen(s) \/ SocketEvent(s) \/ SocketDisconnect(s)
  PROVE  IInv'
<1>0. WatchTypeOK /\ s \in Watchers  BY DEF IInv, TypeOK, Watchers
<1>1. CASE SocketOpen(s)
  <2>1. follows' \in [Sockets -> Runs \cup {"all"}]
    BY <1>0, <1>1 DEF SocketOpen, WatchTypeOK
  <2>2. socket' \in [Sockets -> {"off", "open", "closed"}] /\ subscribers' \subseteq Watchers
    BY <1>0, <1>1 DEF SocketOpen, WatchTypeOK
  <2>3. WatchTypeOK'  BY <1>0, <1>1, <2>1, <2>2 DEF SocketOpen, WatchTypeOK
  <2> QED BY <1>1, <2>3, WatchStep DEF SocketOpen
<1>2. ASSUME CloseSocket(s), UNCHANGED <<published, stream, shown, follows>>
      PROVE  WatchTypeOK'
  <2>1. queue' \in [Watchers -> Seq(Event)]  BY <1>0, <1>2, EmptyType DEF CloseSocket
  <2>2. socket' \in [Sockets -> {"off", "open", "closed"}] /\ subscribers' \subseteq Watchers
    BY <1>0, <1>2 DEF CloseSocket, WatchTypeOK
  <2> QED BY <1>0, <1>2, <2>1, <2>2 DEF WatchTypeOK
<1>3. CASE SocketEvent(s)
  <2>1. CASE CloseSocket(s)  BY <1>2, <1>3, <2>1, WatchStep DEF SocketEvent
  <2>2. CASE ~CloseSocket(s)
    <3>1. queue' = [queue EXCEPT ![s] = Tail(@)]
          /\ UNCHANGED <<socket, subscribers, published, stream, shown, follows>>
      BY <1>3, <2>2 DEF SocketEvent
    <3>2. queue' \in [Watchers -> Seq(Event)]  BY <1>0, <1>3, <3>1, TailType DEF SocketEvent
    <3>3. WatchTypeOK'  BY <1>0, <3>1, <3>2 DEF WatchTypeOK
    <3> QED BY <1>3, <3>3, WatchStep DEF SocketEvent
  <2> QED BY <2>1, <2>2
<1>4. CASE SocketDisconnect(s)  BY <1>2, <1>4, WatchStep DEF SocketDisconnect
<1> QED BY <1>1, <1>3, <1>4

-----------------------------------------------------------------------------
(* The process dies: the tasks are lost, the rows stay. *)

LEMMA CrashStep == ASSUME IInv, Crash PROVE IInv'
<1>0. RunTypeOK /\ WorkTypeOK /\ WatchTypeOK /\ Concluded  BY DEF IInv, TypeOK
<1>1. /\ UNCHANGED <<row, charged, how, outcome, response, published>>
      /\ loop' = "idle"
      /\ task' = [r \in Runs |->
                    IF task[r] \in Holding \cup {"waiting"} THEN "lost" ELSE task[r]]
      /\ worker' = [r \in Runs |->
                      IF worker[r] \in {"working", "announced"} THEN "lost" ELSE worker[r]]
  BY DEF Crash
<1>2. \A r \in Runs : task'[r] = IF task[r] \in Holding \cup {"waiting"} THEN "lost" ELSE task[r]
  BY <1>1
<1>3. RunTypeOK'  BY <1>0, <1>1, <1>2 DEF RunTypeOK, Position
<1>4. WorkTypeOK'
  <2>1. worker' \in [Runs -> {"none", "working", "announced", "returned", "raised", "lost"}]
    BY <1>0, <1>1 DEF WorkTypeOK
  <2>2. crashes' \in Nat /\ UNCHANGED <<turns, faults>>  BY <1>0 DEF WorkTypeOK, Crash
  <2> QED BY <1>0, <1>1, <2>1, <2>2 DEF WorkTypeOK
<1>5. WatchTypeOK'
  <2>1. queue' \in [Watchers -> Seq(Event)]  BY DEF Crash
  <2>2. stream' \in [Runs -> {"off", "ready", "open", "ending", "closed", "abandoned"}]
        /\ socket' \in [Sockets -> {"off", "open", "closed"}]
        /\ subscribers' \subseteq Watchers
    BY DEF Crash
  <2>3. UNCHANGED <<shown, follows>>  BY DEF Crash
  <2> QED BY <1>0, <1>1, <2>1, <2>2, <2>3 DEF WatchTypeOK
<1>6. LoopOwned'  BY <1>1, <1>2, IdleAssumption DEF LoopOwned, Holding
<1>7. Concluded'  BY <1>0, <1>1 DEF Concluded
<1>8. ASSUME NEW r \in Runs PROVE Settled(r)' /\ Once(r)'
  <2>1. Settled(r) /\ Once(r) /\ task[r] \in Position  BY <1>0 DEF IInv, RunTypeOK
  <2>2. CASE task'[r] = task[r]  BY <1>1, <2>1, <2>2, Frame
  <2>3. CASE task[r] \in Holding \cup {"waiting"} /\ task'[r] = "lost"
    <3>1. charged[r] = 0 /\ response[r] # "answer" /\ "error" \notin published[r]
          /\ how[r] # "none"
      BY <2>1, <2>3 DEF Settled, Once, Holding
    <3>2. how[r] = "sync" => RowIs(r, {"absent"}) /\ NoResult(r)  BY <2>1 DEF Settled
    <3>3. how[r] # "sync" /\ RowIs(r, {"running"}) => NoResult(r)
      BY <2>1, <2>3 DEF Settled, Holding, RowIs, Whole, Outcomes
    <3> QED BY <1>1, <2>3, <3>1, <3>2, <3>3 DEF Settled, Once, RowIs, NoResult, Whole
  <2> QED BY <1>2, <2>1, <2>2, <2>3
<1> QED BY <1>3, <1>4, <1>5, <1>6, <1>7, <1>8 DEF IInv, TypeOK

-----------------------------------------------------------------------------
LEMMA StepIInv == IInv /\ [Next]_vars => IInv'
<1> SUFFICES ASSUME IInv, [Next]_vars PROVE IInv'  OBVIOUS
<1>1. ASSUME NEW r \in Runs, Post(r) \/ Start(r) \/ Work(r) PROVE IInv'
  BY <1>1, PostStep, CreateStep, SetRunningStep, StartFailsStep, WorkStep DEF Start
<1>2. ASSUME NEW r \in Runs, Settle(r) PROVE IInv'
  BY <1>2, ResumeStep, FinishStep, MeterStep, StoreFailsStep, RecordFailureStep,
     FailureLostStep, PublishErrorStep DEF Settle
<1>3. ASSUME NEW r \in Runs, Stream(r) \/ StreamDisconnect(r) \/ StreamAbandoned(r) PROVE IInv'
  BY <1>3, StreamStep
<1>4. ASSUME NEW s \in Sockets, SocketOpen(s) \/ SocketEvent(s) \/ SocketDisconnect(s)
      PROVE IInv'
  BY <1>4, SocketStep
<1>5. CASE Crash  BY <1>5, CrashStep
<1>6. CASE UNCHANGED vars
  <2>1. WatchTypeOK  BY DEF IInv, TypeOK
  <2>2. WatchTypeOK'  BY <1>6, <2>1 DEF WatchTypeOK, vars, busVars, watchVars
  <2> QED BY <1>6, <2>2, WatchStep DEF vars, busVars
<1> QED BY <1>1, <1>2, <1>3, <1>4, <1>5, <1>6 DEF Next

THEOREM Inductive == Spec => []IInv
<1> QED BY InitIInv, StepIInv, PTL DEF Spec

-----------------------------------------------------------------------------
(* The theorems. *)

\* The backend's state keeps its types, with any number of requests, sockets,
\* failing database operations and restarts.
THEOREM TypeCorrect == Spec => []TypeOK
<1>1. IInv => TypeOK  BY DEF IInv
<1> QED BY <1>1, Inductive, PTL

\* No key pays twice for a run, or for a background run whose result is not
\* stored: the charge is the last step of the task, and it follows the result.
THEOREM ChargesWhatIsDelivered == Spec => []ChargedMeansDelivered
<1>1. IInv => ChargedMeansDelivered  BY DEF IInv, Once, Whole, ChargedMeansDelivered
<1> QED BY <1>1, Inductive, PTL

\* A run of a key is charged if it was answered, or if it is stored as finished and
\* nothing broke: a failing charge turns the row into an error, or takes the answer
\* back. What is left uncharged is a row that the process died behind, or whose charge
\* and failure were both refused by the databases.
THEOREM ChargesWhatIsFinished == Spec => []FinishedMeansCharged
<1>1. ASSUME IInv, NEW r \in Keyed
      PROVE  /\ response[r] = "answer" => charged[r] = 1
             /\ row[r].status \in Outcomes /\ charged[r] # 1 =>
                    task[r] \in {"metering", "failing", "died", "lost"}
  <2>1. r \in Runs /\ Settled(r) /\ Once(r) /\ task[r] \in Position
    BY <1>1, KeyedAssumption DEF IInv, TypeOK, RunTypeOK
  <2>2. CASE how[r] = "sync"
    BY <1>1, <2>1, <2>2 DEF Settled, Once, RowIs, Outcomes
  <2>3. CASE how[r] # "sync"
    BY <1>1, <2>1, <2>3 DEF Settled, Once, RowIs, Outcomes, Position, Holding
  <2> QED BY <2>2, <2>3
<1>2. IInv => FinishedMeansCharged  BY <1>1 DEF FinishedMeansCharged
<1> QED BY <1>2, Inductive, PTL

\* Who hears Phase.ERROR of the task finds the failure in the run's row, for
\* good: the row is written first and no other step writes it again.
THEOREM ErrorsAreRecorded == Spec => []ErrorIsRecorded
<1>1. IInv => ErrorIsRecorded  BY DEF IInv, Once, RowIs, ErrorIsRecorded
<1> QED BY <1>1, Inductive, PTL

\* A row that is not settled has a task that will settle it, or was left by a
\* start that broke off, a failure that could not be recorded, or a dead process.
THEOREM UnsettledRowsHaveReasons == Spec => []UnsettledHasReason
<1>1. ASSUME IInv, NEW r \in Runs
      PROVE  /\ row[r].status = "running" =>
                    task[r] \in {"waiting", "finishing", "failing", "died", "lost"}
             /\ row[r].status = "pending" => task[r] \in {"starting", "refused", "lost"}
  <2>1. Settled(r) /\ task[r] \in Position  BY <1>1 DEF IInv, TypeOK, RunTypeOK
  <2> QED BY <2>1 DEF Settled, RowIs, Whole, Outcomes, Position, Holding
<1>2. IInv => UnsettledHasReason  BY <1>1 DEF UnsettledHasReason
<1> QED BY <1>2, Inductive, PTL

-----------------------------------------------------------------------------
(* Streams and sockets.  A second invariant, about a run's watchers: a run   *)
(* cannot be announced before its thread starts, its thread does not start   *)
(* before its stream is registered, and a queue gives up a terminal event of *)
(* its run only to a stream that then stops waiting.                         *)

Early == {"none", "creating", "starting", "refused"}

TerminalQueued(r) ==
    \E i \in DOMAIN queue[r] : queue[r][i].run = r /\ queue[r][i].phase \in Terminal

Watched(r) ==
    /\ task[r] \in Early => worker[r] = "none" /\ published[r] = {} /\ stream[r] = "off"
    /\ task[r] = "none" => r \notin subscribers
    /\ stream[r] \in {"ready", "open", "ending"} => r \in subscribers
    /\ how[r] = "stream" /\ task[r] \in {"creating", "starting"} => r \in subscribers
    /\ r \in subscribers =>
           \/ stream[r] \in {"ready", "open", "ending"}
           \/ how[r] = "stream" /\ task[r] \in {"creating", "starting", "refused"}
           \/ how[r] = "stream" /\ stream[r] = "abandoned"
    /\ stream[r] = "ready" => how[r] = "stream"
    /\ stream[r] \in {"ready", "open"} /\ published[r] # {} => TerminalQueued(r)

WInv ==
    /\ \A r \in Runs : Watched(r)
    /\ \A s \in Sockets : s \in subscribers <=> socket[s] = "open"

\* Appending keeps a queued terminal event; so does taking another one.
LEMMA AppendKeepsTerminal ==
  ASSUME NEW q \in Seq(Event), NEW e \in Event, NEW r,
         \E i \in DOMAIN q : q[i].run = r /\ q[i].phase \in Terminal
  PROVE  \E i \in DOMAIN Append(q, e) :
             Append(q, e)[i].run = r /\ Append(q, e)[i].phase \in Terminal
<1>1. PICK i \in 1..Len(q) : q[i].run = r /\ q[i].phase \in Terminal  OBVIOUS
<1>2. i \in DOMAIN Append(q, e) /\ Append(q, e)[i] = q[i]  BY <1>1
<1> QED BY <1>1, <1>2

LEMMA AppendAddsTerminal ==
  ASSUME NEW q \in Seq(Event), NEW r \in Runs, NEW phase \in Terminal
  PROVE  LET e == [run |-> r, phase |-> phase]
         IN  \E i \in DOMAIN Append(q, e) :
                 Append(q, e)[i].run = r /\ Append(q, e)[i].phase \in Terminal
<1> DEFINE e == [run |-> r, phase |-> phase]
<1>1. e \in Event /\ e.run = r /\ e.phase \in Terminal  BY DEF Event
<1> HIDE DEF e
<1>2. Len(q) + 1 \in DOMAIN Append(q, e) /\ Append(q, e)[Len(q) + 1] = e  BY <1>1
<1>3. \E i \in DOMAIN Append(q, e) :
          Append(q, e)[i].run = r /\ Append(q, e)[i].phase \in Terminal
  BY <1>1, <1>2
<1> QED BY <1>3 DEF e

LEMMA TailKeepsTerminal ==
  ASSUME NEW q \in Seq(Event), q # <<>>, NEW r,
         \E i \in DOMAIN q : q[i].run = r /\ q[i].phase \in Terminal,
         ~(Head(q).run = r /\ Head(q).phase \in Terminal)
  PROVE  \E i \in DOMAIN Tail(q) : Tail(q)[i].run = r /\ Tail(q)[i].phase \in Terminal
<1>1. PICK i \in 1..Len(q) : q[i].run = r /\ q[i].phase \in Terminal  OBVIOUS
<1>2. i # 1  BY <1>1
<1>3. i - 1 \in DOMAIN Tail(q) /\ Tail(q)[i - 1] = q[i]
  <2>1. Len(Tail(q)) = Len(q) - 1 /\ DOMAIN Tail(q) = 1..Len(Tail(q))  OBVIOUS
  <2>2. i - 1 \in 1..(Len(q) - 1)  BY <1>1, <1>2
  <2>3. \A j \in 1..(Len(q) - 1) : Tail(q)[j] = q[j + 1]  OBVIOUS
  <2>4. Tail(q)[i - 1] = q[(i - 1) + 1]  BY <2>2, <2>3
  <2>5. (i - 1) + 1 = i  BY <1>1
  <2> QED BY <2>1, <2>2, <2>4, <2>5
<1> QED BY <1>1, <1>3

\* A run whose own variables, and whose queue up to additions, a step leaves
\* alone stays watched.
LEMMA WatchedFrame ==
  ASSUME NEW r \in Runs, Watched(r),
         how'[r] = how[r], task'[r] = task[r], worker'[r] = worker[r],
         published'[r] = published[r], stream'[r] = stream[r],
         r \in subscribers' <=> r \in subscribers,
         TerminalQueued(r) => TerminalQueued(r)'
  PROVE  Watched(r)'
  BY DEF Watched

\* What a publication does to the queues and to the run it is about.
LEMMA Published ==
  ASSUME WatchTypeOK, NEW q \in Runs, NEW phase \in Terminal \cup {"progress"},
         Publish(q, phase)
  PROVE  /\ \A r \in Runs : TerminalQueued(r) => TerminalQueued(r)'
         /\ phase \in Terminal /\ q \in subscribers => TerminalQueued(q)'
<1>1. queue \in [Watchers -> Seq(Event)] /\ Runs \subseteq Watchers
  BY DEF WatchTypeOK, Watchers
<1>2. \A w \in Watchers : queue'[w] = IF w \in subscribers
                                      THEN Append(queue[w], [run |-> q, phase |-> phase])
                                      ELSE queue[w]
  BY DEF Publish
<1>3. [run |-> q, phase |-> phase] \in Event  BY DEF Event
<1>4. ASSUME NEW r \in Runs, TerminalQueued(r) PROVE TerminalQueued(r)'
  <2>1. queue[r] \in Seq(Event) /\ r \in Watchers  BY <1>1
  <2>2. CASE r \in subscribers
    <3>1. queue'[r] = Append(queue[r], [run |-> q, phase |-> phase])  BY <1>2, <2>1, <2>2
    <3> QED BY <1>3, <1>4, <2>1, <3>1, AppendKeepsTerminal DEF TerminalQueued
  <2>3. CASE r \notin subscribers
    BY <1>2, <1>4, <2>1, <2>3 DEF TerminalQueued
  <2> QED BY <2>2, <2>3
<1>5. ASSUME phase \in Terminal, q \in subscribers PROVE TerminalQueued(q)'
  <2>1. queue[q] \in Seq(Event) /\ q \in Watchers  BY <1>1
  <2>2. queue'[q] = Append(queue[q], [run |-> q, phase |-> phase])  BY <1>2, <1>5, <2>1
  <2> QED BY <1>5, <2>1, <2>2, AppendAddsTerminal DEF TerminalQueued
<1> QED BY <1>4, <1>5

-----------------------------------------------------------------------------
(* WInv, by the kind of step. *)

LEMMA InitWInv == Init => WInv
  BY DEF Init, WInv, Watched, TerminalQueued

\* A request arrives; a stream subscribes.
LEMMA PostWatched == ASSUME IInv, WInv, NEW q \in Runs, Post(q) PROVE WInv'
<1>1. RunTypeOK /\ WorkTypeOK /\ Watched(q)  BY Before DEF WInv
<1>2. task[q] = "none" /\ q \notin Sockets
  BY DisjointAssumption DEF Post, PostSync, PostRun, PostStream
<1>3. /\ UNCHANGED <<queue, published, stream, socket>>
      /\ \A r \in Runs \ {q} : /\ how'[r] = how[r] /\ task'[r] = task[r] /\ worker'[r] = worker[r]
                               /\ r \in subscribers' <=> r \in subscribers
      /\ \A s \in Sockets : s \in subscribers' <=> s \in subscribers
  BY <1>1, <1>2 DEF Post, PostSync, PostRun, PostStream, Leave, Step, RunTypeOK, WorkTypeOK,
     busVars, watchVars, workVars
<1>4. Watched(q)'
  <2>1. CASE PostSync(q)
    <3>1. task'[q] = "waiting" /\ subscribers' = subscribers
      BY <1>1, <2>1 DEF PostSync, Leave, RunTypeOK, busVars
    <3> QED BY <1>1, <1>2, <1>3, <3>1 DEF Watched, Early, TerminalQueued
  <2>2. CASE PostRun(q)
    <3>1. /\ task'[q] = "creating" /\ how'[q] = "runs"
          /\ subscribers' = subscribers /\ worker' = worker
      BY <1>1, <2>2 DEF PostRun, Step, RunTypeOK, busVars, workVars
    <3> QED BY <1>1, <1>2, <1>3, <3>1 DEF Watched, Early, TerminalQueued
  <2>3. CASE PostStream(q)
    <3>1. /\ task'[q] = "creating" /\ how'[q] = "stream"
          /\ q \in subscribers' /\ worker' = worker
      BY <1>1, <2>3 DEF PostStream, Step, RunTypeOK, workVars
    <3> QED BY <1>1, <1>2, <1>3, <3>1 DEF Watched, Early, TerminalQueued
  <2> QED BY <2>1, <2>2, <2>3 DEF Post
<1>5. \A r \in Runs \ {q} : Watched(r)'
  BY <1>3, WatchedFrame DEF WInv, TerminalQueued
<1> QED BY <1>3, <1>4, <1>5 DEF WInv

\* A run starts: the generator gets the queue that was registered for it.
LEMMA StartWatched == ASSUME IInv, WInv, NEW q \in Runs, Start(q) PROVE WInv'
<1>1. RunTypeOK /\ WorkTypeOK /\ WatchTypeOK /\ Watched(q)  BY Before DEF WInv
<1>2. /\ UNCHANGED <<how, queue, published, subscribers, socket>>
      /\ \A r \in Runs \ {q} : /\ task'[r] = task[r] /\ worker'[r] = worker[r]
                               /\ stream'[r] = stream[r]
  <2>1. CASE Create(q)
    BY <1>1, <2>1 DEF Create, Step, RunTypeOK, busVars, watchVars, workVars
  <2>2. CASE SetRunning(q)
    BY <1>1, <2>2 DEF SetRunning, Leave, RunTypeOK, WorkTypeOK, WatchTypeOK, busVars
  <2>3. CASE StartFails(q)
    BY <1>1, <2>3 DEF StartFails, Leave, RunTypeOK, busVars, watchVars, workVars
  <2> QED BY <2>1, <2>2, <2>3 DEF Start
<1>3. Watched(q)'
  <2>1. CASE Create(q)
    <3>1. task[q] = "creating" /\ task'[q] = "starting" /\ UNCHANGED <<worker, stream>>
      BY <1>1, <2>1 DEF Create, At, Step, RunTypeOK, workVars, watchVars
    <3> QED BY <1>1, <1>2, <3>1 DEF Watched, Early, TerminalQueued
  <2>2. CASE SetRunning(q)
    <3>1. /\ task[q] = "starting" /\ task'[q] = "waiting"
          /\ stream'[q] = IF how[q] = "stream" THEN "ready" ELSE stream[q]
      BY <1>1, <2>2 DEF SetRunning, At, Leave, RunTypeOK, WatchTypeOK
    <3> QED BY <1>1, <1>2, <3>1 DEF Watched, Early
  <2>3. CASE StartFails(q)
    <3>1. /\ task[q] \in {"creating", "starting"} /\ task'[q] = "refused"
          /\ UNCHANGED <<worker, stream>>
      BY <1>1, <2>3 DEF StartFails, At, Leave, RunTypeOK, workVars, watchVars
    <3> QED BY <1>1, <1>2, <3>1 DEF Watched, Early, TerminalQueued
  <2> QED BY <2>1, <2>2, <2>3 DEF Start
<1>4. \A r \in Runs \ {q} : Watched(r)'
  BY <1>2, WatchedFrame DEF WInv, TerminalQueued
<1> QED BY <1>2, <1>3, <1>4 DEF WInv

\* The thread works; what it publishes reaches every registered queue.
LEMMA WorkWatched == ASSUME IInv, WInv, NEW q \in Runs, Work(q) PROVE WInv'
<1>1. WorkTypeOK /\ WatchTypeOK /\ Watched(q)  BY Before DEF WInv
<1>2. /\ UNCHANGED <<how, task, subscribers, stream, socket>>
      /\ worker[q] \in {"working", "announced"}
      /\ \A r \in Runs \ {q} : worker'[r] = worker[r] /\ published'[r] = published[r]
  BY <1>1 DEF Work, Turn, Announce, ThreadEnds, runVars, busVars, watchVars, WorkTypeOK,
     WatchTypeOK
<1>3. \A r \in Runs : TerminalQueued(r) => TerminalQueued(r)'
  <2>1. CASE Turn(q)  BY <1>1, <2>1, Published DEF Turn
  <2>2. CASE Announce(q)  BY <1>1, <2>2, Published DEF Announce, Terminal
  <2>3. CASE ThreadEnds(q)  BY <2>3 DEF ThreadEnds, busVars, TerminalQueued
  <2> QED BY <2>1, <2>2, <2>3 DEF Work
<1>4. task[q] \notin Early  BY <1>1, <1>2 DEF Watched
<1>5. Watched(q)'
  <2>1. published'[q] = published[q] \/ (q \in subscribers => TerminalQueued(q)')
    <3>1. CASE Announce(q)  BY <1>1, <3>1, Published DEF Announce, Terminal
    <3>2. CASE Turn(q) \/ ThreadEnds(q)  BY <3>2 DEF Turn, ThreadEnds, busVars
    <3> QED BY <3>1, <3>2 DEF Work
  <2> QED BY <1>1, <1>2, <1>3, <1>4, <2>1 DEF Watched, Early
<1>6. \A r \in Runs \ {q} : Watched(r)'
  BY <1>2, <1>3, WatchedFrame DEF WInv
<1> QED BY <1>2, <1>5, <1>6 DEF WInv

\* The task settles the run; Phase.ERROR reaches every registered queue.
LEMMA SettleWatched == ASSUME IInv, WInv, NEW q \in Runs, Settle(q) PROVE WInv'
<1>1. RunTypeOK /\ WorkTypeOK /\ WatchTypeOK /\ Watched(q)  BY Before DEF WInv
<1>2. /\ UNCHANGED <<how, worker, subscribers, stream, socket>>
      /\ task[q] \notin Early /\ task'[q] \notin Early
      /\ \A r \in Runs \ {q} : task'[r] = task[r] /\ published'[r] = published[r]
  <2> USE <1>1 DEF At, Step, Leave, RunTypeOK, workVars, busVars, watchVars, Early
  <2>1. CASE Resume(q)  BY <2>1 DEF Resume
  <2>2. CASE Finish(q)  BY <2>2 DEF Finish
  <2>3. CASE Meter(q)  BY <2>3 DEF Meter
  <2>4. CASE StoreFails(q)  BY <2>4 DEF StoreFails
  <2>5. CASE RecordFailure(q)  BY <2>5 DEF RecordFailure
  <2>6. CASE FailureLost(q)  BY <2>6 DEF FailureLost
  <2>7. CASE PublishError(q)  BY <2>7 DEF PublishError, WatchTypeOK
  <2> QED BY <2>1, <2>2, <2>3, <2>4, <2>5, <2>6, <2>7 DEF Settle
<1>3. /\ \A r \in Runs : TerminalQueued(r) => TerminalQueued(r)'
      /\ published'[q] = published[q] \/ (q \in subscribers => TerminalQueued(q)')
  <2>1. CASE PublishError(q)  BY <1>1, <2>1, Published DEF PublishError, Terminal
  <2>2. CASE UNCHANGED <<queue, published>>  BY <2>2 DEF TerminalQueued
  <2> QED BY <2>1, <2>2 DEF Settle, Resume, Finish, Meter, StoreFails, RecordFailure,
             FailureLost, busVars
<1>4. Watched(q)'  BY <1>1, <1>2, <1>3 DEF Watched, Early
<1>5. \A r \in Runs \ {q} : Watched(r)'
  BY <1>2, <1>3, WatchedFrame DEF WInv
<1> QED BY <1>2, <1>4, <1>5 DEF WInv

\* The generator of q begins, takes an event, sends the result, is closed, or is
\* never entered.
LEMMA StreamWatched ==
  ASSUME IInv, WInv, NEW q \in Runs, Stream(q) \/ StreamDisconnect(q) \/ StreamAbandoned(q)
  PROVE  WInv'
<1>1. WatchTypeOK /\ Watched(q) /\ q \in Watchers /\ q \notin Sockets /\ Runs \subseteq Watchers
  BY Before, DisjointAssumption DEF WInv, Watchers
<1>2. UNCHANGED <<how, task, worker, published, socket>> /\ stream[q] \in {"ready", "open", "ending"}
  BY DEF Stream, StreamBegins, StreamEvent, StreamResult, StreamDisconnect, StreamAbandoned,
     runVars, workVars, busVars
<1>3. /\ \A r \in Runs \ {q} : /\ queue'[r] = queue[r] /\ stream'[r] = stream[r]
                               /\ r \in subscribers' <=> r \in subscribers
      /\ \A s \in Sockets : s \in subscribers' <=> s \in subscribers
  BY <1>1 DEF Stream, StreamBegins, StreamEvent, StreamResult, StreamDisconnect, StreamAbandoned,
     CloseStream, WatchTypeOK, busVars
<1>4. Watched(q)'
  <2>1. CASE StreamEvent(q)
    <3>1. /\ queue[q] # <<>> /\ queue[q] \in Seq(Event) /\ queue'[q] = Tail(queue[q])
          /\ subscribers' = subscribers /\ stream[q] = "open"
          /\ stream'[q] = IF Head(queue[q]).run = q /\ Head(queue[q]).phase \in Terminal
                          THEN "ending" ELSE "open"
      BY <1>1, <2>1 DEF StreamEvent, WatchTypeOK
    <3>2. ASSUME stream'[q] = "open", TerminalQueued(q) PROVE TerminalQueued(q)'
      <4>1. ~(Head(queue[q]).run = q /\ Head(queue[q]).phase \in Terminal)
        BY <3>1, <3>2
      <4>2. \E i \in DOMAIN Tail(queue[q]) :
                Tail(queue[q])[i].run = q /\ Tail(queue[q])[i].phase \in Terminal
        BY <3>1, <3>2, <4>1, TailKeepsTerminal DEF TerminalQueued
      <4> QED BY <3>1, <4>2 DEF TerminalQueued
    <3> QED BY <1>1, <1>2, <3>1, <3>2 DEF Watched, Early
  <2>2. CASE StreamResult(q) \/ StreamDisconnect(q)
    <3>1. stream'[q] = "closed" /\ q \notin subscribers'
      BY <1>1, <2>2 DEF StreamResult, StreamDisconnect, CloseStream, WatchTypeOK
    <3> QED BY <1>1, <1>2, <3>1 DEF Watched, Early
  <2>3. CASE StreamBegins(q) \/ StreamAbandoned(q)
    <3>1. /\ stream[q] = "ready" /\ stream'[q] \in {"open", "abandoned"}
          /\ UNCHANGED <<queue, subscribers>>
      BY <1>1, <2>3 DEF StreamBegins, StreamAbandoned, WatchTypeOK, busVars
    <3> QED BY <1>1, <1>2, <3>1 DEF Watched, Early, TerminalQueued
  <2> QED BY <2>1, <2>2, <2>3 DEF Stream
<1>5. \A r \in Runs \ {q} : Watched(r)'
  BY <1>2, <1>3, WatchedFrame DEF WInv, TerminalQueued
<1> QED BY <1>2, <1>3, <1>4, <1>5 DEF WInv

\* A socket subscribes, takes an event, or is closed; streams do not notice.
LEMMA SocketWatched ==
  ASSUME IInv, WInv, NEW s \in Sockets, SocketOpen(s) \/ SocketEvent(s) \/ SocketDisconnect(s)
  PROVE  WInv'
<1>1. WatchTypeOK /\ s \notin Runs /\ s \in Watchers /\ Runs \subseteq Watchers
  BY DisjointAssumption DEF IInv, TypeOK, Watchers
<1>2. UNCHANGED <<how, task, worker, published, stream>>
  BY DEF SocketOpen, SocketEvent, SocketDisconnect, runVars, workVars
<1>3. /\ \A r \in Runs : queue'[r] = queue[r] /\ (r \in subscribers' <=> r \in subscribers)
      /\ \A t \in Sockets \ {s} : /\ socket'[t] = socket[t]
                                  /\ t \in subscribers' <=> t \in subscribers
      /\ s \in subscribers' <=> socket'[s] = "open"
  BY <1>1 DEF SocketOpen, SocketEvent, SocketDisconnect, CloseSocket, WatchTypeOK, WInv
<1>4. \A r \in Runs : Watched(r)'
  BY <1>2, <1>3, WatchedFrame DEF WInv, TerminalQueued
<1> QED BY <1>3, <1>4 DEF WInv

LEMMA CrashWatched == ASSUME IInv, WInv, Crash PROVE WInv'
<1>1. /\ UNCHANGED <<how, published>> /\ subscribers' = {}
      /\ \A r \in Runs :
            /\ task'[r] = IF task[r] \in Holding \cup {"waiting"} THEN "lost" ELSE task[r]
            /\ worker'[r] = IF worker[r] \in {"working", "announced"} THEN "lost" ELSE worker[r]
            /\ stream'[r] = IF stream[r] = "off" THEN "off" ELSE "closed"
      /\ \A s \in Sockets : socket'[s] # "open"
  BY DEF Crash
<1>2. \A r \in Runs : Watched(r)'
  BY <1>1 DEF WInv, Watched, Early, Holding
<1> QED BY <1>1, <1>2 DEF WInv

LEMMA StepWInv == IInv /\ WInv /\ [Next]_vars => WInv'
<1> SUFFICES ASSUME IInv, WInv, [Next]_vars PROVE WInv'  OBVIOUS
<1>1. CASE UNCHANGED vars
  BY <1>1 DEF vars, runVars, workVars, busVars, watchVars, WInv, Watched, TerminalQueued
<1> QED BY <1>1, PostWatched, StartWatched, WorkWatched, SettleWatched, StreamWatched,
           SocketWatched, CrashWatched DEF Next

LEMMA WatchersInductive == Spec => []WInv
  BY InitWInv, StepWInv, Inductive, PTL DEF Spec

\* A stream that is waiting when its run's DONE or ERROR was published finds it
\* in its queue: whatever the interleaving of requests, threads, failing
\* database operations and restarts, no stream waits for an event that went by.
THEOREM StreamsMissNothing == Spec => []StreamMissesNothing
<1>1. WInv => StreamMissesNothing
  BY DEF WInv, Watched, TerminalQueued, StreamMissesNothing
<1> QED BY <1>1, WatchersInductive, PTL

\* Every watcher that reads has its queue registered, and every registered queue has
\* a reader, but those of streams whose generator was never entered: no path through
\* a generator or a socket handler that has begun leaks one.
THEOREM OnlyWatchersSubscribe == Spec => []SubscribersAreWatching
<1>1. IInv /\ WInv => SubscribersAreWatching
  <2>1. IInv => subscribers \subseteq Runs \cup Sockets
    BY DEF IInv, TypeOK, WatchTypeOK, Watchers
  <2> QED BY <2>1 DEF WInv, Watched, SubscribersAreWatching
<1> QED BY <1>1, Inductive, WatchersInductive, PTL

-----------------------------------------------------------------------------
(* The refinement of RunContract: what a polling client can see of a run     *)
(* changes only as the contract allows.                                      *)

Metered == {"metering", "failing", "publishing"}

\* What the contract lets a client see of one run before and after a step.
SeenSame(r) == SeenStatus(r)' = SeenStatus(r) /\ SeenResult(r)' = SeenResult(r)
SeenAppear(r) ==
    /\ SeenStatus(r) = "absent" /\ SeenStatus(r)' \in {"running", "pending"}
    /\ SeenResult(r)' = SeenResult(r)
SeenFinish(r) ==
    /\ SeenStatus(r) = "running" /\ SeenStatus(r)' \in Outcomes
    /\ SeenResult(r)' = SeenStatus(r)'
SeenFail(r) ==
    /\ SeenStatus(r) = "running" /\ SeenStatus(r)' = "error"
    /\ SeenResult(r)' \in Outcomes \cup {"none"}
SeenAllowed(r) == SeenSame(r) \/ SeenAppear(r) \/ SeenFinish(r) \/ SeenFail(r)

\* A step that changes what is seen of one run at most is a step of the contract.
LEMMA ContractStep ==
  ASSUME NEW q \in Runs, SeenAllowed(q), \A r \in Runs \ {q} : SeenSame(r)
  PROVE  [Contract!Next]_(Contract!cvars)
<1> DEFINE status == [r \in Runs |-> SeenStatus(r)]
           result == [r \in Runs |-> SeenResult(r)]
<1>1. /\ status' = [status EXCEPT ![q] = SeenStatus(q)']
      /\ result' = [result EXCEPT ![q] = SeenResult(q)']
  BY DEF SeenSame
<1>2. status[q] = SeenStatus(q) /\ result[q] = SeenResult(q)  OBVIOUS
<1>3. CASE SeenSame(q)
  <2>1. status' = status /\ result' = result  BY <1>3 DEF SeenSame
  <2> QED BY <2>1 DEF Contract!cvars
<1>4. CASE SeenAppear(q)
  <2>1. result' = result  BY <1>4 DEF SeenSame, SeenAppear
  <2>2. Contract!Appear(q)  BY <1>1, <1>2, <1>4, <2>1 DEF SeenAppear, Contract!Appear
  <2> QED BY <2>2 DEF Contract!Next
<1>5. CASE SeenFinish(q)
  <2>1. Contract!Finish(q)
    BY <1>1, <1>2, <1>5 DEF SeenFinish, Contract!Finish, Contract!Finished, Outcomes
  <2> QED BY <2>1 DEF Contract!Next
<1>6. CASE SeenFail(q)
  <2>1. Contract!Fail(q)
    BY <1>1, <1>2, <1>6 DEF SeenFail, Contract!Fail, Contract!Finished, Outcomes
  <2> QED BY <2>1 DEF Contract!Next
<1> QED BY <1>3, <1>4, <1>5, <1>6 DEF SeenAllowed

\* With the loop owned, a run's position says what is seen of it, before and
\* after a step.
LEMMA SeenAfter ==
  ASSUME IInv, IInv', NEW q \in Runs
  PROVE  /\ RunTypeOK /\ row[q] \in Row /\ row'[q] \in Row
         /\ Settled(q) /\ Settled(q)'
         /\ SeenStatus(q) = IF task[q] = "starting" THEN "absent"
                            ELSE IF task[q] \in Metered /\ how[q] # "sync" THEN "running"
                            ELSE row[q].status
         /\ SeenStatus(q)' = IF task'[q] = "starting" THEN "absent"
                             ELSE IF task'[q] \in Metered /\ how'[q] # "sync" THEN "running"
                             ELSE row'[q].status
         /\ SeenResult(q) = IF task[q] \in Metered THEN "none" ELSE row[q].result
         /\ SeenResult(q)' = IF task'[q] \in Metered THEN "none" ELSE row'[q].result
<1>1. /\ RunTypeOK /\ LoopOwned /\ RunTypeOK' /\ LoopOwned'
      /\ Settled(q) /\ Settled(q)'
  BY DEF IInv, TypeOK
<1> QED BY <1>1 DEF RunTypeOK, SeenStatus, SeenResult, At, LoopOwned, Holding, Metered

\* Nothing is seen of a step that leaves a run's row, endpoint and task alone.
LEMMA Unseen ==
  ASSUME IInv, IInv', NEW r \in Runs,
         row'[r] = row[r], how'[r] = how[r], task'[r] = task[r]
  PROVE  SeenSame(r)
  BY SeenAfter DEF SeenSame

LEMMA PostSeen == ASSUME IInv, IInv', NEW q \in Runs, Post(q) PROVE SeenSame(q)
<1>1. task[q] = "none" /\ row' = row
  BY DEF Post, PostSync, PostRun, PostStream
<1>2. task'[q] \in {"waiting", "creating"}
  BY SeenAfter DEF Post, PostSync, PostRun, PostStream, Leave, Step, RunTypeOK
<1> QED BY <1>1, <1>2, SeenAfter DEF Metered, SeenSame

LEMMA StartSeen ==
  ASSUME IInv, IInv', NEW q \in Runs, Start(q) PROVE SeenAllowed(q)
<1>0. RunTypeOK  BY SeenAfter
<1>1. CASE Create(q)
  <2>1. /\ task[q] = "creating" /\ task'[q] = "starting"
        /\ row'[q].result = row[q].result
    BY <1>0, <1>1, StatusWritten DEF Create, At, Step, RunTypeOK
  <2>2. SeenSame(q)
    BY <2>1, SeenAfter DEF SeenSame, Settled, RowIs, Metered
  <2> QED BY <2>2 DEF SeenAllowed
<1>2. CASE SetRunning(q)
  <2>1. /\ task[q] = "starting" /\ task'[q] = "waiting"
        /\ row'[q].status = "running" /\ row'[q].result = row[q].result
    BY <1>0, <1>2, StatusWritten DEF SetRunning, At, Leave, RunTypeOK
  <2>2. SeenAppear(q)  BY <2>1, SeenAfter DEF SeenAppear, Metered
  <2> QED BY <2>2 DEF SeenAllowed
<1>3. CASE StartFails(q)
  <2>1. /\ task[q] \in {"creating", "starting"} /\ task'[q] = "refused"
        /\ row' = row /\ how' = how
    BY <1>0, <1>3 DEF StartFails, At, Leave, RunTypeOK
  <2>2. CASE task[q] = "creating"
    <3>1. SeenSame(q)  BY <2>1, <2>2, SeenAfter DEF SeenSame, Metered
    <3> QED BY <3>1 DEF SeenAllowed
  <2>3. CASE task[q] = "starting"
    <3>1. SeenAppear(q)
      BY <2>1, <2>3, SeenAfter DEF SeenAppear, Settled, RowIs, Metered
    <3> QED BY <3>1 DEF SeenAllowed
  <2> QED BY <2>1, <2>2, <2>3
<1> QED BY <1>1, <1>2, <1>3 DEF Start

LEMMA SettleSeen ==
  ASSUME IInv, IInv', NEW q \in Runs, Settle(q) PROVE SeenAllowed(q)
<1>0. RunTypeOK /\ Settled(q) /\ how' = how
  BY SeenAfter DEF Settle, Resume, Finish, Meter, StoreFails, RecordFailure, FailureLost,
     PublishError
<1>1. CASE Resume(q)
  <2>1. /\ task[q] = "waiting" /\ row' = row
        /\ task'[q] \in IF how[q] = "sync" THEN {"metering", "over"} ELSE {"finishing", "failing"}
    BY <1>0, <1>1 DEF Resume, Step, Leave, RunTypeOK
  <2>2. SeenSame(q)
    BY <1>0, <2>1, SeenAfter DEF SeenSame, Settled, RowIs, NoResult, Metered
  <2> QED BY <2>2 DEF SeenAllowed
<1>2. CASE Finish(q)
  <2>1. task[q] = "finishing" /\ task'[q] = "metering"
    BY <1>0, <1>2 DEF Finish, At, Step, RunTypeOK
  <2>2. SeenSame(q)
    BY <1>0, <2>1, SeenAfter DEF SeenSame, Settled, RowIs, NoResult, Metered
  <2> QED BY <2>2 DEF SeenAllowed
<1>3. CASE Meter(q)
  <2>1. task[q] = "metering" /\ task'[q] = "over" /\ row' = row
    BY <1>0, <1>3 DEF Meter, At, Leave, RunTypeOK
  <2>2. CASE how[q] = "sync"
    <3>1. SeenSame(q)
      BY <1>0, <2>1, <2>2, SeenAfter DEF SeenSame, Settled, RowIs, NoResult, Metered
    <3> QED BY <3>1 DEF SeenAllowed
  <2>3. CASE how[q] # "sync"
    <3>1. SeenFinish(q)
      BY <1>0, <2>1, <2>3, SeenAfter DEF SeenFinish, Settled, Whole, Metered
    <3> QED BY <3>1 DEF SeenAllowed
  <2> QED BY <2>2, <2>3
<1>4. CASE StoreFails(q)
  <2>1. /\ task[q] \in {"finishing", "metering"} /\ row' = row
        /\ task'[q] = IF how[q] = "sync" THEN "over" ELSE "failing"
    BY <1>0, <1>4 DEF StoreFails, At, Step, Leave, RunTypeOK
  <2>2. SeenSame(q)
    BY <1>0, <2>1, SeenAfter DEF SeenSame, Settled, RowIs, NoResult, Metered
  <2> QED BY <2>2 DEF SeenAllowed
<1>5. CASE RecordFailure(q)
  <2>1. task[q] = "failing" /\ task'[q] = "publishing"
    BY <1>0, <1>5 DEF RecordFailure, At, Step, RunTypeOK
  <2>2. SeenSame(q)
    BY <1>0, <2>1, SeenAfter DEF SeenSame, Settled, Metered
  <2> QED BY <2>2 DEF SeenAllowed
<1>6. CASE FailureLost(q)
  <2>1. task[q] = "failing" /\ task'[q] = "died" /\ row' = row
    BY <1>0, <1>6 DEF FailureLost, At, Leave, RunTypeOK
  <2>2. CASE RowIs(q, {"running"}) /\ NoResult(q)
    <3>1. SeenSame(q)
      BY <1>0, <2>1, <2>2, SeenAfter DEF SeenSame, Settled, RowIs, NoResult, Metered
    <3> QED BY <3>1 DEF SeenAllowed
  <2>3. CASE Whole(q)
    <3>1. SeenFinish(q)
      BY <1>0, <2>1, <2>3, SeenAfter DEF SeenFinish, Settled, Whole, Metered
    <3> QED BY <3>1 DEF SeenAllowed
  <2> QED BY <1>0, <2>1, <2>2, <2>3 DEF Settled
<1>7. CASE PublishError(q)
  <2>1. task[q] = "publishing" /\ task'[q] = "over" /\ row' = row
    BY <1>0, <1>7 DEF PublishError, At, Leave, RunTypeOK
  <2>2. SeenFail(q)
    BY <1>0, <2>1, SeenAfter DEF SeenFail, Settled, RowIs, Metered, Row
  <2> QED BY <2>2 DEF SeenAllowed
<1> QED BY <1>1, <1>2, <1>3, <1>4, <1>5, <1>6, <1>7 DEF Settle

\* A dying process reveals what the run that held the loop had committed.
LEMMA CrashSeen ==
  ASSUME IInv, IInv', Crash, NEW q \in Runs
  PROVE  SeenAllowed(q) /\ (loop # q => SeenSame(q))
<1>0. /\ LoopOwned /\ Settled(q) /\ task[q] \in Position
  BY DEF IInv, TypeOK, RunTypeOK
<1>1. /\ row' = row /\ how' = how
      /\ task'[q] = IF task[q] \in Holding \cup {"waiting"} THEN "lost" ELSE task[q]
  BY DEF Crash
<1>2. CASE task[q] \notin Holding
  <2>1. SeenSame(q)
    BY <1>1, <1>2, SeenAfter DEF SeenSame, Metered, Holding
  <2> QED BY <2>1 DEF SeenAllowed
<1>3. CASE task[q] \in Holding
  <2>1. loop = q  BY <1>0, <1>3 DEF LoopOwned
  <2>2. SeenStatus(q)' = row[q].status /\ SeenResult(q)' = row[q].result
    BY <1>1, <1>3, SeenAfter DEF Metered
  <2>3. CASE task[q] \in {"creating", "finishing"} \/ how[q] = "sync"
    <3>1. SeenSame(q)
      BY <1>0, <2>2, <2>3, SeenAfter DEF SeenSame, Metered, Settled, RowIs, NoResult
    <3> QED BY <3>1, <2>1 DEF SeenAllowed
  <2>4. CASE task[q] = "starting"
    <3>1. SeenAppear(q)
      BY <1>0, <2>2, <2>4, SeenAfter DEF SeenAppear, Metered, Settled, RowIs, NoResult
    <3> QED BY <3>1, <2>1 DEF SeenAllowed
  <2>5. CASE task[q] \in {"metering", "failing"} /\ how[q] # "sync"
    <3>1. CASE Whole(q)
      <4>1. SeenFinish(q)
        BY <2>2, <2>5, <3>1, SeenAfter DEF SeenFinish, Metered, Whole
      <4> QED BY <4>1, <2>1 DEF SeenAllowed
    <3>2. CASE RowIs(q, {"running"}) /\ NoResult(q)
      <4>1. SeenSame(q)
        BY <2>2, <2>5, <3>2, SeenAfter DEF SeenSame, Metered, RowIs, NoResult
      <4> QED BY <4>1, <2>1 DEF SeenAllowed
    <3> QED BY <1>0, <2>5, <3>1, <3>2 DEF Settled
  <2>6. CASE task[q] = "publishing" /\ how[q] # "sync"
    <3>1. SeenFail(q)
      BY <1>0, <2>2, <2>6, SeenAfter DEF SeenFail, Metered, Settled, RowIs, Row
    <3> QED BY <3>1, <2>1 DEF SeenAllowed
  <2> QED BY <1>3, <2>3, <2>4, <2>5, <2>6 DEF Holding
<1> QED BY <1>2, <1>3

\* A step that one run's request, task or thread takes is not seen in others.
LEMMA OthersUnseen ==
  ASSUME IInv, IInv', NEW q \in Runs, Post(q) \/ Start(q) \/ Settle(q),
         NEW r \in Runs \ {q}
  PROVE  SeenSame(r)
<1>0. RunTypeOK  BY DEF IInv, TypeOK
<1> USE <1>0 DEF RunTypeOK, Step, Leave
<1>1. row'[r] = row[r] /\ how'[r] = how[r] /\ task'[r] = task[r]
  <2>1. CASE Post(q)  BY <2>1 DEF Post, PostSync, PostRun, PostStream
  <2>2. CASE Start(q)  BY <2>2 DEF Start, Create, SetRunning, StartFails
  <2>3. CASE Settle(q)
    BY <2>3 DEF Settle, Resume, Finish, Meter, StoreFails, RecordFailure, FailureLost,
       PublishError
  <2> QED BY <2>1, <2>2, <2>3
<1> QED BY <1>1, Unseen

\* RunLifecycle implements RunContract: a client that polls sees a run appear,
\* then finish or fail, and its verdict and result never change after that, even
\* when a stored result is followed by a failing charge or by a crash.
THEOREM ImplementsContract == Spec => KeepsContract
<1>1. Init => Contract!Init
  <2> SUFFICES ASSUME Init PROVE Contract!Init  OBVIOUS
  <2>1. \A r \in Runs : SeenStatus(r) = "absent" /\ SeenResult(r) = "none"
    BY DEF Init, SeenStatus, SeenResult, At
  <2> QED BY <2>1 DEF Contract!Init
<1>2. IInv /\ IInv' /\ [Next]_vars => [Contract!Next]_(Contract!cvars)
  <2> SUFFICES ASSUME IInv, IInv', [Next]_vars PROVE [Contract!Next]_(Contract!cvars)
    OBVIOUS
  <2>1. ASSUME NEW q \in Runs, Post(q) \/ Start(q) \/ Settle(q)
        PROVE  [Contract!Next]_(Contract!cvars)
    <3>1. SeenAllowed(q)
      BY <2>1, PostSeen, StartSeen, SettleSeen DEF SeenAllowed
    <3> QED BY <2>1, <3>1, OthersUnseen, ContractStep
  <2>2. ASSUME UNCHANGED <<row, how, task>> PROVE [Contract!Next]_(Contract!cvars)
    <3>1. \A r \in Runs : SeenSame(r)  BY <2>2, Unseen
    <3> QED BY <3>1 DEF SeenSame, Contract!cvars
  <2>3. ASSUME NEW q \in Runs, Work(q) \/ Stream(q) \/ StreamDisconnect(q) \/ StreamAbandoned(q)
        PROVE  UNCHANGED <<row, how, task>>
    BY <2>3 DEF Work, Turn, Announce, ThreadEnds, Stream, StreamBegins, StreamEvent,
       StreamResult, StreamDisconnect, StreamAbandoned, runVars
  <2>4. ASSUME NEW s \in Sockets, SocketOpen(s) \/ SocketEvent(s) \/ SocketDisconnect(s)
        PROVE  UNCHANGED <<row, how, task>>
    BY <2>4 DEF SocketOpen, SocketEvent, SocketDisconnect, runVars
  <2>5. CASE Crash
    <3>1. CASE loop \in Runs
      BY <2>5, <3>1, CrashSeen, ContractStep
    <3>2. CASE loop \notin Runs
      <4>1. \A r \in Runs : SeenSame(r)  BY <2>5, <3>2, CrashSeen
      <4> QED BY <4>1 DEF SeenSame, Contract!cvars
    <3> QED BY <3>1, <3>2
  <2>6. CASE UNCHANGED vars  BY <2>2, <2>6 DEF vars, runVars
  <2> QED BY <2>1, <2>2, <2>3, <2>4, <2>5, <2>6 DEF Next
<1> QED BY <1>1, <1>2, Inductive, PTL DEF Spec, KeepsContract, Contract!Spec
=============================================================================
