-------------------------- MODULE OrchestrationRun --------------------------
(***************************************************************************)
(* What one call of run_orchestration promises to the code that starts it  *)
(* on a worker thread (runs.py, routes.py, mcp_server.py): the run works,  *)
(* then either raises, or announces its end on the event bus and, after    *)
(* that, returns a final state whose status is the one it announced.       *)
(* Nothing is announced by a run that raises.                              *)
(* OrchestratorGraph implements this module; RunLifecycle relies on it.    *)
(***************************************************************************)

VARIABLES
    stage,    \* how far the call is
    announced,\* the outcome published on the bus with Phase.DONE
    verdict   \* the status in the returned state

ovars == <<stage, announced, verdict>>

Outcomes == {"done", "max_iterations"}

Init ==
    /\ stage = "working"
    /\ announced = "none"
    /\ verdict = "none"

\* Phase.DONE reaches the subscribers while the call is still on the thread.
Announce ==
    /\ stage = "working"
    /\ stage' = "announced"
    /\ announced' \in Outcomes
    /\ UNCHANGED verdict

Return ==
    /\ stage = "announced"
    /\ stage' = "returned"
    /\ verdict' = announced
    /\ UNCHANGED announced

\* A provider, a tool or the sandbox failed: the exception leaves the call.
Raise ==
    /\ stage = "working"
    /\ stage' = "raised"
    /\ UNCHANGED <<announced, verdict>>

Next == Announce \/ Return \/ Raise

Spec == Init /\ [][Next]_ovars
=============================================================================
