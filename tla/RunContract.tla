---------------------------- MODULE RunContract ----------------------------
(***************************************************************************)
(* What POST /v1/runs and GET /v1/runs/{run_id} promise a client that      *)
(* polls: an accepted run is running until it is finished or has failed,   *)
(* a finished run has its result, and neither the verdict nor the result   *)
(* ever changes afterwards.  A start that fails half way may leave a       *)
(* pending row behind, which nobody picks up.                              *)
(***************************************************************************)
CONSTANT Runs

VARIABLES
    status, \* the status GET /v1/runs/{run_id} answers, or "absent" (404)
    result  \* the stored result: the verdict of the run it came from, or "none"

cvars == <<status, result>>

Finished == {"done", "max_iterations"}

Init ==
    /\ status = [r \in Runs |-> "absent"]
    /\ result = [r \in Runs |-> "none"]

\* The run becomes visible: running, or pending when its start broke off.
Appear(r) ==
    /\ status[r] = "absent"
    /\ \E s \in {"running", "pending"} : status' = [status EXCEPT ![r] = s]
    /\ UNCHANGED result

Finish(r) ==
    /\ status[r] = "running"
    /\ \E s \in Finished :
        /\ status' = [status EXCEPT ![r] = s]
        /\ result' = [result EXCEPT ![r] = s]

\* The run failed. When only its metering failed, the result stays stored.
Fail(r) ==
    /\ status[r] = "running"
    /\ status' = [status EXCEPT ![r] = "error"]
    /\ \E s \in Finished \cup {"none"} : result' = [result EXCEPT ![r] = s]

Next == \E r \in Runs : Appear(r) \/ Finish(r) \/ Fail(r)

Spec == Init /\ [][Next]_cvars
=============================================================================
