--------------------------- MODULE MCRunLifecycle ---------------------------
(***************************************************************************)
(* Instances of RunLifecycle for TLC: the first run's request has an API   *)
(* key, the second comes without one.                                      *)
(***************************************************************************)
EXTENDS RunLifecycle

CONSTANTS r1, r2
MCRuns == {r1, r2}
MCOneRun == {r1}
MCKeyed == {r1}
=============================================================================
