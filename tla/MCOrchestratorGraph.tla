------------------------ MODULE MCOrchestratorGraph ------------------------
(***************************************************************************)
(* Instances of OrchestratorGraph for TLC: a sandboxed call, a skill call, *)
(* and an unknown tool whose id is the skill call's, as Gemini's ids may   *)
(* be; "egress" is a tool kind this deployment was not given.              *)
(***************************************************************************)
EXTENDS OrchestratorGraph

MCCalls == {[id |-> "a", tool |-> "python"],
            [id |-> "b", tool |-> "skill"],
            [id |-> "b", tool |-> "egress"]}
MCEnabled == {"skill"}
=============================================================================
