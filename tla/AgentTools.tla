----------------------------- MODULE AgentTools -----------------------------
(***************************************************************************)
(* The tools an agent is offered and the handlers that answer its calls    *)
(* (build_orchestrator and execute of orchestrator/graph.py), over the     *)
(* SkillStore and the McpAggregator that answer them. Agents call tools    *)
(* from their worker threads while the REST endpoints of skills are used.  *)
(***************************************************************************)
EXTENDS SkillStore, McpAggregator

VARIABLES answered \* the last tool call: its name and who answered it

vars == <<store, aggregator, answered>>

SaveSkill == <<"save", "_", "skill">>
LoadSkill == <<"load", "_", "skill">>
RequestEgress == <<"request", "_", "egress">>
ExecutePython == <<"execute", "_", "python", "_", "code">>
SkillTools == {SaveSkill, LoadSkill}
BuiltIns == SkillTools \cup {RequestEgress, ExecutePython}

Init == StoreInit /\ AggregatorInit /\ answered = <<<<>>, <<>>>>

\* The order of the tests in execute.
Handler(tool) ==
    IF tool \in SkillTools THEN <<"skills">>
    ELSE IF tool = RequestEgress THEN <<"egress">>
    ELSE IF IsAggregated(tool) THEN routes[tool]
    ELSE IF tool = ExecutePython THEN <<"sandbox">>
    ELSE <<"unknown">>

\* An agent calls a declared tool; a call of another name is answered as unknown.
CallTool(c, tool) ==
    /\ Discovered
    /\ stage[c] = "idle"
    /\ answered' = <<tool, Handler(tool)>>
    /\ \/ tool = SaveSkill /\ \E n \in Names : BeginSave(c, n)
       \/ tool = LoadSkill /\ \E n \in Names : Get(c, n)
       \/ tool = LoadSkill /\ (\E n \in Names : ~Stored(n)) /\ UNCHANGED store
       \/ tool \notin SkillTools /\ UNCHANGED store
    /\ UNCHANGED aggregator

Discover == (Lists \/ ListingFails) /\ UNCHANGED <<store, answered>>

\* POST and DELETE /v1/skills, and the statements of the calls in progress.
UseStore ==
    /\ Discovered
    /\ \/ \E c \in Clients : Continue(c) \/ \E n \in Names : BeginSave(c, n)
       \/ \E n \in Names : Delete(n)
    /\ UNCHANGED <<aggregator, answered>>

Next ==
    \/ Discover
    \/ UseStore
    \/ \E c \in Clients, tool \in BuiltIns \cup Declared : CallTool(c, tool)

Spec == Init /\ [][Next]_vars
-----------------------------------------------------------------------------
(* Correctness. *)

\* As long as a skill is not deleted, no step of any caller changes its created_at
\* or loses a use that was counted.
HistoryKept == [][UpsertKeepsHistory]_vars

\* A built-in tool is answered by its own handler, whatever upstreams declare,
\* and a declared name by an upstream that answered and listed that very tool.
OwnerAnswers ==
    /\ answered[1] \in SkillTools => answered[2] = <<"skills">>
    /\ answered[1] = RequestEgress => answered[2] = <<"egress">>
    /\ answered[1] = ExecutePython => answered[2] = <<"sandbox">>
    /\ answered[1] \in Declared =>
         \E p \in listed : \E i \in DOMAIN upstreams[p].tools :
           /\ answered[1] = Namespaced(upstreams[p].name, upstreams[p].tools[i])
           /\ answered[2] = <<upstreams[p].name, upstreams[p].tools[i]>>
=============================================================================
