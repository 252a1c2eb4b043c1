------------------------- MODULE OrchestratorGraph -------------------------
(***************************************************************************)
(* One run of the LangGraph loop of orchestrator/graph.py:                 *)
(*                                                                         *)
(*     reason -> (tool calls?) -> execute -> reason -> ... -> respond      *)
(*                                                                         *)
(* The steps are the places where the thread meets something outside it:   *)
(* a call of the LLM provider, a tool, the sandbox, the event bus.  Each   *)
(* of the first three may raise, which ends the run.  A node's update is   *)
(* committed to the graph state only when the node returns, so execute     *)
(* works on local copies (k, toolResults, localSteps).                     *)
(*                                                                         *)
(* Abstracted: prompts, tool inputs and outputs, token counts (Metering    *)
(* is a module of its own), spans.  A tool call is a record of its id and  *)
(* the kind of its tool; ids need not be distinct, because the Gemini      *)
(* provider uses the function's name as the id.                            *)
(***************************************************************************)
EXTENDS Integers, Sequences, FiniteSets

CONSTANTS
    Calls,          \* the tool calls a provider may ask for: [id, tool]
    Enabled,        \* the optional tool kinds build_orchestrator was given
    MaxIterations,  \* state["max_iterations"]
    MaxCalls        \* bound of the model: tool calls in one assistant turn

\* Kinds of tools an assistant turn can name: run_skill_tool, run_egress_tool,
\* an aggregated upstream MCP tool, execute_python_code, or any other name.
OptionalTools == {"skill", "egress", "mcp"}
Tools == OptionalTools \cup {"python", "other"}

ASSUME CallsAssumption == \A c \in Calls : DOMAIN c = {"id", "tool"} /\ c.tool \in Tools
ASSUME EnabledAssumption == Enabled \subseteq OptionalTools
\* OrchestrateRequest and OrchestrateInput require max_iterations >= 1.
ASSUME BoundsAssumption == MaxIterations \in Nat \ {0} /\ MaxCalls \in Nat

VARIABLES
    pc,           \* where the worker thread is
    failure,      \* what raised, when pc = "raised"
    messages,     \* the conversation sent to the provider
    iterations,   \* completed provider turns
    status, answer, steps,   \* the other fields of OrchestratorState
    supersteps,   \* node executions LangGraph has started
    k, toolResults, localSteps,  \* locals of the execute node
    events        \* everything published on the bus for this run, in order

state == <<messages, iterations, status, answer, steps>>
locals == <<k, toolResults, localSteps>>
vars == <<pc, failure, state, supersteps, locals, events>>

Ids == {c.id : c \in Calls}
UserMessages == [role : {"user"}, results : Seq(Ids)]
AssistantMessages == [role : {"assistant"}, calls : Seq(Calls)]
Last(s) == s[Len(s)]

\* The ToolUseBlocks of the assistant turn that execute works on.
PendingCalls == Last(messages).calls

\* Faulty variant: tests "is not None", so an empty text counts as an answer.
TruthyIsNotNone(a) == a # "none"

\* Python truthiness of state["answer"]: None and "" are false.
Truthy(a) == a \in {"text", "canned"}

\* Faulty variant: counts one superstep for a reason/execute cycle.
RecursionLimitOnePerCycle == MaxIterations + 2

\* run_orchestration's recursion_limit.
RecursionLimit == MaxIterations * 2 + 5

Emit(phase) == events' = Append(events, phase)

\* LangGraph starts the next node, or raises GraphRecursionError when the
\* limit on supersteps is reached.
Goto(node) ==
    IF supersteps < RecursionLimit
    THEN pc' = node /\ supersteps' = supersteps + 1 /\ UNCHANGED failure
    ELSE pc' = "raised" /\ failure' = "recursion" /\ UNCHANGED supersteps

\* initial_state, and the START edge to reason.
Init ==
    /\ pc = "reason"
    /\ failure = "none"
    /\ messages = <<[role |-> "user", results |-> <<>>]>>
    /\ iterations = 0
    /\ status = "thinking"
    /\ answer = "none"
    /\ steps = 0
    /\ supersteps = 1
    /\ k = 1 /\ toolResults = <<>> /\ localSteps = 0
    /\ events = <<>>

-----------------------------------------------------------------------------
(* The reason node. *)

StartReasoning ==
    /\ pc = "reason"
    /\ pc' = "completing"
    /\ Emit("thinking")
    /\ UNCHANGED <<failure, state, supersteps, locals>>

\* Faulty variant: off by one at the cap.
RouteOffByOne(calls, iters) ==
    IF calls # <<>> /\ iters <= MaxIterations THEN "execute" ELSE "respond"

\* route: tool calls below the cap go to execute, anything else to respond.
\* iters is the state's iterations after the reason node's update.
Route(calls, iters) ==
    IF calls # <<>> /\ iters < MaxIterations THEN "execute" ELSE "respond"

\* provider.complete returns an assistant turn with tool calls.
CompleteWithTools ==
    /\ pc = "completing"
    /\ \E n \in 1..MaxCalls : \E calls \in [1..n -> Calls] :
        /\ messages' = Append(messages, [role |-> "assistant", calls |-> calls])
        /\ Goto(Route(calls, iterations + 1))
    /\ iterations' = iterations + 1
    /\ status' = "executing"
    /\ Emit("writing_code")
    /\ k' = 1 /\ toolResults' = <<>> /\ localSteps' = steps
    /\ UNCHANGED <<answer, steps>>

\* provider.complete returns a turn without tool calls. Its text may be empty:
\* a turn that holds thinking blocks only, no candidates, a bare refusal.
CompleteWithText ==
    /\ pc = "completing"
    /\ messages' = Append(messages, [role |-> "assistant", calls |-> <<>>])
    /\ iterations' = iterations + 1
    /\ status' = "done"
    /\ answer' \in {"text", "empty"}
    /\ Goto(Route(<<>>, iterations + 1))
    /\ UNCHANGED <<steps, locals, events>>

Fail(cause) == pc' = "raised" /\ failure' = cause

\* provider.complete raises, after whatever failover the provider does itself.
ProviderRaises ==
    /\ pc = "completing"
    /\ Fail("provider")
    /\ UNCHANGED <<state, supersteps, locals, events>>

-----------------------------------------------------------------------------
(* The execute node: the pending calls in order, one at a time. *)

\* How execute dispatches the call it has reached: a tool kind that was not
\* given to build_orchestrator is an unknown tool.
Dispatch(call) ==
    IF call.tool \in Enabled \cup {"python"} THEN call.tool ELSE "unknown"

AtCall(kinds) ==
    /\ pc = "execute"
    /\ k <= Len(PendingCalls)
    /\ Dispatch(PendingCalls[k]) \in kinds

AddResult ==
    /\ toolResults' = Append(toolResults, PendingCalls[k].id)
    /\ k' = k + 1

\* Skills, egress requests and upstream MCP tools are handled in process.
CallTool ==
    /\ AtCall(OptionalTools)
    /\ AddResult
    /\ Emit("thinking")
    /\ UNCHANGED <<pc, failure, state, supersteps, localSteps>>

\* Faulty variant: continues with the next call before it appends a result.
UnknownToolSkipped ==
    /\ AtCall({"unknown"})
    /\ k' = k + 1
    /\ UNCHANGED <<pc, failure, state, supersteps, toolResults, localSteps, events>>

\* Faulty variant: the call is looked at again and again.
UnknownToolStuck ==
    /\ AtCall({"unknown"})
    /\ UNCHANGED vars

\* An error result, without an event.
UnknownTool ==
    /\ AtCall({"unknown"})
    /\ AddResult
    /\ UNCHANGED <<pc, failure, state, supersteps, localSteps, events>>

\* A store behind a tool raises something its handler does not catch.
ToolRaises ==
    /\ AtCall(OptionalTools)
    /\ Fail("tool")
    /\ UNCHANGED <<state, supersteps, locals, events>>

StartSandbox ==
    /\ AtCall({"python"})
    /\ pc' = "sandbox"
    /\ Emit("sandbox_start")
    /\ UNCHANGED <<failure, state, supersteps, locals>>

\* sandbox.run returns: an exit code, a timeout, either way a step record.
FinishSandbox ==
    /\ pc = "sandbox"
    /\ pc' = "execute"
    /\ AddResult
    /\ localSteps' = localSteps + 1
    /\ Emit("sandbox_complete")
    /\ UNCHANGED <<failure, state, supersteps>>

SandboxRaises ==
    /\ pc = "sandbox"
    /\ Fail("sandbox")
    /\ UNCHANGED <<state, supersteps, locals, events>>

\* Faulty variant: the node's update leaves out the steps.
ReturnResultsOnly ==
    /\ pc = "execute"
    /\ k > Len(PendingCalls)
    /\ messages' = Append(messages, [role |-> "user", results |-> toolResults])
    /\ Goto("reason")
    /\ UNCHANGED <<iterations, status, answer, steps, locals, events>>

\* The node returns, its update is committed, and the edge leads to reason.
ReturnResults ==
    /\ pc = "execute"
    /\ k > Len(PendingCalls)
    /\ messages' = Append(messages, [role |-> "user", results |-> toolResults])
    /\ steps' = localSteps
    /\ Goto("reason")
    /\ UNCHANGED <<iterations, status, answer, locals, events>>

-----------------------------------------------------------------------------
(* The respond node, and the return of run_orchestration. *)

Announce ==
    /\ pc = "respond"
    /\ pc' = "responding"
    /\ Emit(IF Truthy(answer) THEN "done_completed" ELSE "done_stopped")
    /\ UNCHANGED <<failure, state, supersteps, locals>>

\* Faulty variant: respond fills in the answer but not the status.
ReturnWithoutStatus ==
    /\ pc = "responding"
    /\ pc' = "returned"
    /\ answer' = IF Truthy(answer) THEN answer ELSE "canned"
    /\ UNCHANGED <<failure, messages, iterations, status, steps, supersteps, locals, events>>

Return ==
    /\ pc = "responding"
    /\ pc' = "returned"
    /\ status' = IF Truthy(answer) THEN "done" ELSE "max_iterations"
    /\ answer' = IF Truthy(answer) THEN answer ELSE "canned"
    /\ UNCHANGED <<failure, messages, iterations, steps, supersteps, locals, events>>

\* The call is over, with a state or with an exception.
Over ==
    /\ pc \in {"returned", "raised"}
    /\ UNCHANGED vars

Reason == StartReasoning \/ CompleteWithTools \/ CompleteWithText \/ ProviderRaises
Execute ==
    \/ CallTool \/ UnknownTool \/ ToolRaises
    \/ StartSandbox \/ FinishSandbox \/ SandboxRaises
    \/ ReturnResults
Respond == Announce \/ Return
Next == Reason \/ Execute \/ Respond \/ Over

\* The thread is scheduled, and provider and sandbox calls return or raise:
\* the SDKs have request timeouts and sandbox.run a wall-clock limit.
Spec == Init /\ [][Next]_vars /\ WF_vars(Next)
-----------------------------------------------------------------------------
(* Correctness. *)

Count(phase) == Cardinality({i \in DOMAIN events : events[i] = phase})

TypeOK ==
    /\ pc \in {"reason", "completing", "execute", "sandbox", "respond",
               "responding", "returned", "raised"}
    /\ failure \in {"none", "provider", "tool", "sandbox", "recursion"}
    /\ messages \in Seq(UserMessages \cup AssistantMessages)
    /\ iterations \in Nat /\ supersteps \in Nat
    /\ status \in {"thinking", "executing", "done", "max_iterations"}
    /\ answer \in {"none", "empty", "text", "canned"}
    /\ steps \in Nat /\ localSteps \in Nat
    /\ k \in Nat \ {0} /\ toolResults \in Seq(Ids)
    /\ events \in Seq({"thinking", "writing_code", "sandbox_start", "sandbox_complete",
                       "done_completed", "done_stopped"})

\* Both LLM APIs reject a conversation whose roles do not alternate, or in which
\* a tool call is not answered, in order, by the turn after it. Whatever mix of
\* sandboxed, proxied, failing and unknown calls execute went through, the
\* conversation given to provider.complete is well formed.
ConversationWellFormed ==
    \A i \in 1..Len(messages) :
        IF i % 2 = 1
        THEN messages[i].role = "user"
        ELSE /\ messages[i].role = "assistant"
             /\ i < Len(messages) =>
                    /\ messages[i].calls # <<>>
                    /\ messages[i + 1].results =
                          [j \in DOMAIN messages[i].calls |-> messages[i].calls[j].id]
ProviderCallsValid ==
    /\ ConversationWellFormed
    /\ pc \in {"reason", "completing"} => Last(messages).role = "user"

\* route stops before execute when the cap is reached: a tool runs, with its
\* side effects, only if a later turn of the model is still allowed to see what
\* it returned. This holds through every way a tool can fail.
ToolResultsAreSeen ==
    /\ iterations <= MaxIterations
    /\ \/ pc \in {"execute", "sandbox"}
       \/ failure \in {"tool", "sandbox"}
       => iterations < MaxIterations

\* The recursion limit run_orchestration passes to LangGraph leaves room for
\* every run the iteration cap allows: no run dies of GraphRecursionError.
NeverRecursionError == failure # "recursion"

\* Every sandbox execution the watchers saw complete has its step record, once:
\* in the state between nodes, in execute's local copy inside the node. A start
\* without its completion is the execution in progress, or the one that raised.
SandboxAccounted ==
    LET inExecute == pc \in {"execute", "sandbox"} \/ failure \in {"tool", "sandbox"}
        open == pc = "sandbox" \/ failure = "sandbox"
    IN  /\ Count("sandbox_complete") = IF inExecute THEN localSteps ELSE steps
        /\ Count("sandbox_start") - Count("sandbox_complete") = IF open THEN 1 ELSE 0

\* Watchers close at Phase.DONE, so it must come last and at most once, and a
\* run that raises must not have published it: runs.py publishes ERROR for it.
DoneIsLast ==
    LET terminal == {i \in DOMAIN events : events[i] \in {"done_completed", "done_stopped"}}
    IN  terminal = IF pc \in {"responding", "returned"} THEN {Len(events)} ELSE {}

\* A run reported as done has an answer written by the model, in a turn that
\* asked for no more tools; one reported as max_iterations has used up its turns,
\* or its last turn had neither tool calls nor text, and says so with the canned
\* answer. No failing or unknown tool leads to either verdict early.
VerdictHasReason ==
    pc = "returned" =>
        IF status = "done"
        THEN answer = "text" /\ PendingCalls = <<>>
        ELSE answer = "canned" /\ (iterations = MaxIterations \/ PendingCalls = <<>>)

\* The loop keeps the contract the rest of the backend relies on: it announces
\* its outcome once, before it returns that same outcome, and never announces
\* and raises.
Run == INSTANCE OrchestrationRun WITH
    stage <- CASE pc = "responding" -> "announced"
               [] pc = "returned" -> "returned"
               [] pc = "raised" -> "raised"
               [] OTHER -> "working",
    announced <- IF pc \in {"responding", "returned"}
                 THEN IF Last(events) = "done_completed" THEN "done" ELSE "max_iterations"
                 ELSE "none",
    verdict <- IF pc = "returned" THEN status ELSE "none"
ImplementsRun == Run!Spec

\* Every run ends, below the cap or at it, with a result or an exception.
RunEnds == <>(pc \in {"returned", "raised"})
=============================================================================
