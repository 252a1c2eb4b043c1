-------------------------- MODULE ProviderRouting --------------------------
(***************************************************************************)
(* The runs' threads ask models through one RoutingProvider (llm/router.py *)
(* and llm/__init__.py) and meter each turn (telemetry/metering.py). A     *)
(* conversation may be served by several vendors, after failovers.         *)
(*                                                                         *)
(* Money: UsageTotals keeps micro-dollars; a price is in 1/Unit            *)
(* micro-dollars per token, so that $1.25 per million is 5 with Unit = 4.  *)
(* exact is the unrounded cost, a history variable, as is asked.           *)
(***************************************************************************)
EXTENDS ProviderMessages, FiniteSets

CONSTANTS
    Runs,
    Routes,     \* llm_routing_provider_list: a sequence of [label, model]
    Strategy,   \* llm_routing_strategy
    Prices,     \* the price table: model -> [input, output]
    Unit,
    Responses,  \* what the vendors may return: [label, model, usage, refused, content]
    MaxTurns    \* the runs' max_iterations

\* RoutingProvider refuses an empty list of routes.
ASSUME RoutesAssumption ==
    Routes # <<>> /\ Routes \in Seq([label : {"anthropic", "gemini"}, model : STRING])
ASSUME UnitAssumption == Unit \in Nat \ {0}
ASSUME PricesAssumption == \A m \in DOMAIN Prices : Prices[m] \in [input : Nat, output : Nat]

Usage == [input : Nat, output : Nat]

\* Claude returns no empty text, and Gemini no thinking; ids are given below.
ASSUME ResponsesAssumption ==
    /\ Responses \subseteq
         [label : {"anthropic", "gemini"}, model : STRING, usage : Usage, refused : BOOLEAN,
          content : Seq([kind : {"text", "tool_use", "thinking"}, id : {NoId}, name : STRING])]
    /\ \A a \in Responses : \A j \in DOMAIN a.content :
         IF a.label = "anthropic" THEN a.content[j] # Text("") ELSE a.content[j].kind # "thinking"

VARIABLES
    phase,      \* routing, returned, executing, over, raised
    tried,      \* routes that failed in the current complete
    messages,   \* the conversation of each run
    result,     \* the LLMResult reason holds
    totals,     \* UsageTotals of each run
    lastUsed,   \* RoutingProvider.last_used
    asked,      \* the routes the current complete has asked
    exact

vars == <<phase, tried, messages, result, totals, lastUsed, asked, exact>>

NoUsage == [input |-> 0, output |-> 0]

-----------------------------------------------------------------------------
(* Prices. *)

\* blended_price, times 4; an unknown model ranks as free.
BlendedPrice(m) == IF m \in DOMAIN Prices THEN Prices[m].input + 3 * Prices[m].output ELSE 0

\* cost_for, in 1/Unit micro-dollars; an unknown model costs nothing.
CostFor(m, usage) ==
    IF m \in DOMAIN Prices
    THEN usage.input * Prices[m].input + usage.output * Prices[m].output ELSE 0

\* Faulty variant: the rest of a division is dropped.
RoundedDown(x) == {x \div Unit}

\* round(x, 6). A tie falls either way: x is a binary fraction near it.
Rounded(x) == {n \in {x \div Unit, x \div Unit + 1} : -Unit <= 2 * (n * Unit - x) /\ 2 * (n * Unit - x) <= Unit}

\* Faulty variant: the order of the configuration, whatever the strategy.
AskedBeforeAsListed(i, j) == i < j

\* sorted is stable.
AskedBefore(i, j) ==
    LET price(n) == BlendedPrice(Routes[n].model)
    IN  IF Strategy = "cost" /\ price(i) # price(j) THEN price(i) < price(j) ELSE i < j

\* _ordered, as a sequence of indices of Routes.
Ordered ==
    [n \in DOMAIN Routes |->
        CHOOSE i \in DOMAIN Routes :
            Cardinality({j \in DOMAIN Routes : AskedBefore(j, i)}) = n - 1]

-----------------------------------------------------------------------------
Init ==
    /\ phase = [r \in Runs |-> "routing"]
    /\ tried = [r \in Runs |-> 0]
    /\ messages = [r \in Runs |-> <<Message("user", <<Text("query")>>)>>]
    /\ result = [r \in Runs |-> [message |-> Message("assistant", <<>>), model |-> "", usage |-> NoUsage]]
    /\ totals = [r \in Runs |-> [usage |-> NoUsage, cost |-> 0, calls |-> 0]]
    /\ lastUsed = "none"
    /\ asked = [r \in Runs |-> <<>>]
    /\ exact = [r \in Runs |-> 0]

\* The route whose provider.complete a run is in.
Current(r) == Routes[Ordered[tried[r] + 1]]
Asking(r) == asked' = [asked EXCEPT ![r] = Append(@, Ordered[tried[r] + 1])]

\* Claude numbers the tool calls of a response with ids of its own.
WithIds(content, r) ==
    [j \in DOMAIN content |->
        IF content[j].kind = "tool_use"
        THEN [content[j] EXCEPT !.id = <<"toolu", Len(messages[r]), j>>] ELSE content[j]]

Normalized(response, r) ==
    IF response.label = "anthropic"
    THEN FromAnthropic([response EXCEPT !.content = WithIds(@, r)])
    ELSE FromGemini(response)

\* A route answers: last_used is set, and complete returns the result.
Serve(r) ==
    /\ phase[r] = "routing"
    /\ \E response \in Responses :
        /\ response.label = Current(r).label
        /\ result' = [result EXCEPT ![r] =
            [message |-> Normalized(response, r), model |-> response.model, usage |-> response.usage]]
    /\ lastUsed' = Current(r).label
    /\ phase' = [phase EXCEPT ![r] = "returned"]
    /\ Asking(r)
    /\ UNCHANGED <<tried, messages, totals, exact>>

\* A route raises; the next one is asked, and after the last complete raises,
\* which ends the run.
FailOver(r) ==
    /\ phase[r] = "routing"
    /\ Asking(r)
    /\ IF tried[r] + 1 < Len(Routes)
       THEN tried' = [tried EXCEPT ![r] = @ + 1] /\ UNCHANGED phase
       ELSE phase' = [phase EXCEPT ![r] = "raised"] /\ UNCHANGED tried
    /\ UNCHANGED <<messages, result, totals, lastUsed, exact>>

\* The model is the one the response names.
TurnCost(r) == CostFor(result[r].model, result[r].usage)

\* The rest of reason: UsageTotals.add, the assistant turn, and route.
Fold(r) ==
    /\ phase[r] = "returned"
    /\ \E c \in Rounded(totals[r].cost * Unit + TurnCost(r)) :
        totals' = [totals EXCEPT ![r] =
            [usage |-> [input |-> @.usage.input + result[r].usage.input,
                        output |-> @.usage.output + result[r].usage.output],
             cost |-> c, calls |-> @.calls + 1]]
    /\ exact' = [exact EXCEPT ![r] = @ + CostFor(result[r].model, result[r].usage)]
    /\ messages' = [messages EXCEPT ![r] = Append(@, result[r].message)]
    /\ phase' = [phase EXCEPT ![r] =
        IF ToolUses(result[r].message) # <<>> /\ totals[r].calls + 1 < MaxTurns
        THEN "executing" ELSE "over"]
    /\ UNCHANGED <<tried, result, lastUsed, asked>>

\* execute answers every call, and reason asks again, from the first route.
Execute(r) ==
    /\ phase[r] = "executing"
    /\ LET uses == ToolUses(Last(messages[r]))
       IN  messages' = [messages EXCEPT ![r] = Append(@,
                Message("user", [j \in DOMAIN uses |-> Block("tool_result", uses[j].id, "")]))]
    /\ phase' = [phase EXCEPT ![r] = "routing"]
    /\ tried' = [tried EXCEPT ![r] = 0]
    /\ asked' = [asked EXCEPT ![r] = <<>>]
    /\ UNCHANGED <<result, totals, lastUsed, exact>>

Over == (\A r \in Runs : phase[r] \in {"over", "raised"}) /\ UNCHANGED vars

Next == (\E r \in Runs : Serve(r) \/ FailOver(r) \/ Fold(r) \/ Execute(r)) \/ Over
Spec == Init /\ [][Next]_vars
-----------------------------------------------------------------------------
(* Correctness. *)

MeterTypeOK ==
    /\ phase \in [Runs -> {"routing", "returned", "executing", "over", "raised"}]
    /\ tried \in [Runs -> Nat]
    /\ DOMAIN result = Runs /\ \A r \in Runs : result[r].usage \in Usage
    /\ totals \in [Runs -> [usage : Usage, cost : Nat, calls : Nat]]
    /\ exact \in [Runs -> Nat]

\* Whatever vendors served the turns before, the request built for the route a
\* run is asking pairs calls and answers as that vendor wants them: every tool call of
\* the turn before is answered, for Claude by its id and for Gemini by the name of its
\* function, no text is empty, and Claude's own turns come back with the thinking they
\* had. Gemini then accepts the request. Claude does so unless Gemini, in the turns it
\* served, called one function twice: both calls then have the function's name as
\* their id, the request is refused, and the failover to Claude is of no use.
RequestsValid ==
    \A r \in Runs : phase[r] = "routing" =>
        IF Current(r).label = "gemini" THEN GeminiAccepts(ToGemini(messages[r]))
        ELSE LET request == ToAnthropic(messages[r])
             IN  /\ AnthropicPairs(request)
                 /\ AnthropicAccepts(request) <=> ~FunctionCalledTwice(messages[r])
                 /\ \A i \in DOMAIN request :
                     messages[r][i].replay => request[i].content = messages[r][i].raw

\* A complete asks each route at most once, a cheaper one first under the cost
\* strategy; it raises only after all of them, and what it returns is of the
\* last one it asked.
RoutedInOrder ==
    \A r \in Runs :
        /\ IsInjective(asked[r])
        /\ Strategy = "cost" =>
            \A i, j \in DOMAIN asked[r] :
                i < j => BlendedPrice(Routes[asked[r][i]].model) <= BlendedPrice(Routes[asked[r][j]].model)
        /\ phase[r] = "raised" => Len(asked[r]) = Len(Routes)
        /\ phase[r] = "returned" =>
            \E a \in Responses :
                a.label = Routes[Last(asked[r])].label /\ a.model = result[r].model

\* The cost of a run differs from the exact price of its turns, each priced by
\* the model that served it, by at most half a micro-dollar per turn.
MeteredWithinRounding ==
    \A r \in Runs :
        /\ 2 * (totals[r].cost * Unit - exact[r]) <= totals[r].calls * Unit
        /\ 2 * (exact[r] - totals[r].cost * Unit) <= totals[r].calls * Unit
=============================================================================
