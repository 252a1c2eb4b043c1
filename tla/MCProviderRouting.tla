------------------------- MODULE MCProviderRouting -------------------------
(***************************************************************************)
(* Two runs, both vendors under the cost strategy with the dearer one      *)
(* listed first, and turns that mix thinking, texts and calls.             *)
(***************************************************************************)
EXTENDS ProviderRouting

CONSTANTS r1, r2
MCRuns == {r1, r2}

MCRoutes == <<[label |-> "anthropic", model |-> "claude"], [label |-> "gemini", model |-> "gemini_pro"]>>

\* $5 and $25, $1.25 and $10 per million tokens; "preview" has no price.
MCPrices == [claude |-> [input |-> 20, output |-> 100], gemini_pro |-> [input |-> 5, output |-> 40]]

Thinking == Block("thinking", NoId, "")
Call(name) == Block("tool_use", NoId, name)
Response(label, model, in, out, refused, content) ==
    [label |-> label, model |-> model, usage |-> [input |-> in, output |-> out],
     refused |-> refused, content |-> content]

MCResponses == {
    Response("anthropic", "claude", 1, 1, FALSE, <<Thinking, Text("plan"), Call("run"), Call("run")>>),
    Response("anthropic", "claude", 1, 0, TRUE, <<Call("load")>>),
    Response("gemini", "gemini_pro", 2, 0, FALSE, <<Text(""), Call("run"), Call("load")>>),
    Response("gemini", "preview", 1, 1, FALSE, <<Call("load"), Call("load")>>),
    Response("gemini", "gemini_pro", 3, 0, FALSE, <<>>)}
=============================================================================
