-------------------------- MODULE ProviderMessages --------------------------
(***************************************************************************)
(* The normalized messages of llm/base.py and their translation to and     *)
(* from the two vendors (anthropic_provider.py, gemini_provider.py).       *)
(*                                                                         *)
(* A block is [kind, id, name]; name is a tool's name, or the text of a    *)
(* text block ("" when empty). An id is a triple: a Claude id carries the  *)
(* place that makes it unique, a Gemini id is the function's name alone.   *)
(* Abstracted: inputs and outputs of tools, which are copied; tool         *)
(* declarations and their schemas.                                         *)
(***************************************************************************)
EXTENDS Integers, SequencesExt

Block(kind, id, name) == [kind |-> kind, id |-> id, name |-> name]
NoId == <<"", 0, 0>>
NameId(name) == <<name, 0, 0>>
Text(text) == Block("text", NoId, text)

\* The elements of s at the given places, in their order. (SelectSeq of the standard
\* modules has no definition that the proofs could use.)
Picked(s, places) ==
    LET place(n) == CHOOSE i \in places : Cardinality({j \in places : j <= i}) = n
    IN  [n \in 1..Cardinality(places) |-> s[place(n)]]

OfKind(blocks, kind) == Picked(blocks, {j \in DOMAIN blocks : blocks[j].kind = kind})
ToolUses(m) == OfKind(m.blocks, "tool_use")

\* replay tells whether raw is not None.
Message(role, blocks) == [role |-> role, blocks |-> blocks, raw |-> <<>>, replay |-> FALSE]
NativeMessage(blocks, raw) == [role |-> "assistant", blocks |-> blocks, raw |-> raw, replay |-> TRUE]

-----------------------------------------------------------------------------
(* Responses to normalized assistant turns. *)

\* AnthropicProvider.complete: thinking is kept in raw only. A refusal arrives
\* as a normal response; its content, tool calls included, is not read.
FromAnthropic(response) ==
    IF response.refused
    THEN NativeMessage(<<Text("declined")>>, response.content)
    ELSE LET content == response.content
             read == {j \in DOMAIN content : content[j].kind \in {"text", "tool_use"}}
         IN  NativeMessage(Picked(content, read), content)

\* _parse_response: the function's name is the id; an empty text is dropped.
FromGemini(response) ==
    LET content == response.content
        read == Picked(content, {j \in DOMAIN content :
                                    content[j].kind = "tool_use" \/ content[j].name # ""})
    IN  Message("assistant",
                [j \in DOMAIN read |->
                    IF read[j].kind = "tool_use"
                    THEN Block("tool_use", NameId(read[j].name), read[j].name) ELSE read[j]])

-----------------------------------------------------------------------------
(* Requests. *)

\* _message_to_api: an assistant turn of Claude is replayed verbatim.
MessageToApi(m) ==
    [role |-> m.role,
     content |-> IF m.role = "assistant" /\ m.replay THEN m.raw ELSE m.blocks]

ToAnthropic(messages) == [i \in DOMAIN messages |-> MessageToApi(messages[i])]

\* Faulty variant: the id is taken for the name.
NameOfId(messages, id) == id[1]

\* _id_to_name, and names.get(id, id): the last tool_use with the id names it.
NameOf(messages, id) ==
    LET uses(i) == {j \in DOMAIN messages[i].blocks :
                       messages[i].blocks[j].kind = "tool_use" /\ messages[i].blocks[j].id = id}
        turns == {i \in DOMAIN messages : uses(i) # {}}
    IN  IF turns = {} THEN id[1] ELSE messages[Max(turns)].blocks[Max(uses(Max(turns)))].name

Part(messages, b) ==
    CASE b.kind = "text" -> b
      [] b.kind = "tool_use" -> Block("function_call", NoId, b.name)
      [] b.kind = "tool_result" -> Block("function_response", NoId, NameOf(messages, b.id))

\* _to_contents: empty texts are left out, and contents without parts.
ToGemini(messages) ==
    LET parts(m) == Picked(m.blocks, {j \in DOMAIN m.blocks :
                                         m.blocks[j].kind # "text" \/ m.blocks[j].name # ""})
        kept == Picked(messages, {i \in DOMAIN messages : parts(messages[i]) # <<>>})
    IN  [i \in DOMAIN kept |->
            [role |-> IF kept[i].role = "assistant" THEN "model" ELSE "user",
             content |-> [j \in DOMAIN parts(kept[i]) |-> Part(messages, parts(kept[i])[j])]]]

-----------------------------------------------------------------------------
(* What the vendors accept. *)

\* Roles alternate from a user turn to a user turn, and no turn is empty.
TurnsAlternate(request, assistant) ==
    /\ Len(request) % 2 = 1
    /\ \A i \in DOMAIN request :
        /\ request[i].role = IF i % 2 = 1 THEN "user" ELSE assistant
        /\ request[i].content # <<>>
        /\ \A j \in DOMAIN request[i].content : request[i].content[j] # Text("")

Field(blocks, kind, key) ==
    [j \in DOMAIN OfKind(blocks, kind) |-> OfKind(blocks, kind)[j][key]]

\* Each turn of calls is answered, call by call and in order, by the next one.
CallsAnswered(request, call, result, key) ==
    \A i \in 1..Len(request) - 1 :
        i % 2 = 0 => Field(request[i].content, call, key) = Field(request[i + 1].content, result, key)

AnthropicPairs(request) ==
    /\ TurnsAlternate(request, "assistant")
    /\ CallsAnswered(request, "tool_use", "tool_result", "id")

\* Claude refuses a request in which two calls, of one turn or of two, have one id.
IdsUnique(request) ==
    \A i, k \in DOMAIN request :
    \A j \in DOMAIN request[i].content, l \in DOMAIN request[k].content :
        LET a == request[i].content[j]
            b == request[k].content[l]
        IN  a.kind = "tool_use" /\ b.kind = "tool_use" /\ a.id = b.id => i = k /\ j = l

AnthropicAccepts(request) == AnthropicPairs(request) /\ IdsUnique(request)

\* The turns Gemini wrote hold two calls of one function.
FunctionCalledTwice(messages) ==
    \E i, k \in DOMAIN messages :
    \E j \in DOMAIN messages[i].blocks, l \in DOMAIN messages[k].blocks :
        LET a == messages[i].blocks[j]
            b == messages[k].blocks[l]
        IN  /\ ~messages[i].replay /\ ~messages[k].replay /\ (i # k \/ j # l)
            /\ a.kind = "tool_use" /\ b.kind = "tool_use" /\ a.name = b.name

\* Gemini pairs by the function's name.
GeminiAccepts(request) ==
    /\ TurnsAlternate(request, "model")
    /\ CallsAnswered(request, "function_call", "function_response", "name")
=============================================================================
