---------------------- MODULE OrchestratorGraphProofs ----------------------
(***************************************************************************)
(* Theorems about OrchestratorGraph, for every set of tool calls, every    *)
(* choice of optional tools, every iteration cap and every number of calls *)
(* in a turn.  The argument: the place of the thread fixes the length of   *)
(* the conversation and the number of supersteps as functions of the       *)
(* completed turns (Position), and inside execute the collected results    *)
(* are exactly the ids of the calls already handled (Progress).            *)
(***************************************************************************)
EXTENDS OrchestratorGraph, FiniteSetTheorems, TLAPS

Messages == UserMessages \cup AssistantMessages
DoneEvents == {"done_completed", "done_stopped"}
InExecute == {"execute", "sandbox"}
AtEnd == {"respond", "responding", "returned"}

\* Where the thread is, in terms of completed turns.
Position ==
    /\ pc \in {"reason", "completing"} =>
           /\ Len(messages) = 2 * iterations + 1
           /\ supersteps = 2 * iterations + 1
           /\ iterations < MaxIterations
    /\ pc \in InExecute \cup AtEnd =>
           /\ Len(messages) = 2 * iterations
           /\ supersteps = 2 * iterations
           /\ iterations >= 1
           /\ iterations <= MaxIterations
    /\ pc \in InExecute => iterations < MaxIterations
    /\ pc = "raised" =>
           /\ failure \notin {"none", "recursion"}
           /\ iterations < MaxIterations

\* What execute has done of the pending calls.
Progress ==
    pc \in InExecute =>
        /\ PendingCalls # <<>>
        /\ k <= Len(PendingCalls) + 1
        /\ pc = "sandbox" => k <= Len(PendingCalls)
        /\ toolResults = [j \in 1..(k - 1) |-> PendingCalls[j].id]

\* Where the answer comes from.
Answers ==
    /\ pc \in {"reason", "completing"} \cup InExecute => answer = "none"
    /\ pc \in {"respond", "responding"} =>
           \/ answer = "none" /\ iterations = MaxIterations
           \/ answer \in {"text", "empty"} /\ PendingCalls = <<>>
    /\ VerdictHasReason

\* What was announced.
Announcements ==
    /\ pc \notin {"responding", "returned"} =>
           \A i \in 1..Len(events) : events[i] \notin DoneEvents
    /\ pc \in {"responding", "returned"} =>
           /\ events # <<>> /\ Last(events) \in DoneEvents
           /\ \A i \in 1..(Len(events) - 1) : events[i] \notin DoneEvents
    /\ pc = "responding" =>
           Last(events) = IF Truthy(answer) THEN "done_completed" ELSE "done_stopped"
    /\ pc = "returned" =>
           status = IF Last(events) = "done_completed" THEN "done" ELSE "max_iterations"

IInv ==
    /\ TypeOK
    /\ failure = "none" <=> pc # "raised"
    /\ ConversationWellFormed
    /\ Position
    /\ Progress
    /\ Answers
    /\ Announcements
-----------------------------------------------------------------------------
\* Parity of the positions of user and assistant messages.
LEMMA Parity == \A n \in Nat : (2 * n) % 2 = 0 /\ (2 * n + 1) % 2 = 1
  OBVIOUS

\* The message execute and respond work on is the assistant turn just taken.
LEMMA LastIsAssistant ==
  ASSUME IInv, pc \in InExecute \cup AtEnd
  PROVE  /\ Len(messages) \in Nat \ {0}
         /\ Last(messages) \in AssistantMessages
         /\ PendingCalls \in Seq(Calls)
<1>1. /\ messages \in Seq(Messages) /\ iterations \in Nat
      /\ Len(messages) = 2 * iterations /\ iterations >= 1
  BY DEF IInv, TypeOK, Position, Messages
<1>2. Len(messages) \in 1..Len(messages) /\ Len(messages) % 2 = 0
  BY <1>1, Parity
<1>3. messages[Len(messages)].role = "assistant"
  <2>1. Len(messages) % 2 # 1  BY <1>2
  <2>2. ConversationWellFormed  BY DEF IInv
  <2> QED BY <1>2, <2>1, <2>2 DEF ConversationWellFormed
<1>4. messages[Len(messages)] \in AssistantMessages
  BY <1>1, <1>2, <1>3 DEF Messages, UserMessages
<1> QED BY <1>1, <1>2, <1>4 DEF Last, PendingCalls, AssistantMessages

\* The call execute has reached, and the results it has when it appends one.
LEMMA NextResult ==
  ASSUME IInv, pc \in InExecute, k <= Len(PendingCalls), AddResult,
         UNCHANGED messages
  PROVE  /\ toolResults' \in Seq(Ids)
         /\ k' \in Nat \ {0} /\ k' <= Len(PendingCalls) + 1
         /\ toolResults' = [j \in 1..(k' - 1) |-> PendingCalls[j].id]
         /\ PendingCalls' = PendingCalls
<1>1. PendingCalls \in Seq(Calls)  BY LastIsAssistant
<1>2. k \in Nat \ {0} /\ toolResults \in Seq(Ids)  BY DEF IInv, TypeOK
<1>3. PendingCalls[k] \in Calls  BY <1>1, <1>2
<1>4. PendingCalls[k].id \in Ids  BY <1>3 DEF Ids
<1>5. toolResults = [j \in 1..(k - 1) |-> PendingCalls[j].id]  BY DEF IInv, Progress
<1>6. Len(toolResults) = k - 1  BY <1>2, <1>5
<1>7. toolResults' = [j \in 1..k |-> PendingCalls[j].id]
  <2>1. /\ toolResults' \in Seq(Ids) /\ Len(toolResults') = k
        /\ \A j \in 1..(k - 1) : toolResults'[j] = PendingCalls[j].id
        /\ toolResults'[k] = PendingCalls[k].id
    BY <1>2, <1>4, <1>5, <1>6 DEF AddResult
  <2> QED BY <1>2, <2>1
<1>8. toolResults' \in Seq(Ids)  BY <1>2, <1>4 DEF AddResult
<1>9. k' = k + 1 /\ k' - 1 = k  BY <1>2 DEF AddResult
<1>10. PendingCalls' = PendingCalls  BY DEF PendingCalls, Last
<1>11. k <= Len(PendingCalls) /\ Len(PendingCalls) \in Nat  BY <1>1
<1> QED BY <1>2, <1>7, <1>8, <1>9, <1>10, <1>11
-----------------------------------------------------------------------------
LEMMA InitIInv == Init => IInv
<1> SUFFICES ASSUME Init PROVE IInv  OBVIOUS
<1>1. <<>> \in Seq(Ids)  OBVIOUS
<1>2. [role |-> "user", results |-> <<>>] \in UserMessages
  BY <1>1 DEF UserMessages
<1>3. messages \in Seq(UserMessages \cup AssistantMessages)
  BY <1>2 DEF Init
<1>4. TypeOK  BY <1>1, <1>3 DEF Init, TypeOK
<1>5. Len(messages) = 1 /\ messages[1].role = "user"  BY DEF Init
<1>6. ConversationWellFormed  BY <1>5 DEF ConversationWellFormed
<1>7. Position  BY <1>5, BoundsAssumption DEF Init, Position, InExecute, AtEnd
<1>8. Progress /\ Answers /\ Announcements
  BY DEF Init, Progress, Answers, Announcements, VerdictHasReason, InExecute, DoneEvents
<1> QED BY <1>4, <1>6, <1>7, <1>8 DEF IInv, Init

\* What a step that emits one ordinary event, or none, does to the announcements.
LEMMA OrdinaryEvent ==
  ASSUME IInv, pc \notin {"responding", "returned"}, pc' \notin {"responding", "returned"},
         \/ UNCHANGED events
         \/ \E e \in {"thinking", "writing_code", "sandbox_start", "sandbox_complete"} : Emit(e)
  PROVE  /\ Announcements'
         /\ events' \in Seq({"thinking", "writing_code", "sandbox_start", "sandbox_complete",
                             "done_completed", "done_stopped"})
<1> DEFINE Names == {"thinking", "writing_code", "sandbox_start", "sandbox_complete",
                     "done_completed", "done_stopped"}
<1>1. events \in Seq(Names)  BY DEF IInv, TypeOK
<1>2. \A i \in 1..Len(events) : events[i] \notin DoneEvents  BY DEF IInv, Announcements
<1>3. CASE UNCHANGED events  BY <1>1, <1>2, <1>3 DEF Announcements
<1>4. ASSUME NEW e \in {"thinking", "writing_code", "sandbox_start", "sandbox_complete"}, Emit(e)
      PROVE  Announcements' /\ events' \in Seq(Names)
  <2>1. /\ events' \in Seq(Names) /\ Len(events') = Len(events) + 1
        /\ \A i \in 1..Len(events) : events'[i] = events[i]
        /\ events'[Len(events) + 1] = e
    BY <1>1, <1>4 DEF Emit
  <2>2. \A i \in 1..Len(events') : events'[i] \notin DoneEvents
    BY <1>1, <1>2, <2>1, <1>4 DEF DoneEvents
  <2> QED BY <2>1, <2>2 DEF Announcements
<1> QED BY <1>3, <1>4

\* An assistant turn extends the conversation after a user message.
LEMMA AssistantTurn ==
  ASSUME IInv, pc = "completing", NEW calls \in Seq(Calls),
         messages' = Append(messages, [role |-> "assistant", calls |-> calls])
  PROVE  /\ messages' \in Seq(Messages)
         /\ Len(messages') = 2 * iterations + 2
         /\ PendingCalls' = calls
         /\ ConversationWellFormed'
<1> DEFINE m == [role |-> "assistant", calls |-> calls]
<1>1. m \in Messages  BY DEF Messages, AssistantMessages
<1>2. /\ messages \in Seq(Messages) /\ iterations \in Nat
      /\ Len(messages) = 2 * iterations + 1
  BY DEF IInv, TypeOK, Position, Messages
<1>3. /\ messages' \in Seq(Messages) /\ Len(messages') = Len(messages) + 1
      /\ \A i \in 1..Len(messages) : messages'[i] = messages[i]
      /\ messages'[Len(messages) + 1] = m
  BY <1>1, <1>2
<1>4. Len(messages) % 2 = 1 /\ (Len(messages) + 1) % 2 = 0
  BY <1>2, Parity
<1>5. PendingCalls' = calls  BY <1>2, <1>3 DEF PendingCalls, Last
<1>6. ConversationWellFormed'
  <2> SUFFICES ASSUME NEW i \in 1..Len(messages')
               PROVE  IF i % 2 = 1
                      THEN messages'[i].role = "user"
                      ELSE /\ messages'[i].role = "assistant"
                           /\ i < Len(messages') =>
                                /\ messages'[i].calls # <<>>
                                /\ messages'[i + 1].results =
                                     [j \in DOMAIN messages'[i].calls |-> messages'[i].calls[j].id]
    BY DEF ConversationWellFormed
  <2>1. CASE i = Len(messages) + 1
    BY <2>1, <1>2, <1>3, <1>4
  <2>2. CASE i \in 1..Len(messages)
    <3>1. messages'[i] = messages[i]  BY <2>2, <1>3
    <3>2. CASE i % 2 = 1
      BY <2>2, <3>1, <3>2 DEF IInv, ConversationWellFormed
    <3>3. CASE i % 2 # 1
      <4>0. i # Len(messages)  BY <3>3, <1>4
      <4>1. i < Len(messages) /\ i + 1 \in 1..Len(messages)  BY <2>2, <4>0, <1>2
      <4>2. messages'[i + 1] = messages[i + 1]  BY <4>1, <1>3
      <4> QED BY <2>2, <3>1, <3>3, <4>1, <4>2 DEF IInv, ConversationWellFormed
    <3> QED BY <3>2, <3>3
  <2>3. i = Len(messages) + 1 \/ i \in 1..Len(messages)  BY <1>2, <1>3
  <2> QED BY <2>1, <2>2, <2>3
<1> QED BY <1>2, <1>3, <1>5, <1>6

\* LangGraph always has a superstep left for the next node.
LEMMA RoomForNode ==
  ASSUME IInv, pc # "raised", NEW node, Goto(node)
  PROVE  pc' = node /\ supersteps' = supersteps + 1 /\ failure' = "none"
<1>1. /\ supersteps \in Nat /\ iterations \in Nat /\ MaxIterations \in Nat
      /\ supersteps <= 2 * iterations + 1 /\ iterations <= MaxIterations
      /\ failure = "none"
  <2>1. pc \in {"reason", "completing"} \cup InExecute \cup AtEnd
    BY DEF IInv, TypeOK, InExecute, AtEnd
  <2> QED BY <2>1, BoundsAssumption DEF IInv, TypeOK, Position
<1>2. supersteps < MaxIterations * 2 + 5  BY <1>1
<1> QED BY <1>1, <1>2 DEF Goto, RecursionLimit

\* The failing steps: the exception leaves the run where it was.
LEMMA Raising ==
  ASSUME IInv, pc \in {"completing"} \cup InExecute,
         NEW cause \in {"provider", "tool", "sandbox"}, Fail(cause),
         UNCHANGED <<state, supersteps, locals, events>>
  PROVE  IInv'
<1> USE DEF Fail, state, locals
<1>1. pc' = "raised" /\ failure' = cause  OBVIOUS
<1>2. TypeOK'  BY <1>1 DEF IInv, TypeOK
<1>3. ConversationWellFormed'  BY DEF IInv, ConversationWellFormed
<1>4. iterations < MaxIterations  BY DEF IInv, Position, InExecute
<1>5. Position'  BY <1>1, <1>4 DEF Position, InExecute, AtEnd
<1>6. Progress' /\ Answers'
  BY <1>1 DEF Progress, Answers, VerdictHasReason, InExecute
<1>7. Announcements'  BY <1>1, OrdinaryEvent DEF InExecute
<1> QED BY <1>1, <1>2, <1>3, <1>5, <1>6, <1>7 DEF IInv

LEMMA StartReasoningStep == IInv /\ StartReasoning => IInv'
<1> SUFFICES ASSUME IInv, StartReasoning PROVE IInv'  OBVIOUS
<1> USE DEF state, locals
<1>1. Announcements' /\ events' \in Seq({"thinking", "writing_code", "sandbox_start",
                            "sandbox_complete", "done_completed", "done_stopped"})
  BY OrdinaryEvent DEF StartReasoning
<1>2. TypeOK'  BY <1>1 DEF IInv, TypeOK, StartReasoning
<1>3. ConversationWellFormed'
  BY DEF IInv, ConversationWellFormed, StartReasoning
<1>4. Position'  BY DEF IInv, Position, InExecute, AtEnd, StartReasoning
<1>5. Progress' /\ Answers'
  BY DEF IInv, Progress, Answers, VerdictHasReason, InExecute, StartReasoning
<1> QED BY <1>1, <1>2, <1>3, <1>4, <1>5 DEF IInv, StartReasoning

LEMMA CompleteWithToolsStep == IInv /\ CompleteWithTools => IInv'
<1> SUFFICES ASSUME IInv, CompleteWithTools PROVE IInv'  OBVIOUS
<1>1. PICK n \in 1..MaxCalls : \E calls \in [1..n -> Calls] :
        /\ messages' = Append(messages, [role |-> "assistant", calls |-> calls])
        /\ Goto(Route(calls, iterations + 1))
  BY DEF CompleteWithTools
<1>2. PICK calls \in [1..n -> Calls] :
        /\ messages' = Append(messages, [role |-> "assistant", calls |-> calls])
        /\ Goto(Route(calls, iterations + 1))
  BY <1>1
<1>3. calls \in Seq(Calls) /\ Len(calls) = n /\ calls # <<>> /\ n >= 1
  BY BoundsAssumption
<1>4. pc = "completing"  BY DEF CompleteWithTools
<1>5. /\ messages' \in Seq(Messages) /\ Len(messages') = 2 * iterations + 2
      /\ PendingCalls' = calls /\ ConversationWellFormed'
  BY <1>2, <1>3, <1>4, AssistantTurn
<1>6. /\ pc' = Route(calls, iterations + 1)
      /\ supersteps' = supersteps + 1 /\ failure' = "none"
  BY <1>2, <1>4, RoomForNode
<1>7. /\ pc' = IF iterations + 1 < MaxIterations THEN "execute" ELSE "respond"
      /\ pc' \in {"execute", "respond"}
  BY <1>3, <1>6 DEF Route
<1>8. /\ iterations \in Nat /\ MaxIterations \in Nat /\ iterations < MaxIterations
      /\ supersteps = 2 * iterations + 1 /\ answer = "none"
  BY <1>4, BoundsAssumption DEF IInv, TypeOK, Position, Answers
<1>9. /\ iterations' = iterations + 1 /\ k' = 1 /\ toolResults' = <<>>
      /\ localSteps' = steps /\ steps' = steps /\ answer' = answer
      /\ status' = "executing"
  BY DEF CompleteWithTools
<1>10. Announcements' /\ events' \in Seq({"thinking", "writing_code", "sandbox_start",
                            "sandbox_complete", "done_completed", "done_stopped"})
  BY <1>4, <1>7, OrdinaryEvent DEF CompleteWithTools
<1>11. TypeOK'
  <2>1. toolResults' \in Seq(Ids)  BY <1>9
  <2> QED BY <1>5, <1>6, <1>7, <1>8, <1>9, <1>10, <2>1 DEF IInv, TypeOK, Messages
<1>12. Position'
  BY <1>5, <1>6, <1>7, <1>8, <1>9 DEF Position, InExecute, AtEnd
<1>13. Progress'
  <2>1. toolResults' = [j \in 1..(k' - 1) |-> PendingCalls'[j].id]
    BY <1>9
  <2>2. k' <= Len(PendingCalls') + 1 /\ PendingCalls' # <<>>  BY <1>3, <1>5, <1>9
  <2> QED BY <1>7, <2>1, <2>2 DEF Progress
<1>14. Answers'  BY <1>7, <1>8, <1>9 DEF Answers, VerdictHasReason, InExecute
<1> QED BY <1>5, <1>6, <1>7, <1>10, <1>11, <1>12, <1>13, <1>14 DEF IInv

LEMMA CompleteWithTextStep == IInv /\ CompleteWithText => IInv'
<1> SUFFICES ASSUME IInv, CompleteWithText PROVE IInv'  OBVIOUS
<1> USE DEF locals
<1>1. pc = "completing"  BY DEF CompleteWithText
<1>2. <<>> \in Seq(Calls)  OBVIOUS
<1>3. /\ messages' \in Seq(Messages) /\ Len(messages') = 2 * iterations + 2
      /\ PendingCalls' = <<>> /\ ConversationWellFormed'
  BY <1>1, <1>2, AssistantTurn DEF CompleteWithText
<1>4. pc' = "respond" /\ supersteps' = supersteps + 1 /\ failure' = "none"
  <2>1. Goto(Route(<<>>, iterations + 1))  BY DEF CompleteWithText
  <2>2. Route(<<>>, iterations + 1) = "respond"  BY DEF Route
  <2> QED BY <1>1, <2>1, <2>2, RoomForNode
<1>5. /\ iterations \in Nat /\ MaxIterations \in Nat /\ iterations < MaxIterations
      /\ supersteps = 2 * iterations + 1
  BY <1>1, BoundsAssumption DEF IInv, TypeOK, Position
<1>6. /\ iterations' = iterations + 1 /\ answer' \in {"text", "empty"} /\ status' = "done"
      /\ UNCHANGED <<steps, k, toolResults, localSteps, events>>
  BY DEF CompleteWithText
<1>7. Announcements'  BY <1>1, <1>4, <1>6, OrdinaryEvent
<1>8. TypeOK'  BY <1>3, <1>4, <1>5, <1>6 DEF IInv, TypeOK, Messages
<1>9. Position'  BY <1>3, <1>4, <1>5, <1>6 DEF Position, InExecute, AtEnd
<1>10. Progress' /\ Answers'
  BY <1>3, <1>4, <1>6 DEF Progress, Answers, VerdictHasReason, InExecute
<1> QED BY <1>3, <1>4, <1>7, <1>8, <1>9, <1>10 DEF IInv

LEMMA ProviderRaisesStep == IInv /\ ProviderRaises => IInv'
  BY Raising DEF ProviderRaises

LEMMA ToolRaisesStep == IInv /\ ToolRaises => IInv'
  BY Raising DEF ToolRaises, AtCall, InExecute

LEMMA SandboxRaisesStep == IInv /\ SandboxRaises => IInv'
  BY Raising DEF SandboxRaises, InExecute

\* A call that has its result: execute is ready for the next one.
LEMMA CallDone ==
  ASSUME IInv, pc \in InExecute, k <= Len(PendingCalls), AddResult,
         pc' = "execute", localSteps' \in Nat,
         UNCHANGED <<failure, state, supersteps>>,
         \/ UNCHANGED events
         \/ \E e \in {"thinking", "writing_code", "sandbox_start", "sandbox_complete"} : Emit(e)
  PROVE  IInv'
<1> USE DEF state
<1>1. /\ toolResults' \in Seq(Ids)
      /\ k' \in Nat \ {0} /\ k' <= Len(PendingCalls) + 1
      /\ toolResults' = [j \in 1..(k' - 1) |-> PendingCalls[j].id]
      /\ PendingCalls' = PendingCalls
  BY NextResult
<1>2. Announcements' /\ events' \in Seq({"thinking", "writing_code", "sandbox_start",
                            "sandbox_complete", "done_completed", "done_stopped"})
  BY OrdinaryEvent DEF InExecute
<1>3. TypeOK'  BY <1>1, <1>2 DEF IInv, TypeOK
<1>4. ConversationWellFormed'  BY DEF IInv, ConversationWellFormed
<1>5. Position'  BY DEF IInv, Position, InExecute, AtEnd
<1>6. Progress'  BY <1>1 DEF IInv, Progress
<1>7. Answers'  BY DEF IInv, Answers, VerdictHasReason, InExecute
<1> QED BY <1>2, <1>3, <1>4, <1>5, <1>6, <1>7 DEF IInv, InExecute

LEMMA CallToolStep == IInv /\ CallTool => IInv'
<1> SUFFICES ASSUME IInv, CallTool PROVE IInv'  OBVIOUS
<1>1. localSteps' \in Nat  BY DEF CallTool, IInv, TypeOK
<1> QED BY <1>1, CallDone DEF CallTool, AtCall, InExecute

LEMMA UnknownToolStep == IInv /\ UnknownTool => IInv'
<1> SUFFICES ASSUME IInv, UnknownTool PROVE IInv'  OBVIOUS
<1>1. localSteps' \in Nat  BY DEF UnknownTool, IInv, TypeOK
<1> QED BY <1>1, CallDone DEF UnknownTool, AtCall, InExecute

LEMMA FinishSandboxStep == IInv /\ FinishSandbox => IInv'
<1> SUFFICES ASSUME IInv, FinishSandbox PROVE IInv'  OBVIOUS
<1>1. localSteps' \in Nat  BY DEF FinishSandbox, IInv, TypeOK
<1>2. k <= Len(PendingCalls)  BY DEF FinishSandbox, IInv, Progress, InExecute
<1> QED BY <1>1, <1>2, CallDone DEF FinishSandbox, InExecute

LEMMA StartSandboxStep == IInv /\ StartSandbox => IInv'
<1> SUFFICES ASSUME IInv, StartSandbox PROVE IInv'  OBVIOUS
<1> USE DEF state, locals
<1>1. /\ pc = "execute" /\ pc' = "sandbox" /\ k <= Len(PendingCalls)
      /\ UNCHANGED <<failure, messages, iterations, status, answer, steps, supersteps,
                     k, toolResults, localSteps>>
  BY DEF StartSandbox, AtCall
<1>2. Announcements' /\ events' \in Seq({"thinking", "writing_code", "sandbox_start",
                            "sandbox_complete", "done_completed", "done_stopped"})
  BY <1>1, OrdinaryEvent DEF StartSandbox
<1>3. TypeOK'  BY <1>1, <1>2 DEF IInv, TypeOK
<1>4. ConversationWellFormed'  BY <1>1 DEF IInv, ConversationWellFormed
<1>5. Position'  BY <1>1 DEF IInv, Position, InExecute, AtEnd
<1>6. Progress'  BY <1>1 DEF IInv, Progress, InExecute, PendingCalls, Last
<1>7. Answers'  BY <1>1 DEF IInv, Answers, VerdictHasReason, InExecute
<1> QED BY <1>1, <1>2, <1>3, <1>4, <1>5, <1>6, <1>7 DEF IInv

LEMMA ReturnResultsStep == IInv /\ ReturnResults => IInv'
<1> SUFFICES ASSUME IInv, ReturnResults PROVE IInv'  OBVIOUS
<1> USE DEF locals
<1> DEFINE m == [role |-> "user", results |-> toolResults]
           n == Len(messages)
<1>1. /\ pc = "execute" /\ k > Len(PendingCalls)
      /\ messages' = Append(messages, m)
      /\ Goto("reason") /\ steps' = localSteps
      /\ UNCHANGED <<iterations, status, answer, k, toolResults, localSteps, events>>
  BY DEF ReturnResults
<1>2. pc' = "reason" /\ supersteps' = supersteps + 1 /\ failure' = "none"
  BY <1>1, RoomForNode
<1>3. /\ messages \in Seq(Messages) /\ iterations \in Nat /\ MaxIterations \in Nat
      /\ n = 2 * iterations /\ supersteps = 2 * iterations
      /\ iterations >= 1 /\ iterations < MaxIterations
  BY <1>1, BoundsAssumption DEF IInv, TypeOK, Position, InExecute, Messages
<1>4. m \in Messages  BY DEF IInv, TypeOK, Messages, UserMessages
<1>5. /\ messages' \in Seq(Messages) /\ Len(messages') = n + 1
      /\ \A i \in 1..n : messages'[i] = messages[i]
      /\ messages'[n + 1] = m
  <2>1. messages' = Append(messages, m)  BY <1>1
  <2> HIDE DEF m
  <2> QED BY <2>1, <1>3, <1>4
<1>6. n % 2 = 0 /\ (n + 1) % 2 = 1  BY <1>3, Parity
<1>7. /\ PendingCalls # <<>> /\ PendingCalls \in Seq(Calls)
      /\ PendingCalls = messages[n].calls
      /\ k = Len(PendingCalls) + 1
      /\ toolResults = [j \in 1..(k - 1) |-> PendingCalls[j].id]
  <2>1. PendingCalls \in Seq(Calls)  BY <1>1, LastIsAssistant DEF InExecute
  <2>2. k \in Nat /\ k <= Len(PendingCalls) + 1  BY <1>1 DEF IInv, TypeOK, Progress, InExecute
  <2>3. k = Len(PendingCalls) + 1  BY <1>1, <2>1, <2>2
  <2> QED BY <1>1, <2>1, <2>3 DEF IInv, Progress, InExecute, PendingCalls, Last
<1>8. toolResults = [j \in DOMAIN messages[n].calls |-> messages[n].calls[j].id]
  <2>1. DOMAIN PendingCalls = 1..Len(PendingCalls) /\ k - 1 = Len(PendingCalls)
    BY <1>7
  <2> QED BY <1>7, <2>1
<1>9. ConversationWellFormed'
  <2> SUFFICES ASSUME NEW i \in 1..Len(messages')
               PROVE  IF i % 2 = 1
                      THEN messages'[i].role = "user"
                      ELSE /\ messages'[i].role = "assistant"
                           /\ i < Len(messages') =>
                                /\ messages'[i].calls # <<>>
                                /\ messages'[i + 1].results =
                                     [j \in DOMAIN messages'[i].calls |-> messages'[i].calls[j].id]
    BY DEF ConversationWellFormed
  <2>1. CASE i = n + 1
    BY <2>1, <1>5, <1>6
  <2>2. CASE i = n
    <3>1. messages'[n] = messages[n] /\ n \in 1..n  BY <1>3, <1>5
    <3>2. messages[n].role = "assistant"
      <4>1. n % 2 # 1  BY <1>6
      <4> QED BY <3>1, <4>1 DEF IInv, ConversationWellFormed
    <3>3. messages'[n + 1].results = toolResults  BY <1>5
    <3> QED BY <2>2, <1>6, <1>7, <1>8, <3>1, <3>2, <3>3
  <2>3. CASE i \in 1..(n - 1)
    <3>1. i \in 1..n /\ i + 1 \in 1..n /\ i < n  BY <2>3, <1>3
    <3>2. messages'[i] = messages[i] /\ messages'[i + 1] = messages[i + 1]
      BY <3>1, <1>5
    <3> QED BY <3>1, <3>2 DEF IInv, ConversationWellFormed
  <2>4. i = n + 1 \/ i = n \/ i \in 1..(n - 1)  BY <1>3, <1>5
  <2> QED BY <2>1, <2>2, <2>3, <2>4
<1>10. TypeOK'  BY <1>1, <1>2, <1>3, <1>5 DEF IInv, TypeOK, Messages
<1>11. Position'  BY <1>1, <1>2, <1>3, <1>5 DEF Position, InExecute, AtEnd
<1>12. Progress' /\ Answers'
  BY <1>1, <1>2 DEF IInv, Progress, Answers, VerdictHasReason, InExecute
<1>13. Announcements'  BY <1>1, <1>2, OrdinaryEvent
<1> QED BY <1>2, <1>9, <1>10, <1>11, <1>12, <1>13 DEF IInv

\* Phase.DONE is appended after ordinary events only.
LEMMA AnnounceStep == IInv /\ Announce => IInv'
<1> SUFFICES ASSUME IInv, Announce PROVE IInv'  OBVIOUS
<1> USE DEF state, locals
<1> DEFINE e == IF Truthy(answer) THEN "done_completed" ELSE "done_stopped"
           Names == {"thinking", "writing_code", "sandbox_start", "sandbox_complete",
                     "done_completed", "done_stopped"}
<1>1. /\ pc = "respond" /\ pc' = "responding" /\ events' = Append(events, e)
      /\ UNCHANGED <<failure, messages, iterations, status, answer, steps, supersteps,
                     k, toolResults, localSteps>>
  BY DEF Announce, Emit
<1>2. events \in Seq(Names) /\ e \in Names /\ e \in DoneEvents
  BY DEF IInv, TypeOK, DoneEvents
<1>3. /\ events' \in Seq(Names) /\ Len(events') = Len(events) + 1
      /\ \A i \in 1..Len(events) : events'[i] = events[i]
      /\ events'[Len(events) + 1] = e /\ events' # <<>>
  BY <1>1, <1>2
<1>4. Announcements'
  <2>1. Last(events)' = e  BY <1>2, <1>3 DEF Last
  <2>2. \A i \in 1..(Len(events') - 1) : events'[i] \notin DoneEvents
    BY <1>1, <1>2, <1>3 DEF IInv, Announcements
  <2> QED BY <1>1, <1>2, <1>3, <2>1, <2>2 DEF Announcements
<1>5. TypeOK'  BY <1>1, <1>3 DEF IInv, TypeOK
<1>6. ConversationWellFormed'  BY <1>1 DEF IInv, ConversationWellFormed
<1>7. Position'  BY <1>1 DEF IInv, Position, InExecute, AtEnd
<1>8. Progress' /\ Answers'
  BY <1>1 DEF IInv, Progress, Answers, VerdictHasReason, InExecute, PendingCalls, Last
<1> QED BY <1>1, <1>4, <1>5, <1>6, <1>7, <1>8 DEF IInv

LEMMA ReturnStep == IInv /\ Return => IInv'
<1> SUFFICES ASSUME IInv, Return PROVE IInv'  OBVIOUS
<1> USE DEF locals
<1>1. /\ pc = "responding" /\ pc' = "returned"
      /\ status' = (IF Truthy(answer) THEN "done" ELSE "max_iterations")
      /\ answer' = (IF Truthy(answer) THEN answer ELSE "canned")
      /\ UNCHANGED <<failure, messages, iterations, steps, supersteps, k, toolResults,
                     localSteps, events>>
  BY DEF Return
<1>2. \/ answer = "none" /\ iterations = MaxIterations
      \/ answer \in {"text", "empty"} /\ PendingCalls = <<>>
  BY <1>1 DEF IInv, Answers
<1>3. TypeOK'  BY <1>1, <1>2 DEF IInv, TypeOK, Truthy
<1>4. ConversationWellFormed'  BY <1>1 DEF IInv, ConversationWellFormed
<1>5. Position'  BY <1>1 DEF IInv, Position, InExecute, AtEnd
<1>6. Progress' /\ Answers'
  <2>1. PendingCalls' = PendingCalls  BY <1>1 DEF PendingCalls, Last
  <2>2. VerdictHasReason'
    <3>1. CASE answer = "none" /\ iterations = MaxIterations
      BY <1>1, <3>1 DEF VerdictHasReason, Truthy
    <3>2. CASE answer \in {"text", "empty"} /\ PendingCalls = <<>>
      BY <1>1, <2>1, <3>2 DEF VerdictHasReason, Truthy
    <3> QED BY <1>2, <3>1, <3>2
  <2>3. Answers'  BY <1>1, <2>2 DEF Answers, InExecute
  <2>4. Progress'  BY <1>1 DEF IInv, Progress, InExecute
  <2> QED BY <2>3, <2>4
<1>7. Announcements'  BY <1>1 DEF IInv, Announcements, Last, Truthy
<1> QED BY <1>1, <1>3, <1>4, <1>5, <1>6, <1>7 DEF IInv

LEMMA StutterStep == IInv /\ UNCHANGED vars => IInv'
<1> SUFFICES ASSUME IInv, UNCHANGED vars PROVE IInv'  OBVIOUS
<1> USE DEF vars, state, locals
<1>1. TypeOK'  BY DEF IInv, TypeOK
<1>2. ConversationWellFormed'  BY DEF IInv, ConversationWellFormed
<1>3. Position'  BY DEF IInv, Position, InExecute, AtEnd
<1>4. Progress' /\ Answers'
  BY DEF IInv, Progress, Answers, VerdictHasReason, InExecute, PendingCalls, Last
<1>5. Announcements'  BY DEF IInv, Announcements, Last
<1> QED BY <1>1, <1>2, <1>3, <1>4, <1>5 DEF IInv

\* IInv is inductive.
LEMMA StepIInv == IInv /\ [Next]_vars => IInv'
<1> SUFFICES ASSUME IInv, [Next]_vars PROVE IInv'  OBVIOUS
<1>1. CASE Reason
  BY <1>1, StartReasoningStep, CompleteWithToolsStep, CompleteWithTextStep,
     ProviderRaisesStep DEF Reason
<1>2. CASE Execute
  BY <1>2, CallToolStep, UnknownToolStep, ToolRaisesStep, StartSandboxStep,
     FinishSandboxStep, SandboxRaisesStep, ReturnResultsStep DEF Execute
<1>3. CASE Respond
  BY <1>3, AnnounceStep, ReturnStep DEF Respond
<1>4. CASE Over \/ UNCHANGED vars
  BY <1>4, StutterStep DEF Over
<1> QED BY <1>1, <1>2, <1>3, <1>4 DEF Next

LEMMA Inductive == Spec => []IInv
  BY InitIInv, StepIInv, PTL DEF Spec

-----------------------------------------------------------------------------
\* The fields of the graph state keep their types in every run.
THEOREM TypeCorrect == Spec => []TypeOK
<1>1. IInv => TypeOK  BY DEF IInv
<1> QED BY <1>1, Inductive, PTL

\* Whatever the model asks for and whichever tools fail, the provider is only
\* ever given a conversation in which roles alternate and every call has, in
\* order, its result.
THEOREM ProviderAlwaysGetsValidCalls == Spec => []ProviderCallsValid
<1>1. IInv => ProviderCallsValid
  <2> SUFFICES ASSUME IInv, pc \in {"reason", "completing"}
               PROVE  Last(messages).role = "user"
    BY DEF ProviderCallsValid, IInv
  <2>1. iterations \in Nat /\ Len(messages) = 2 * iterations + 1
    BY DEF IInv, TypeOK, Position
  <2>2. Len(messages) \in 1..Len(messages) /\ Len(messages) % 2 = 1
    BY <2>1, Parity
  <2> QED BY <2>2 DEF IInv, ConversationWellFormed, Last
<1> QED BY <1>1, Inductive, PTL

\* No tool runs when no turn is left to read its result, and the cap holds.
THEOREM ResultsAlwaysSeen == Spec => []ToolResultsAreSeen
<1>1. IInv => ToolResultsAreSeen
  <2> SUFFICES ASSUME IInv PROVE ToolResultsAreSeen  OBVIOUS
  <2>1. pc \in {"reason", "completing", "raised"} \cup InExecute \cup AtEnd
    BY DEF IInv, TypeOK, InExecute, AtEnd
  <2>2. iterations \in Nat /\ MaxIterations \in Nat
    BY BoundsAssumption DEF IInv, TypeOK
  <2>3. iterations <= MaxIterations  BY <2>1, <2>2 DEF IInv, Position
  <2>4. pc \in {"execute", "sandbox"} => iterations < MaxIterations
    BY DEF IInv, Position, InExecute
  <2>5. failure \in {"tool", "sandbox"} => iterations < MaxIterations
    BY DEF IInv, Position
  <2> QED BY <2>3, <2>4, <2>5 DEF ToolResultsAreSeen
<1> QED BY <1>1, Inductive, PTL

\* The recursion limit suffices for every iteration cap.
THEOREM RecursionLimitSuffices == Spec => []NeverRecursionError
<1>1. IInv => NeverRecursionError
  BY DEF IInv, Position, NeverRecursionError
<1> QED BY <1>1, Inductive, PTL

\* done is reported only with the model's own answer, given in a turn without
\* tool calls; max_iterations only at the cap, or after a turn that had neither.
THEOREM VerdictsHaveReasons == Spec => []VerdictHasReason
<1>1. IInv => VerdictHasReason  BY DEF IInv, Answers
<1> QED BY <1>1, Inductive, PTL

\* Phase.DONE is published once, as the last event, and only by a run that
\* returns.
THEOREM DoneAlwaysLast == Spec => []DoneIsLast
<1>1. IInv => DoneIsLast
  <2> SUFFICES ASSUME IInv PROVE DoneIsLast  OBVIOUS
  <2> DEFINE terminal == {i \in DOMAIN events : events[i] \in {"done_completed", "done_stopped"}}
  <2>1. Len(events) \in Nat /\ DOMAIN events = 1..Len(events)
    BY DEF IInv, TypeOK
  <2>2. CASE pc \in {"responding", "returned"}
    <3>1. /\ Len(events) \in DOMAIN events
          /\ events[Len(events)] \in DoneEvents
          /\ \A i \in 1..(Len(events) - 1) : events[i] \notin DoneEvents
      BY <2>1, <2>2 DEF IInv, TypeOK, Announcements, Last
    <3>2. terminal = {Len(events)}  BY <2>1, <3>1 DEF DoneEvents
    <3> QED BY <2>2, <3>2 DEF DoneIsLast
  <2>3. CASE pc \notin {"responding", "returned"}
    <3>1. terminal = {}  BY <2>1, <2>3 DEF IInv, Announcements, DoneEvents
    <3> QED BY <2>3, <3>1 DEF DoneIsLast
  <2> QED BY <2>2, <2>3
<1> QED BY <1>1, Inductive, PTL

\* The loop implements OrchestrationRun: one announcement, then the return of
\* what was announced, or an exception without any.
THEOREM KeepsRunContract == Spec => ImplementsRun
<1>1. Init => Run!Init
  BY DEF Init, Run!Init
<1>2. IInv /\ IInv' /\ [Next]_vars => [Run!Next]_(Run!ovars)
  <2> SUFFICES ASSUME IInv, IInv', [Next]_vars PROVE [Run!Next]_(Run!ovars)
    OBVIOUS
  <2> USE DEF Run!ovars, Run!Next, vars, state
  <2>1. CASE Announce
    <3>1. /\ pc = "respond" /\ pc' = "responding"
          /\ Last(events)' \in DoneEvents
      BY <2>1 DEF Announce, IInv, Announcements
    <3> QED BY <3>1 DEF Run!Announce, Run!Outcomes, DoneEvents
  <2>2. CASE Return
    <3>1. /\ pc = "responding" /\ pc' = "returned"
          /\ Last(events)' = Last(events)
          /\ status' = IF Last(events) = "done_completed" THEN "done" ELSE "max_iterations"
      BY <2>2 DEF Return, IInv, Announcements, Last
    <3> QED BY <3>1 DEF Run!Return
  <2>3. CASE ProviderRaises \/ ToolRaises \/ SandboxRaises
    <3>1. pc \in {"completing", "execute", "sandbox"} /\ pc' = "raised"
      BY <2>3 DEF ProviderRaises, ToolRaises, SandboxRaises, AtCall, Fail
    <3> QED BY <3>1 DEF Run!Raise
  <2>4. CASE \/ StartReasoning \/ CallTool \/ UnknownTool
             \/ StartSandbox \/ FinishSandbox
    <3>1. /\ pc \in {"reason", "execute", "sandbox"}
          /\ pc' \in {"completing", "execute", "sandbox"}
      BY <2>4 DEF StartReasoning, CallTool, UnknownTool, StartSandbox, FinishSandbox, AtCall
    <3> QED BY <3>1
  <2>5. CASE CompleteWithTools
    <3>1. PICK calls \in Seq(Calls) : Goto(Route(calls, iterations + 1))
      BY <2>5, BoundsAssumption DEF CompleteWithTools
    <3>2. pc = "completing" /\ pc' \in {"execute", "respond"}
      BY <2>5, <3>1, RoomForNode DEF CompleteWithTools, Route
    <3> QED BY <3>2
  <2>6. CASE CompleteWithText
    <3>1. pc = "completing" /\ pc' \in {"execute", "respond"}
      BY <2>6, RoomForNode DEF CompleteWithText, Route
    <3> QED BY <3>1
  <2>7. CASE ReturnResults
    <3>1. pc = "execute" /\ pc' = "reason"
      BY <2>7, RoomForNode DEF ReturnResults
    <3> QED BY <3>1
  <2>8. CASE Over \/ UNCHANGED vars
    BY <2>8 DEF Over, Last
  <2> QED BY <2>1, <2>2, <2>3, <2>4, <2>5, <2>6, <2>7, <2>8
             DEF Next, Reason, Execute, Respond
<1> QED BY <1>1, <1>2, Inductive, PTL DEF Spec, ImplementsRun, Run!Spec
-----------------------------------------------------------------------------
(* SandboxAccounted: the sandbox events against the step records. *)

\* What publishing one more event does to the number of events of a phase.
LEMMA EmitCounts ==
  ASSUME IInv, NEW e, Emit(e), NEW phase
  PROVE  /\ Count(phase) \in Nat
         /\ Count(phase)' = IF e = phase THEN Count(phase) + 1 ELSE Count(phase)
<1> DEFINE n == Len(events)
           at == {i \in DOMAIN events : events[i] = phase}
<1>1. n \in Nat /\ DOMAIN events = 1..n  BY DEF IInv, TypeOK
<1>2. IsFiniteSet(at)
  <2>1. IsFiniteSet(1..n)  BY <1>1, FS_Interval
  <2>2. at \subseteq 1..n  BY <1>1
  <2> QED BY <2>1, <2>2, FS_Subset
<1>3. /\ DOMAIN events' = 1..(n + 1)
      /\ \A i \in 1..n : events'[i] = events[i]
      /\ events'[n + 1] = e
  BY <1>1 DEF Emit, IInv, TypeOK
<1>4. {i \in DOMAIN events' : events'[i] = phase} = IF e = phase THEN at \cup {n + 1} ELSE at
  <2>1. 1..(n + 1) = (1..n) \cup {n + 1}  BY <1>1
  <2> QED BY <1>1, <1>3, <2>1
<1>5. n + 1 \notin at  BY <1>1
<1>6. Cardinality(at) \in Nat  BY <1>2, FS_CardinalityType
<1>7. Cardinality(at \cup {n + 1}) = Cardinality(at) + 1
  BY <1>2, <1>5, FS_AddElement
<1>8. Count(phase) = Cardinality(at)  BY DEF Count
<1>9. Count(phase)' = Cardinality(IF e = phase THEN at \cup {n + 1} ELSE at)
  BY <1>4 DEF Count
<1> QED BY <1>6, <1>7, <1>8, <1>9

\* The two sides of SandboxAccounted, in a form that a step changes by one.
Recorded == IF pc \in InExecute \/ failure \in {"tool", "sandbox"} THEN localSteps ELSE steps
Running == IF pc = "sandbox" \/ failure = "sandbox" THEN 1 ELSE 0

LEMMA AccountedForm ==
  SandboxAccounted <=> /\ Count("sandbox_complete") = Recorded
                       /\ Count("sandbox_start") - Count("sandbox_complete") = Running
  BY DEF SandboxAccounted, Recorded, Running, InExecute

\* A step without an event of the sandbox leaves the account as it was, if it
\* moves neither the records nor the execution in progress.
LEMMA OtherEvent ==
  ASSUME IInv, SandboxAccounted, Recorded' = Recorded, Running' = Running,
         \/ UNCHANGED events
         \/ \E e : e \notin {"sandbox_start", "sandbox_complete"} /\ Emit(e)
  PROVE  SandboxAccounted'
<1>1. /\ Count("sandbox_complete")' = Count("sandbox_complete")
      /\ Count("sandbox_start")' = Count("sandbox_start")
  <2>1. CASE UNCHANGED events  BY <2>1 DEF Count
  <2>2. ASSUME NEW e, e \notin {"sandbox_start", "sandbox_complete"}, Emit(e)
        PROVE  /\ Count("sandbox_complete")' = Count("sandbox_complete")
               /\ Count("sandbox_start")' = Count("sandbox_start")
    BY <2>2, EmitCounts
  <2> QED BY <2>1, <2>2
<1> QED BY <1>1, AccountedForm DEF SandboxAccounted, Recorded, Running, InExecute

\* Every step keeps the account.
LEMMA AccountStep == IInv /\ SandboxAccounted /\ [Next]_vars => SandboxAccounted'
<1> SUFFICES ASSUME IInv, SandboxAccounted, [Next]_vars PROVE SandboxAccounted'
  OBVIOUS
<1> USE DEF state, locals, Recorded, Running, InExecute
<1>0. failure = "none" <=> pc # "raised"  BY DEF IInv
<1>1. CASE StartReasoning \/ CallTool \/ Announce
  <2>1. Recorded' = Recorded /\ Running' = Running
    BY <1>1, <1>0 DEF StartReasoning, CallTool, Announce, AtCall
  <2>2. \E e : e \notin {"sandbox_start", "sandbox_complete"} /\ Emit(e)
    BY <1>1 DEF StartReasoning, CallTool, Announce
  <2> QED BY <2>1, <2>2, OtherEvent
<1>2. CASE UnknownTool \/ ProviderRaises \/ ToolRaises \/ SandboxRaises \/ Return
  <2>1. Recorded' = Recorded /\ Running' = Running
    BY <1>2, <1>0 DEF UnknownTool, ProviderRaises, ToolRaises, SandboxRaises, Return,
                      AtCall, Fail
  <2>2. UNCHANGED events
    BY <1>2 DEF UnknownTool, ProviderRaises, ToolRaises, SandboxRaises, Return
  <2> QED BY <2>1, <2>2, OtherEvent
<1>3. CASE CompleteWithTools
  <2>1. PICK calls \in Seq(Calls) : Goto(Route(calls, iterations + 1))
    BY <1>3, BoundsAssumption DEF CompleteWithTools
  <2>2. /\ pc = "completing" /\ pc' \in {"execute", "respond"} /\ failure' = "none"
        /\ failure = "none" /\ localSteps' = steps /\ steps' = steps
        /\ Emit("writing_code")
    BY <1>0, <1>3, <2>1, RoomForNode DEF CompleteWithTools, Route
  <2> QED BY <2>2, OtherEvent
<1>4. CASE CompleteWithText
  <2>1. /\ pc = "completing" /\ pc' = "respond" /\ failure' = "none"
        /\ failure = "none" /\ steps' = steps /\ UNCHANGED events
    BY <1>0, <1>4, RoomForNode DEF CompleteWithText, Route
  <2> QED BY <2>1, OtherEvent
<1>5. CASE ReturnResults
  <2>1. /\ pc = "execute" /\ pc' = "reason" /\ failure' = "none"
        /\ failure = "none" /\ steps' = localSteps /\ UNCHANGED events
    BY <1>0, <1>5, RoomForNode DEF ReturnResults
  <2> QED BY <2>1, OtherEvent
<1>6. CASE StartSandbox
  <2>1. /\ pc = "execute" /\ pc' = "sandbox" /\ failure = "none" /\ failure' = "none"
        /\ localSteps' = localSteps
    BY <1>0, <1>6 DEF StartSandbox, AtCall
  <2>2. /\ Count("sandbox_start") \in Nat /\ Count("sandbox_complete") \in Nat
        /\ Count("sandbox_start")' = Count("sandbox_start") + 1
        /\ Count("sandbox_complete")' = Count("sandbox_complete")
    BY <1>6, EmitCounts DEF StartSandbox
  <2>3. /\ Count("sandbox_complete") = localSteps
        /\ Count("sandbox_start") - Count("sandbox_complete") = 0
    BY <2>1, AccountedForm
  <2>4. Count("sandbox_start")' - Count("sandbox_complete")' = 1
    BY <2>2, <2>3
  <2> QED BY <2>1, <2>2, <2>3, <2>4 DEF SandboxAccounted
<1>7. CASE FinishSandbox
  <2>1. /\ pc = "sandbox" /\ pc' = "execute" /\ failure = "none" /\ failure' = "none"
        /\ localSteps' = localSteps + 1
    BY <1>0, <1>7 DEF FinishSandbox
  <2>2. /\ Count("sandbox_start") \in Nat /\ Count("sandbox_complete") \in Nat
        /\ Count("sandbox_start")' = Count("sandbox_start")
        /\ Count("sandbox_complete")' = Count("sandbox_complete") + 1
    BY <1>7, EmitCounts DEF FinishSandbox
  <2>3. /\ Count("sandbox_complete") = localSteps
        /\ Count("sandbox_start") - Count("sandbox_complete") = 1
    BY <2>1, AccountedForm
  <2>4. /\ Count("sandbox_complete")' = localSteps'
        /\ Count("sandbox_start")' - Count("sandbox_complete")' = 0
    BY <2>1, <2>2, <2>3
  <2> QED BY <2>1, <2>4 DEF SandboxAccounted
<1>8. CASE Over \/ UNCHANGED vars
  BY <1>8, OtherEvent DEF Over, vars
<1> QED BY <1>1, <1>2, <1>3, <1>4, <1>5, <1>6, <1>7, <1>8
           DEF Next, Reason, Execute, Respond

\* Every completed sandbox execution the watchers saw has exactly one step
\* record, however many turns, calls and failures the run went through, and at
\* most one execution is open, the one in progress or the one that raised.
THEOREM SandboxAlwaysAccounted == Spec => []SandboxAccounted
<1>1. Init => SandboxAccounted
  <2> SUFFICES ASSUME Init PROVE SandboxAccounted  OBVIOUS
  <2>1. \A phase : {i \in DOMAIN events : events[i] = phase} = {}  BY DEF Init
  <2>2. \A phase : Count(phase) = 0  BY <2>1, FS_EmptySet DEF Count
  <2> QED BY <2>2 DEF Init, SandboxAccounted
<1> QED BY <1>1, AccountStep, Inductive, PTL DEF Spec
=============================================================================
