---------------------------- MODULE FunctionsAgent ----------------------------
(***************************************************************************)
(* OpenAIFunctionsAgent at work in an Executor: Plan turns the steps into  *)
(* the messages of a scratch pad (constructScratchPad), asks the model and *)
(* reads the tool calls out of its response (ParseOutput); the executor    *)
(* runs them as AgentExecutor says, and asks again.                        *)
(***************************************************************************)
EXTENDS AgentExecutor, SequencesExt, FiniteSetsExt

CONSTANTS
    Arguments,      \* the arguments of a function call,
    Parsable,       \* those of them that are JSON objects,
    Unwrapped       \* and their "__arg1" if they have one, or they themselves

VARIABLES
    actions,        \* the actions planned in this call, by number
    responses       \* the tool calls of each response (history variable)

agentVars == <<actions, responses>>
allVars == <<vars, agentVars>>

AgentInit == Init /\ actions = <<>> /\ responses = <<>>

------------------------------------------------------------------------------
\* constructScratchPad.

ActionOf(i) == actions[steps[i].of]

\* A group starts where the log is another one than the step before has, and
\* ends where the next one starts.
Starts == {i \in DOMAIN steps : i = 1 \/ ActionOf(i).log # ActionOf(i - 1).log}
EndsGroup(i) == i = Len(steps) \/ i + 1 \in Starts
GroupOf(i) == Max({j \in Starts : j <= i})..i

Call(i) == [id |-> ActionOf(i).toolID, name |-> ActionOf(i).tool,
            arguments |-> ActionOf(i).input]
Response(i) == [role |-> "tool", id |-> ActionOf(i).toolID, content |-> steps[i]]

\* The calls of a group as the assistant's message, then their answers.
Group(i) ==
    LET first == Min(GroupOf(i)) - 1
        size  == i - first
    IN  <<[role |-> "ai", calls |-> [k \in 1..size |-> Call(first + k)]]>>
        \o [k \in 1..size |-> Response(first + k)]
ScratchPad ==
    FlattenSeq([i \in DOMAIN steps |-> IF EndsGroup(i) THEN Group(i) ELSE <<>>])

------------------------------------------------------------------------------
\* ParseOutput.

FunctionCall == [name : Names, arguments : Arguments]

\* The log says what is called, with what, and what the model said besides; it
\* does not say which call it is. A legacy call's log is laid out otherwise,
\* and leaves out what was said if the arguments are not JSON.
LogOf(call, content, legacy) ==
    [name |-> call.name, arguments |-> call.arguments, legacy |-> legacy,
     said |-> IF legacy /\ call.arguments \notin Parsable THEN "" ELSE content]
ActionFor(call, content, id, legacy) ==
    [tool |-> call.name, input |-> Unwrapped[call.arguments],
     log |-> LogOf(call, content, legacy), toolID |-> id]

\* The model calls tools, at once or, in the legacy form, one without an ID.
Plans(toolCalls, content, legacy) ==
    /\ PlanActions
    /\ todo' = [k \in DOMAIN toolCalls |-> [tool |-> toolCalls[k].name, id |-> planned + k]]
    /\ actions' = actions \o [k \in DOMAIN toolCalls |->
         ActionFor(toolCalls[k], content, IF legacy THEN 0 ELSE planned + k, legacy)]
    /\ responses' = Append(responses, [k \in DOMAIN toolCalls |-> planned + k])
PlanToolCalls ==
    \E n \in 1..MaxActions, content \in {"", "said"} :
      \E toolCalls \in [1..n -> FunctionCall] : Plans(toolCalls, content, FALSE)
PlanLegacyCall ==
    \E call \in FunctionCall, content \in {"", "said"} :
       Plans(<<call>>, content, TRUE)

\* No choice, or an error; or a choice that calls nothing, which is the answer.
PlanEnds == (PlanFails \/ PlanFinish) /\ UNCHANGED agentVars

\* The rest of the executor's call.
Execute ==
    /\ \/ LoadFails \/ Start \/ CheckInputs
       \/ Announce \/ Observe \/ ToolFails \/ NextIteration \/ NotFinished
       \/ TellError \/ CheckOutputs \/ TellEnd
       \/ SaveNothing \/ SaveUser \/ SaveAnswer \/ SaveFails \/ Idle
    /\ UNCHANGED agentVars

AgentNext ==
    \/ Begin /\ actions' = <<>> /\ responses' = <<>>
    \/ PlanToolCalls \/ PlanLegacyCall \/ PlanEnds
    \/ Execute

AgentSpec == AgentInit /\ [][AgentNext]_allVars

------------------------------------------------------------------------------
\* Properties, each time the model is asked again.

\* Every tool call of every response has its observation, in the order of the
\* calls and of the tool it named, and there is no other: what the scratch pad
\* is made of answers the model, whatever was planned in parallel.
EveryCallAnswered ==
    pc = "loop" =>
        /\ Len(steps) = Len(actions)
        /\ \A i \in DOMAIN steps :
              steps[i].of = i /\ Holds(ActionOf(i).tool, steps[i].tool)
        /\ \A t \in DOMAIN responses : \A k \in DOMAIN responses[t] :
              responses[t][k] \in DOMAIN steps

Asked == pc = "loop" /\ steps # <<>>
Turns == SelectSeq(ScratchPad, LAMBDA m : m.role = "ai")

\* "handle multiple tool calls that might be executed in parallel": the calls
\* of one response are one message of the assistant's in the next request, and
\* calls of two responses are two.
TurnsAsTheyWere ==
    Asked =>
        /\ Len(Turns) = Len(responses)
        /\ \A t \in DOMAIN Turns : Len(Turns[t].calls) = Len(responses[t])
==============================================================================
