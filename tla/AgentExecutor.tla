---------------------------- MODULE AgentExecutor ----------------------------
(***************************************************************************)
(* chains.Call on an agents.Executor, call after call over one memory:     *)
(* loading the memory, the loop that asks the agent for a plan and runs    *)
(* its tools, the events shown to the callbacks handler, and saving the    *)
(* turn.  The agent, its tools and the store behind the memory are the     *)
(* environment: a plan is anything the package's agents return.            *)
(***************************************************************************)
EXTENDS Integers, Sequences, FiniteSets

CONSTANTS
    Names,          \* the tool names a plan may use
    ToolList,       \* Agent.GetTools(): a sequence of names
    Upper,          \* strings.ToUpper, on the names
    IterationLimits,\* the values WithMaxIterations may give
    MaxActions,     \* bound: actions in one plan (parallel tool calls)
    MaxCalls        \* bound: calls made on the executor

ASSUME NamesAssumption ==
    /\ ToolList \in Seq(Names)
    /\ Upper \in [Names -> Names]
ASSUME BoundsAssumption ==
    /\ IterationLimits \subseteq Int
    /\ MaxActions \in Nat \ {0} /\ MaxCalls \in Nat

\* NewExecutor's options.
Options == [maxIterations : IterationLimits, errorHandler : BOOLEAN,
            returnSteps : BOOLEAN, memory : {"simple", "buffer"},
            outputKey : BOOLEAN]

\* An action, numbered in the order the plans of the call give it.
Action == [tool : Names, id : Nat \ {0}]
\* An observation: of the tool at an index of ToolList, or of none ("invalid"
\* tool, unparsable plan); and the action it answers, 0 for an unparsable plan.
Observation == [tool : 0..Len(ToolList), of : Nat]

\* getNameToTool and the lookup in doAction: the last tool of a name, up to case,
\* is what the map holds for it; 0 stands for nothing.
Matching(name) == {k \in DOMAIN ToolList : Upper[ToolList[k]] = Upper[name]}
Holds(name, k) ==
    IF k = 0 THEN Matching(name) = {}
    ELSE k \in Matching(name) /\ \A j \in Matching(name) : j <= k

VARIABLES
    opts,       \* the executor's options
    pc,         \* the next step of the call
    input,      \* the call's input values
    iteration,  \* i in Executor.Call
    steps,      \* the intermediate steps: an observation each, in order
    todo,       \* the actions of the plan not done yet
    planned,    \* actions planned so far in this call (numbers them)
    output,     \* the values the agent finished with
    err,        \* the error in hand
    returned,   \* the intermediate steps among the values returned, if any
    events,     \* what the handler saw of this call
    history,    \* the chat history of the memory
    calls       \* calls begun

vars == <<opts, pc, input, iteration, steps, todo, planned, output, err,
          returned, events, history, calls>>

NotReturned == [some |-> FALSE, steps |-> <<>>]

Init ==
    /\ opts \in Options
    /\ pc = "idle" /\ input = "ok" /\ iteration = 0
    /\ steps = <<>> /\ todo = <<>> /\ planned = 0
    /\ output = "ok" /\ err = "nil" /\ returned = NotReturned
    /\ events = <<>> /\ history = <<>> /\ calls = 0

Event(k) == [kind |-> k, action |-> 0]
Tell(e) == events' = Append(events, e)

\* Return to the caller of chains.Call.
Return(e) == pc' = "idle" /\ err' = e

\* Executor.Call returns an error: chains.Call tells the handler next.
Fail(e) == pc' = "failed" /\ err' = e

------------------------------------------------------------------------------
\* chains.Call up to Executor.Call.

Begin ==
    /\ pc = "idle" /\ calls < MaxCalls
    /\ pc' = "load" /\ calls' = calls + 1
    /\ input' \in {"ok", "missing", "not a string"}
    /\ iteration' = 0 /\ steps' = <<>> /\ todo' = <<>> /\ planned' = 0
    /\ output' = "ok" /\ err' = "none" /\ returned' = NotReturned
    /\ events' = <<>>
    /\ UNCHANGED <<opts, history>>

\* Mutant: the failure to load is told to the handler.
LoadFailsAloud ==
    /\ pc = "load" /\ opts.memory = "buffer"
    /\ Tell(Event("ChainError")) /\ Return("memory")
    /\ UNCHANGED <<opts, input, iteration, steps, todo, planned, output,
                   returned, history, calls>>

\* LoadMemoryVariables fails: no callback has been made yet.
LoadFails ==
    /\ pc = "load" /\ opts.memory = "buffer"
    /\ Return("memory")
    /\ UNCHANGED <<opts, input, iteration, steps, todo, planned, output,
                   returned, events, history, calls>>

Start ==
    /\ pc = "load"
    /\ Tell(Event("ChainStart")) /\ pc' = "inputs"
    /\ UNCHANGED <<opts, input, iteration, steps, todo, planned, output, err,
                   returned, history, calls>>

\* validateInputs and inputsToString.
CheckInputs ==
    /\ pc = "inputs"
    /\ \/ input = "ok" /\ pc' = "loop" /\ UNCHANGED err
       \/ input # "ok" /\ Fail(input)
    /\ UNCHANGED <<opts, input, iteration, steps, todo, planned, output,
                   returned, events, history, calls>>

------------------------------------------------------------------------------
\* Executor.Call, doIteration and doAction.

Planning == pc = "loop" /\ iteration < opts.maxIterations
LoopUnchanged == UNCHANGED <<opts, input, returned, history, calls>>

PlanUnparsable ==
    /\ Planning
    /\ \/ /\ opts.errorHandler
          /\ steps' = Append(steps, [tool |-> 0, of |-> 0])
          /\ iteration' = iteration + 1
          /\ UNCHANGED <<pc, err>>
       \/ /\ ~opts.errorHandler /\ Fail("unparsable")
          /\ UNCHANGED <<steps, iteration>>
    /\ LoopUnchanged /\ UNCHANGED <<todo, planned, output, events>>

\* Any other error of Plan, or a plan with neither action nor finish.
PlanFails ==
    /\ Planning
    /\ \E e \in {"plan", "no return"} : Fail(e)
    /\ LoopUnchanged
    /\ UNCHANGED <<iteration, steps, todo, planned, output, events>>

\* The agent finishes; an OpenAIFunctionsAgent with another OutputKey than
\* "output" still finishes with "output".
PlanFinish ==
    /\ Planning
    /\ \E f \in {"ok", "wrong key"} : output' = f
    /\ Tell(Event("AgentFinish"))
    /\ returned' = IF opts.returnSteps THEN [some |-> TRUE, steps |-> steps]
                                       ELSE NotReturned
    /\ pc' = "outputs"
    /\ UNCHANGED <<opts, input, iteration, steps, todo, planned, err, history,
                   calls>>

PlanActions ==
    /\ Planning
    /\ \E n \in 1..MaxActions : \E names \in [1..n -> Names] :
          /\ todo' = [k \in 1..n |-> [tool |-> names[k], id |-> planned + k]]
          /\ planned' = planned + n
    /\ pc' = "act"
    /\ LoopUnchanged /\ UNCHANGED <<iteration, steps, output, err, events>>

Announce ==
    /\ pc = "act" /\ todo # <<>>
    /\ Tell([kind |-> "AgentAction", action |-> todo[1].id]) /\ pc' = "tool"
    /\ LoopUnchanged
    /\ UNCHANGED <<iteration, steps, todo, planned, output, err>>

\* Mutant: an invalid tool is skipped.
ObserveValid ==
    /\ pc = "tool"
    /\ \E k \in 0..Len(ToolList) :
          /\ Holds(todo[1].tool, k)
          /\ steps' = IF k = 0 THEN steps
                      ELSE Append(steps, [tool |-> k, of |-> todo[1].id])
    /\ todo' = Tail(todo) /\ pc' = "act"
    /\ LoopUnchanged /\ UNCHANGED <<iteration, planned, output, err, events>>

\* The tool returns, or there is no such tool: either way a step is added.
Observe ==
    /\ pc = "tool"
    /\ \E k \in 0..Len(ToolList) :
          /\ Holds(todo[1].tool, k)
          /\ steps' = Append(steps, [tool |-> k, of |-> todo[1].id])
    /\ todo' = Tail(todo) /\ pc' = "act"
    /\ LoopUnchanged /\ UNCHANGED <<iteration, planned, output, err, events>>

\* The tool fails: doAction returns no steps at all.
ToolFails ==
    /\ pc = "tool" /\ Matching(todo[1].tool) # {}
    /\ steps' = <<>> /\ Fail("tool")
    /\ LoopUnchanged /\ UNCHANGED <<iteration, todo, planned, output, events>>

NextIteration ==
    /\ pc = "act" /\ todo = <<>>
    /\ iteration' = iteration + 1 /\ pc' = "loop"
    /\ LoopUnchanged /\ UNCHANGED <<steps, todo, planned, output, err, events>>

\* Mutant: the steps are left out when the iterations are used up.
NotFinishedWithoutSteps ==
    /\ pc = "loop" /\ iteration >= opts.maxIterations
    /\ Tell(Event("AgentFinish"))
    /\ returned' = [some |-> opts.returnSteps, steps |-> <<>>]
    /\ Fail("not finished")
    /\ UNCHANGED <<opts, input, iteration, steps, todo, planned, output,
                   history, calls>>

\* The iterations are used up: an AgentFinish, then an error.
NotFinished ==
    /\ pc = "loop" /\ iteration >= opts.maxIterations
    /\ Tell(Event("AgentFinish"))
    /\ returned' = IF opts.returnSteps THEN [some |-> TRUE, steps |-> steps]
                                       ELSE NotReturned
    /\ Fail("not finished")
    /\ UNCHANGED <<opts, input, iteration, steps, todo, planned, output,
                   history, calls>>

------------------------------------------------------------------------------
\* chains.Call after Executor.Call.

\* Mutant: the question of a failed call is saved.
TellErrorSaving ==
    /\ pc = "failed"
    /\ Tell(Event("ChainError")) /\ Return(err)
    /\ history' = Append(history, [call |-> calls, from |-> "human"])
    /\ UNCHANGED <<opts, input, iteration, steps, todo, planned, output,
                   returned, calls>>

TellError ==
    /\ pc = "failed"
    /\ Tell(Event("ChainError")) /\ Return(err)
    /\ UNCHANGED <<opts, input, iteration, steps, todo, planned, output,
                   returned, history, calls>>

\* validateOutputs.
CheckOutputs ==
    /\ pc = "outputs"
    /\ \/ output = "ok" /\ pc' = "end" /\ UNCHANGED err
       \/ output = "wrong key" /\ Fail("outputs")
    /\ UNCHANGED <<opts, input, iteration, steps, todo, planned, output,
                   returned, events, history, calls>>

TellEnd ==
    /\ pc = "end"
    /\ Tell(Event("ChainEnd")) /\ pc' = "save"
    /\ UNCHANGED <<opts, input, iteration, steps, todo, planned, output, err,
                   returned, history, calls>>

SaveUnchanged == UNCHANGED <<opts, input, iteration, steps, todo, planned,
                             output, returned, events, calls>>

SaveNothing ==
    /\ pc = "save" /\ opts.memory = "simple"
    /\ Return("nil")
    /\ SaveUnchanged /\ UNCHANGED history

SaveUser ==
    /\ pc = "save" /\ opts.memory = "buffer"
    /\ history' = Append(history, [call |-> calls, from |-> "human"])
    /\ pc' = "save answer" /\ UNCHANGED err
    /\ SaveUnchanged

\* GetInputValue on the outputs: the intermediate steps are a second key.
Ambiguous == returned.some /\ ~opts.outputKey

SaveAnswer ==
    /\ pc = "save answer" /\ ~Ambiguous
    /\ history' = Append(history, [call |-> calls, from |-> "ai"])
    /\ Return("nil")
    /\ SaveUnchanged

\* Mutant: a question without an answer is taken back and saved again.
SaveFailsRetrying ==
    /\ pc = "save answer"
    /\ history' = SubSeq(history, 1, Len(history) - 1)
    /\ pc' = "save" /\ UNCHANGED err
    /\ SaveUnchanged

\* The output is ambiguous, or the store rejects one of the two messages.
SaveFails ==
    /\ \/ pc = "save" /\ opts.memory = "buffer"
       \/ pc = "save answer"
    /\ Return("memory")
    /\ SaveUnchanged /\ UNCHANGED history

Idle == pc = "idle" /\ calls = MaxCalls /\ UNCHANGED vars

CallStep ==
    \/ LoadFails \/ Start \/ CheckInputs
    \/ PlanUnparsable \/ PlanFails \/ PlanFinish \/ PlanActions
    \/ Announce \/ Observe \/ ToolFails \/ NextIteration \/ NotFinished
    \/ TellError \/ CheckOutputs \/ TellEnd
    \/ SaveNothing \/ SaveUser \/ SaveAnswer \/ SaveFails

Next == Begin \/ CallStep \/ Idle

Spec == Init /\ [][Next]_vars
\* A goroutine that can move does; the model and the tools answer or fail.
FairSpec == Spec /\ WF_vars(CallStep)

------------------------------------------------------------------------------
\* Properties.

Pcs == {"idle", "load", "inputs", "loop", "act", "tool", "failed", "outputs",
        "end", "save", "save answer"}

Events == [kind : {"ChainStart", "AgentAction", "AgentFinish", "ChainEnd",
                   "ChainError"}, action : Nat]
Messages == [call : 1..MaxCalls, from : {"human", "ai"}]

TypeOK ==
    /\ opts \in Options /\ pc \in Pcs
    /\ input \in {"ok", "missing", "not a string"}
    /\ iteration \in Nat /\ planned \in Nat /\ calls \in 0..MaxCalls
    /\ steps \in Seq(Observation) /\ todo \in Seq(Action)
    /\ output \in {"ok", "wrong key"}
    /\ err \in {"none", "nil", "memory", "missing", "not a string",
                "unparsable", "plan", "no return", "tool", "not finished",
                "outputs"}
    /\ returned \in [some : BOOLEAN, steps : Seq(Observation)]
    /\ events \in Seq(Events)
    /\ history \in Seq(Messages)

\* Each time the agent is asked to plan, its steps answer every action the
\* handler was told of, in the order of the plans, once each: no observation
\* is lost, repeated, or attached to another action of a parallel group.
Answered(k) == \E i \in DOMAIN steps : steps[i].of = k
InOrder == \A i, j \in DOMAIN steps :
              i < j /\ steps[j].of # 0 => steps[i].of < steps[j].of
AgentSeesEveryAction ==
    pc = "loop" => /\ \A i \in DOMAIN events : events[i].kind = "AgentAction"
                                                  => Answered(events[i].action)
                   /\ InOrder

\* No iteration is spent in vain: every iteration done has told the agent
\* something it did not know, so that the next plan may differ.
EveryIterationTeaches == pc = "loop" => Len(steps) >= iteration

\* Values returned with the intermediate steps hold all of them: an answer
\* for every action announced, also when the iterations ran out.
ReturnedStepsAreComplete ==
    pc = "idle" /\ returned.some =>
        \A i \in DOMAIN events : events[i].kind = "AgentAction" =>
            \E j \in DOMAIN returned.steps : returned.steps[j].of = events[i].action

\* The memory's answers are those of the calls that returned nil, each right
\* after its question; a call that failed before its ChainEnd left no trace.
Remembered(c) == \E i \in DOMAIN history : history[i] = [call |-> c, from |-> "ai"]
MemoryMatchesAnswers ==
    /\ \A i \in DOMAIN history : history[i].from = "ai" =>
          i > 1 /\ history[i-1] = [call |-> history[i].call, from |-> "human"]
    /\ pc = "idle" /\ calls > 0 /\ opts.memory = "buffer" =>
          (Remembered(calls) <=> err = "nil")
    /\ \A i \in DOMAIN history : history[i].call = calls =>
          \E j \in DOMAIN events : events[j].kind = "ChainEnd"

\* What the handler and the caller see is what HandlerProtocol promises.
Protocol == INSTANCE HandlerProtocol WITH
    answer <- IF pc # "idle" THEN "none"
              ELSE IF err = "nil" THEN "nil" ELSE "error"
ImplementsProtocol == Protocol!Spec

\* Every call returns.
CallReturns == (pc # "idle") ~> (pc = "idle")
==============================================================================
