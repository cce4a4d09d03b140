------------------------- MODULE AgentExecutorProofs -------------------------
(***************************************************************************)
(* Proofs about AgentExecutor, for all tools, names, iteration limits and  *)
(* numbers of actions and calls.                                           *)
(***************************************************************************)
EXTENDS FunctionsAgent, TLAPS

------------------------------------------------------------------------------
\* Appending, once for events, steps and history.

\* What Append does to a sequence: one more element, the others as they were.
LEMMA AppendFacts ==
    ASSUME NEW S, NEW s \in Seq(S), NEW e \in S
    PROVE  /\ Append(s, e) \in Seq(S)
           /\ Len(Append(s, e)) = Len(s) + 1
           /\ DOMAIN Append(s, e) = 1..(Len(s) + 1)
           /\ Append(s, e) # <<>>
           /\ Append(s, e)[Len(s) + 1] = e
           /\ \A i \in 1..Len(s) : Append(s, e)[i] = s[i]
  OBVIOUS

\* The parts of TypeOK that arithmetic is done with.
LEMMA Numbers ==
    ASSUME TypeOK
    PROVE  /\ iteration \in Nat /\ planned \in Nat
           /\ calls \in 0..MaxCalls /\ pc \in Pcs
BY Zenon DEF TypeOK

Kinds == {"ChainStart", "AgentFinish", "ChainEnd", "ChainError"}

\* Telling the handler keeps its events well-typed and puts one at the end.
LEMMA TellFacts ==
    ASSUME TypeOK, NEW e \in Events, Tell(e)
    PROVE  /\ events' \in Seq(Events) /\ events' # <<>>
           /\ Len(events') = Len(events) + 1
           /\ DOMAIN events = 1..Len(events)
           /\ DOMAIN events' = 1..(Len(events) + 1)
           /\ events'[Len(events) + 1] = e
           /\ \A i \in 1..Len(events) : events'[i] = events[i]
<1>1. events \in Seq(Events) BY DEF TypeOK
<1>2. events' = Append(events, e) BY DEF Tell
<1> QED BY <1>1, <1>2, AppendFacts

LEMMA EventType == \A k \in Kinds : Event(k) \in Events
BY DEF Kinds, Event, Events

\* Adding a step keeps the steps well-typed and puts one at the end.
LEMMA StepFacts ==
    ASSUME TypeOK, NEW o \in Observation, steps' = Append(steps, o)
    PROVE  /\ steps' \in Seq(Observation)
           /\ Len(steps') = Len(steps) + 1
           /\ DOMAIN steps = 1..Len(steps)
           /\ DOMAIN steps' = 1..(Len(steps) + 1)
           /\ steps'[Len(steps) + 1] = o
           /\ \A i \in 1..Len(steps) : steps'[i] = steps[i]
<1>1. steps \in Seq(Observation) BY DEF TypeOK
<1> QED BY <1>1, AppendFacts

\* The first action of a plan that is not done.
LEMMA FirstAction ==
    ASSUME TypeOK, todo # <<>>
    PROVE  /\ todo[1] \in Action /\ todo[1].id \in Nat
           /\ Len(todo) \in Nat /\ Len(todo) >= 1
           /\ Tail(todo) \in Seq(Action) /\ Len(Tail(todo)) = Len(todo) - 1
           /\ \A k \in 1..(Len(todo) - 1) : Tail(todo)[k] = todo[k + 1]
<1>1. todo \in Seq(Action) BY DEF TypeOK
<1>2. Len(todo) \in Nat /\ Len(todo) >= 1 BY <1>1
<1>3. todo[1] \in Action BY <1>1, <1>2
<1>4. todo[1].id \in Nat BY <1>3 DEF Action
<1>5. Tail(todo) \in Seq(Action) /\ Len(Tail(todo)) = Len(todo) - 1
  BY <1>1
<1>6. \A k \in 1..(Len(todo) - 1) : Tail(todo)[k] = todo[k + 1]
  BY <1>1, <1>2
<1> QED BY <1>2, <1>3, <1>4, <1>5, <1>6

\* A plan's actions are numbered after those planned before.
LEMMA PlanFacts ==
    ASSUME TypeOK, PlanActions
    PROVE  \E n \in Nat \ {0} :
              /\ todo' \in Seq(Action) /\ Len(todo') = n
              /\ \A k \in 1..n : todo'[k].id = planned + k
              /\ planned' = planned + n
<1>1. PICK n \in 1..MaxActions : \E names \in [1..n -> Names] :
         /\ todo' = [k \in 1..n |-> [tool |-> names[k], id |-> planned + k]]
         /\ planned' = planned + n
  BY DEF PlanActions
<1>2. PICK names \in [1..n -> Names] :
         /\ todo' = [k \in 1..n |-> [tool |-> names[k], id |-> planned + k]]
         /\ planned' = planned + n
  BY <1>1
<1>3. n \in Nat \ {0} BY BoundsAssumption
<1>4. planned \in Nat BY DEF TypeOK
<1>5. ASSUME NEW k \in 1..n
      PROVE  [tool |-> names[k], id |-> planned + k] \in Action
  <2>1. planned + k \in Nat \ {0} BY <1>3, <1>4
  <2>2. names[k] \in Names BY <1>2
  <2> QED BY <2>1, <2>2 DEF Action
<1>6. todo' \in Seq(Action) /\ Len(todo') = n BY <1>2, <1>3, <1>5
<1>7. \A k \in 1..n : todo'[k].id = planned + k BY <1>2
<1> QED BY <1>2, <1>3, <1>6, <1>7

------------------------------------------------------------------------------
\* Type correctness.

LEMMA InitType == Init => TypeOK
<1> SUFFICES ASSUME Init PROVE TypeOK OBVIOUS
<1>1. opts \in Options /\ pc \in Pcs BY DEF Init, Pcs
<1>2. returned \in [some : BOOLEAN, steps : Seq(Observation)]
  BY DEF Init, NotReturned
<1>3. calls \in 0..MaxCalls BY BoundsAssumption DEF Init
<1> QED BY <1>1, <1>2, <1>3 DEF Init, TypeOK

\* The actions that tell the handler of something, and change at most the
\* step, the error in hand and the returned steps besides.
LEMMA TellType ==
    ASSUME TypeOK, Start \/ TellError \/ TellEnd \/ PlanFinish \/ NotFinished
    PROVE  TypeOK'
<1>1. PICK k \in Kinds : Tell(Event(k))
  BY DEF Start, TellError, TellEnd, PlanFinish, NotFinished, Kinds
<1>2. events' \in Seq(Events) BY <1>1, TellFacts, EventType
<1>3. pc' \in Pcs
  BY DEF Start, TellError, TellEnd, PlanFinish, NotFinished, Pcs, Return, Fail
<1>4. returned' \in [some : BOOLEAN, steps : Seq(Observation)]
  <2>1. CASE returned' = returned BY <2>1 DEF TypeOK
  <2>2. CASE returned' = NotReturned BY <2>2 DEF NotReturned
  <2>3. CASE returned' = [some |-> TRUE, steps |-> steps] BY <2>3 DEF TypeOK
  <2> QED BY <2>1, <2>2, <2>3
             DEF Start, TellError, TellEnd, PlanFinish, NotFinished
<1>5. output' \in {"ok", "wrong key"}
  BY DEF Start, TellError, TellEnd, PlanFinish, NotFinished, TypeOK
<1>6. err' \in {"none", "nil", "memory", "missing", "not a string",
                "unparsable", "plan", "no return", "tool", "not finished",
                "outputs"}
  BY DEF Start, TellError, TellEnd, PlanFinish, NotFinished, TypeOK, Return,
         Fail
<1>7. UNCHANGED <<opts, input, iteration, steps, todo, planned, history, calls>>
  BY DEF Start, TellError, TellEnd, PlanFinish, NotFinished
<1> QED BY <1>2, <1>3, <1>4, <1>5, <1>6, <1>7 DEF TypeOK

\* The actions that only move the call on, or return from it.
LEMMA QuietType ==
    ASSUME TypeOK,
           LoadFails \/ CheckInputs \/ PlanFails \/ CheckOutputs
             \/ SaveNothing \/ SaveFails \/ NextIteration
    PROVE  TypeOK'
<1>0. iteration' \in {iteration, iteration + 1}
  BY DEF LoadFails, CheckInputs, PlanFails, CheckOutputs, SaveNothing,
         SaveFails, NextIteration, SaveUnchanged
<1>1. iteration' \in Nat BY <1>0, Numbers
<1>4. pc' \in Pcs
  BY DEF LoadFails, CheckInputs, PlanFails, CheckOutputs, SaveNothing,
         SaveFails, NextIteration, Pcs, Return, Fail
<1>2. err' \in {"none", "nil", "memory", "missing", "not a string",
                "unparsable", "plan", "no return", "tool", "not finished",
                "outputs"}
  BY DEF LoadFails, CheckInputs, PlanFails, CheckOutputs, SaveNothing,
         SaveFails, NextIteration, Return, Fail, TypeOK
<1>3. UNCHANGED <<opts, input, steps, todo, planned, output, returned, events,
                  history, calls>>
  BY DEF LoadFails, CheckInputs, PlanFails, CheckOutputs, SaveNothing,
         SaveFails, NextIteration, LoopUnchanged, SaveUnchanged
<1> QED BY <1>1, <1>2, <1>3, <1>4 DEF TypeOK

LEMMA BeginType == ASSUME TypeOK, Begin PROVE TypeOK'
<1>1. calls' \in 0..MaxCalls
  <2>1. calls < MaxCalls /\ calls' = calls + 1 BY DEF Begin
  <2>2. calls \in Nat /\ MaxCalls \in Nat BY Numbers, BoundsAssumption
  <2> QED BY <2>1, <2>2
<1>2. returned' \in [some : BOOLEAN, steps : Seq(Observation)]
  <2>1. returned' = NotReturned BY DEF Begin
  <2> QED BY <2>1 DEF NotReturned
<1>3. pc' \in Pcs /\ opts' \in Options BY DEF Begin, Pcs, TypeOK
<1>4. history' \in Seq(Messages) BY DEF Begin, TypeOK
<1>5. /\ iteration' \in Nat /\ planned' \in Nat
      /\ steps' \in Seq(Observation) /\ todo' \in Seq(Action)
      /\ events' \in Seq(Events)
  <2>1. /\ iteration' = 0 /\ planned' = 0 /\ steps' = <<>> /\ todo' = <<>>
        /\ events' = <<>>
    BY DEF Begin
  <2> QED BY <2>1
<1>6. /\ output' = "ok" /\ err' = "none"
      /\ input' \in {"ok", "missing", "not a string"}
  BY DEF Begin
<1> QED BY <1>1, <1>2, <1>3, <1>4, <1>5, <1>6, Zenon DEF TypeOK

\* The actions of the loop that change the plan or the steps.
LEMMA PlanUnparsableType == ASSUME TypeOK, PlanUnparsable PROVE TypeOK'
<1>1. CASE steps' = steps
  <2>0. iteration' \in {iteration, iteration + 1} /\ pc' \in {pc, "failed"}
    BY DEF PlanUnparsable, Fail
  <2>1. pc' \in Pcs BY <2>0, Numbers, Zenon DEF Pcs
  <2>9. iteration' \in Nat BY <2>0, Numbers
  <2>2. err' \in {err, "unparsable"} BY DEF PlanUnparsable, Fail
  <2> QED BY <1>1, <2>1, <2>2, <2>9 DEF PlanUnparsable, TypeOK, LoopUnchanged
<1>2. CASE steps' = Append(steps, [tool |-> 0, of |-> 0])
  <2>1. [tool |-> 0, of |-> 0] \in Observation
    BY NamesAssumption DEF Observation
  <2>2. steps' \in Seq(Observation) BY <1>2, <2>1, StepFacts
  <2>0. iteration' \in {iteration, iteration + 1} /\ pc' \in {pc, "failed"}
    BY DEF PlanUnparsable, Fail
  <2>3. pc' \in Pcs BY <2>0, Numbers, Zenon DEF Pcs
  <2>9. iteration' \in Nat BY <2>0, Numbers
  <2>4. err' \in {err, "unparsable"} BY DEF PlanUnparsable, Fail
  <2>5. UNCHANGED <<opts, input, returned, history, calls, todo, planned,
                    output, events>>
    BY DEF PlanUnparsable, LoopUnchanged
  <2> QED BY <2>2, <2>3, <2>4, <2>5, <2>9 DEF TypeOK
<1> QED BY <1>1, <1>2 DEF PlanUnparsable

LEMMA PlanActionsType == ASSUME TypeOK, PlanActions PROVE TypeOK'
<1>1. PICK n \in Nat \ {0} : todo' \in Seq(Action) /\ planned' = planned + n
  BY PlanFacts
<1>3. planned' \in Nat BY <1>1, Numbers
<1>2. pc' \in Pcs BY DEF PlanActions, Pcs
<1> QED BY <1>1, <1>2, <1>3 DEF PlanActions, TypeOK, LoopUnchanged

LEMMA AnnounceType == ASSUME TypeOK, Announce PROVE TypeOK'
<1>1. [kind |-> "AgentAction", action |-> todo[1].id] \in Events
  BY FirstAction DEF Announce, Events
<1>2. events' \in Seq(Events) BY <1>1, TellFacts DEF Announce
<1>3. pc' \in Pcs BY DEF Announce, Pcs
<1> QED BY <1>2, <1>3 DEF Announce, TypeOK, LoopUnchanged

\* A tool runs only for an action of the plan: todo is not empty.
LEMMA ObserveType == ASSUME TypeOK, Observe, todo # <<>> PROVE TypeOK'
<1>1. PICK k \in 0..Len(ToolList) :
         steps' = Append(steps, [tool |-> k, of |-> todo[1].id])
  BY DEF Observe
<1>2. [tool |-> k, of |-> todo[1].id] \in Observation
  <2>1. todo[1].id \in Nat BY FirstAction
  <2> QED BY <2>1 DEF Observation
<1>3. steps' \in Seq(Observation) BY <1>1, <1>2, StepFacts
<1>4. todo' \in Seq(Action) BY FirstAction DEF Observe
<1>5. pc' \in Pcs BY DEF Observe, Pcs
<1> QED BY <1>3, <1>4, <1>5 DEF Observe, TypeOK, LoopUnchanged

LEMMA ToolFailsType == ASSUME TypeOK, ToolFails PROVE TypeOK'
<1>1. pc' \in Pcs /\ steps' \in Seq(Observation) BY DEF ToolFails, Pcs, Fail
<1> QED BY <1>1 DEF ToolFails, TypeOK, LoopUnchanged, Fail

LEMMA SaveType == ASSUME TypeOK, calls > 0, SaveUser \/ SaveAnswer PROVE TypeOK'
<1>1. PICK m \in {"human", "ai"} :
         history' = Append(history, [call |-> calls, from |-> m])
  BY DEF SaveUser, SaveAnswer
<1>2. [call |-> calls, from |-> m] \in Messages
  <2>1. calls \in 1..MaxCalls BY BoundsAssumption, Numbers
  <2> QED BY <2>1 DEF Messages
<1>3. history' \in Seq(Messages) BY <1>1, <1>2, AppendFacts DEF TypeOK
<1>4. pc' \in Pcs BY DEF SaveUser, SaveAnswer, Pcs, Return
<1>5. err' \in {err, "nil"} BY DEF SaveUser, SaveAnswer, Return
<1>6. UNCHANGED <<opts, input, iteration, steps, todo, planned, output,
                  returned, events, calls>>
  BY DEF SaveUser, SaveAnswer, SaveUnchanged
<1> QED BY <1>3, <1>4, <1>5, <1>6 DEF TypeOK

\* Where the call is: a step of a call needs one begun, a tool runs for an
\* action of the plan, and the next plan is asked for when this one is done.
PlaceInv ==
    /\ pc # "idle" => calls > 0
    /\ pc = "tool" => todo # <<>>
    /\ pc = "loop" => todo = <<>>
    /\ pc \in {"load", "inputs"} => todo = <<>> /\ planned = 0

LEMMA TypeStep == ASSUME TypeOK, PlaceInv, [Next]_vars PROVE TypeOK'
<1>1. CASE Begin BY <1>1, BeginType
<1>2. CASE Start \/ TellError \/ TellEnd \/ PlanFinish \/ NotFinished
  BY <1>2, TellType
<1>3. CASE LoadFails \/ CheckInputs \/ PlanFails \/ CheckOutputs
             \/ SaveNothing \/ SaveFails \/ NextIteration
  BY <1>3, QuietType
<1>4. CASE PlanUnparsable BY <1>4, PlanUnparsableType
<1>5. CASE PlanActions BY <1>5, PlanActionsType
<1>6. CASE Announce BY <1>6, AnnounceType
<1>7. CASE Observe
  <2>1. todo # <<>> BY <1>7 DEF Observe, PlaceInv
  <2> QED BY <1>7, <2>1, ObserveType
<1>8. CASE ToolFails BY <1>8, ToolFailsType
<1>9. CASE SaveUser \/ SaveAnswer
  <2>1. calls > 0 BY <1>9 DEF SaveUser, SaveAnswer, PlaceInv
  <2> QED BY <1>9, <2>1, SaveType
<1>10. CASE UNCHANGED vars BY <1>10 DEF TypeOK, vars
<1> QED BY <1>1, <1>2, <1>3, <1>4, <1>5, <1>6, <1>7, <1>8, <1>9, <1>10
        DEF Next, CallStep, Idle

LEMMA PlaceStep == ASSUME TypeOK, PlaceInv, [Next]_vars PROVE PlaceInv'
<1>0. calls \in Nat BY Numbers
<1>1. CASE Begin
  <2>1. pc' = "load" /\ calls' = calls + 1 /\ todo' = <<>> /\ planned' = 0
    BY <1>1 DEF Begin
  <2>2. calls' > 0 BY <2>1, <1>0
  <2> QED BY <2>1, <2>2 DEF PlaceInv
<1>2. CASE LoadFails \/ Start \/ CheckInputs \/ PlanUnparsable \/ PlanFails
             \/ PlanFinish \/ NotFinished \/ TellError \/ CheckOutputs
             \/ TellEnd \/ SaveNothing \/ SaveUser \/ SaveAnswer \/ SaveFails
             \/ NextIteration \/ UNCHANGED vars
  <2>1. calls' = calls /\ todo' = todo /\ planned' = planned
    BY <1>2 DEF LoadFails, Start, CheckInputs, PlanUnparsable, PlanFails,
       PlanFinish, NotFinished, TellError, CheckOutputs, TellEnd, SaveNothing,
       SaveUser, SaveAnswer, SaveFails, NextIteration, LoopUnchanged,
       SaveUnchanged, vars
  <2>2. \/ pc' = pc
        \/ pc' \notin {"tool", "loop", "load", "inputs"}
             /\ (pc' # "idle" => pc # "idle")
        \/ pc' = "inputs" /\ pc = "load"
        \/ pc' = "loop" /\ pc = "inputs"
        \/ pc' = "loop" /\ pc = "act" /\ todo = <<>>
    BY <1>2 DEF LoadFails, Start, CheckInputs, PlanUnparsable, PlanFails,
       PlanFinish, NotFinished, TellError, CheckOutputs, TellEnd, SaveNothing,
       SaveUser, SaveAnswer, SaveFails, NextIteration, Planning, Return, Fail,
       vars
  <2> QED BY <2>1, <2>2 DEF PlaceInv
<1>3. CASE PlanActions \/ Observe \/ ToolFails
  <2>1. pc' \in {"act", "failed"} /\ pc # "idle" /\ calls' = calls
    BY <1>3 DEF PlanActions, Observe, ToolFails, Planning, Fail, LoopUnchanged
  <2> QED BY <2>1 DEF PlaceInv
<1>4. CASE Announce
  <2>1. pc' = "tool" /\ pc = "act" /\ todo # <<>> /\ todo' = todo
        /\ calls' = calls
    BY <1>4 DEF Announce, LoopUnchanged
  <2> QED BY <2>1 DEF PlaceInv
<1> QED BY <1>1, <1>2, <1>3, <1>4 DEF Next, CallStep, Idle

------------------------------------------------------------------------------
\* The bracket the handler sees.

Loop == {"loop", "act", "tool"}

\* What the handler saw last, by the step the call is at; and the error in hand.
BracketInv ==
    /\ pc = "load" => events = <<>>
    /\ pc \in {"inputs"} \cup Loop => Protocol!Acting(events)
    /\ pc \in {"outputs", "end"} => Protocol!Finished(events)
    /\ pc = "failed" => Protocol!Acting(events) \/ Protocol!Finished(events)
    /\ pc \in {"save", "save answer"} => Protocol!Ended(events)
    /\ err = "nil" => pc = "idle"
    /\ pc \in {"idle", "failed"} => err # "none"

\* The last event told, in the words of HandlerProtocol.
LEMMA LastTold ==
    ASSUME TypeOK, NEW e \in Events, Tell(e)
    PROVE  /\ e.kind \in {"ChainStart", "AgentAction"}
                => Protocol!Acting(events')
           /\ e.kind = "AgentFinish" => Protocol!Finished(events')
           /\ e.kind = "ChainEnd" => Protocol!Ended(events')
<1>1. events' # <<>> /\ events'[Len(events')] = e BY TellFacts
<1> QED BY <1>1 DEF Protocol!Acting, Protocol!Finished, Protocol!Ended

LEMMA BracketStep == ASSUME TypeOK, BracketInv, [Next]_vars PROVE BracketInv'
<1>1. CASE Begin BY <1>1 DEF Begin, BracketInv, Loop
<1>2. CASE LoadFails \/ CheckInputs \/ PlanUnparsable \/ PlanFails
             \/ PlanActions \/ Observe \/ ToolFails \/ NextIteration
             \/ CheckOutputs \/ SaveNothing \/ SaveUser \/ SaveAnswer
             \/ SaveFails \/ UNCHANGED vars
  <2>1. events' = events
    BY <1>2 DEF LoadFails, CheckInputs, PlanUnparsable, PlanFails,
       PlanActions, Observe, ToolFails, NextIteration, CheckOutputs,
       SaveNothing, SaveUser, SaveAnswer, SaveFails, SaveUnchanged, vars
  <2>2. \/ pc' = pc
        \/ pc \in {"inputs"} \cup Loop /\ pc' \in Loop \cup {"failed"}
        \/ pc = "outputs" /\ pc' \in {"end", "failed"}
        \/ pc = "save" /\ pc' = "save answer"
        \/ pc' = "idle"
    BY <1>2 DEF LoadFails, CheckInputs, PlanUnparsable, PlanFails,
       PlanActions, Observe, ToolFails, NextIteration, CheckOutputs,
       SaveNothing, SaveUser, SaveAnswer, SaveFails, vars, Loop,
       Planning, Return, Fail
  <2>0. input \in {"ok", "missing", "not a string"} BY DEF TypeOK
  <2>3. \/ err' = err /\ pc' \notin {"idle", "failed"} /\ pc # "idle"
        \/ err' = err /\ pc' = pc
        \/ err' \notin {"nil", "none"}
        \/ err' = "nil" /\ pc' = "idle"
    BY <1>2, <2>0 DEF LoadFails, CheckInputs, PlanUnparsable, PlanFails,
       PlanActions, Observe, ToolFails, NextIteration, CheckOutputs,
       SaveNothing, SaveUser, SaveAnswer, SaveFails, vars, LoopUnchanged,
       Planning, Return, Fail
  <2>4. /\ err' = "nil" => pc' = "idle"
        /\ pc' \in {"idle", "failed"} => err' # "none"
    BY <2>3 DEF BracketInv
  <2> QED BY <2>1, <2>2, <2>4 DEF BracketInv, Loop
<1>3. CASE Start
  <2>1. Protocol!Acting(events')
    BY <1>3, LastTold, EventType DEF Start, Event, Kinds
  <2>2. pc' = "inputs" /\ pc = "load" /\ err' = err BY <1>3 DEF Start
  <2> QED BY <2>1, <2>2 DEF BracketInv, Loop
<1>4. CASE Announce
  <2>1. [kind |-> "AgentAction", action |-> todo[1].id] \in Events
    BY <1>4, FirstAction DEF Announce, Events
  <2>2. Protocol!Acting(events') BY <1>4, <2>1, LastTold DEF Announce
  <2>3. pc' = "tool" /\ pc = "act" /\ err' = err BY <1>4 DEF Announce
  <2> QED BY <2>2, <2>3 DEF BracketInv, Loop
<1>5. CASE PlanFinish
  <2>1. Protocol!Finished(events')
    BY <1>5, LastTold, EventType DEF PlanFinish, Event, Kinds
  <2>2. pc' = "outputs" /\ pc = "loop" /\ err' = err
    BY <1>5 DEF PlanFinish, Planning
  <2> QED BY <2>1, <2>2 DEF BracketInv, Loop
<1>6. CASE NotFinished
  <2>1. Protocol!Finished(events')
    BY <1>6, LastTold, EventType DEF NotFinished, Event, Kinds
  <2>2. pc' = "failed" /\ err' = "not finished"
    BY <1>6 DEF NotFinished, Fail
  <2> QED BY <2>1, <2>2 DEF BracketInv, Loop
<1>7. CASE TellError
  <2>1. pc' = "idle" /\ err' = err /\ pc = "failed" BY <1>7 DEF TellError, Return
  <2> QED BY <2>1 DEF BracketInv, Loop
<1>8. CASE TellEnd
  <2>1. Protocol!Ended(events')
    BY <1>8, LastTold, EventType DEF TellEnd, Event, Kinds
  <2>2. pc' = "save" /\ pc = "end" /\ err' = err BY <1>8 DEF TellEnd
  <2> QED BY <2>1, <2>2 DEF BracketInv, Loop
<1> QED BY <1>1, <1>2, <1>3, <1>4, <1>5, <1>6, <1>7, <1>8
        DEF Next, CallStep, Idle

------------------------------------------------------------------------------
\* The numbering of the actions told.

\* The actions of this call that were answered.
Done == planned - Len(todo)

\* The actions told are numbered from 1 right after ChainStart, and those of
\* the plan not told yet go on from there.
NumberInv ==
    /\ \A i \in DOMAIN events :
          events[i].kind = "AgentAction" => i > 1 /\ events[i].action = i - 1
    /\ Done >= 0
    /\ \A k \in 1..Len(todo) : todo[k].id = Done + k
    /\ pc \in {"inputs", "loop", "act"} => Len(events) = Done + 1
    /\ pc = "tool" => Len(events) = Done + 2

LEMMA DoneType == ASSUME TypeOK PROVE Done \in Int /\ Len(todo) \in Nat
<1>1. todo \in Seq(Action) BY DEF TypeOK
<1> QED BY <1>1, Numbers DEF Done

\* Telling anything but an action leaves the actions told as they are.
LEMMA TellOther ==
    ASSUME TypeOK, NumberInv, NEW k \in Kinds, Tell(Event(k))
    PROVE  \A i \in DOMAIN events' :
              events'[i].kind = "AgentAction"
                 => /\ i \in DOMAIN events /\ events'[i] = events[i]
                    /\ i > 1 /\ events'[i].action = i - 1
<1>1. Event(k) \in Events /\ Event(k).kind # "AgentAction"
  BY EventType DEF Event, Kinds
<1>2. /\ DOMAIN events = 1..Len(events)
      /\ DOMAIN events' = 1..(Len(events) + 1)
      /\ events'[Len(events) + 1] = Event(k)
      /\ \A i \in 1..Len(events) : events'[i] = events[i]
  BY <1>1, TellFacts
<1>3. Len(events) \in Nat
  <2>1. events \in Seq(Events) BY DEF TypeOK
  <2> QED BY <2>1
<1> SUFFICES ASSUME NEW i \in DOMAIN events',
                    events'[i].kind = "AgentAction"
             PROVE  /\ i \in DOMAIN events /\ events'[i] = events[i]
                    /\ i > 1 /\ events'[i].action = i - 1
  OBVIOUS
<1>4. i # Len(events) + 1 BY <1>1, <1>2
<1>5. i \in 1..Len(events) BY <1>2, <1>3, <1>4
<1> QED BY <1>2, <1>5 DEF NumberInv

LEMMA NumberStep ==
    ASSUME TypeOK, PlaceInv, BracketInv, NumberInv, [Next]_vars
    PROVE  NumberInv'
<1>0. Done \in Int /\ Len(todo) \in Nat /\ planned \in Nat
  BY DoneType, Numbers
<1>1. CASE Begin
  <2>1. events' = <<>> /\ todo' = <<>> /\ planned' = 0 /\ pc' = "load"
    BY <1>1 DEF Begin
  <2> QED BY <2>1 DEF NumberInv, Done
<1>2. CASE LoadFails \/ CheckInputs \/ PlanUnparsable \/ PlanFails
             \/ ToolFails \/ NextIteration \/ CheckOutputs \/ SaveNothing
             \/ SaveUser \/ SaveAnswer \/ SaveFails \/ UNCHANGED vars
  <2>1. events' = events /\ todo' = todo /\ planned' = planned
    BY <1>2 DEF LoadFails, CheckInputs, PlanUnparsable, PlanFails, ToolFails,
       NextIteration, CheckOutputs, SaveNothing, SaveUser, SaveAnswer,
       SaveFails, LoopUnchanged, SaveUnchanged, vars
  <2>2. \/ pc' = pc
        \/ pc \in {"inputs", "act"} /\ pc' = "loop"
        \/ pc' \notin {"inputs", "loop", "act", "tool"}
    BY <1>2 DEF LoadFails, CheckInputs, PlanUnparsable, PlanFails, ToolFails,
       NextIteration, CheckOutputs, SaveNothing, SaveUser, SaveAnswer,
       SaveFails, Return, Fail, vars
  <2> QED BY <2>1, <2>2 DEF NumberInv, Done
<1>3. CASE Start \/ PlanFinish \/ NotFinished \/ TellError \/ TellEnd
  <2>1. PICK k \in Kinds : Tell(Event(k))
    BY <1>3 DEF Start, TellError, TellEnd, PlanFinish, NotFinished, Kinds
  <2>2. \A i \in DOMAIN events' :
           events'[i].kind = "AgentAction" => i > 1 /\ events'[i].action = i - 1
    BY <2>1, TellOther
  <2>3. todo' = todo /\ planned' = planned /\ pc' # "tool"
    BY <1>3 DEF Start, TellError, TellEnd, PlanFinish, NotFinished, Return, Fail
  <2>4. pc' \in {"inputs", "loop", "act"} => Len(events') = Done + 1
    <3>1. CASE Start
      <4>1. events = <<>> /\ todo = <<>> /\ planned = 0
        BY <3>1 DEF Start, BracketInv, PlaceInv
      <4>2. Len(events') = Len(events) + 1 BY <2>1, TellFacts, EventType
      <4> QED BY <4>1, <4>2 DEF Done
    <3>2. CASE PlanFinish \/ NotFinished \/ TellError \/ TellEnd
      BY <3>2 DEF PlanFinish, NotFinished, TellError, TellEnd, Return, Fail
    <3> QED BY <1>3, <3>1, <3>2
  <2> QED BY <2>2, <2>3, <2>4 DEF NumberInv, Done
<1>4. CASE PlanActions
  <2>1. PICK n \in Nat \ {0} :
           /\ Len(todo') = n /\ planned' = planned + n
           /\ \A k \in 1..n : todo'[k].id = planned + k
    BY <1>4, PlanFacts
  <2>2. events' = events /\ pc' = "act" /\ pc = "loop" /\ todo = <<>>
    BY <1>4 DEF PlanActions, LoopUnchanged, Planning, PlaceInv
  <2>3. Done = planned /\ Done' = planned BY <1>0, <2>1, <2>2 DEF Done
  <2>4. Len(events) = planned + 1 BY <2>2, <2>3 DEF NumberInv
  <2> QED BY <1>0, <2>1, <2>2, <2>3, <2>4 DEF NumberInv
<1>5. CASE Announce
  <2> DEFINE e == [kind |-> "AgentAction", action |-> todo[1].id]
  <2>1. e \in Events BY <1>5, FirstAction DEF Announce, Events
  <2>2. Tell(e) /\ pc = "act" /\ pc' = "tool" /\ todo # <<>>
        /\ todo' = todo /\ planned' = planned
    BY <1>5 DEF Announce, LoopUnchanged
  <2>3. /\ Len(events') = Len(events) + 1
        /\ DOMAIN events = 1..Len(events)
        /\ DOMAIN events' = 1..(Len(events) + 1)
        /\ events'[Len(events) + 1] = e
        /\ \A i \in 1..Len(events) : events'[i] = events[i]
    BY <2>1, <2>2, TellFacts
  <2>4. Len(events) = Done + 1 BY <2>2 DEF NumberInv
  <2>5. todo[1].id = Done + 1
    <3>1. 1 \in 1..Len(todo) BY <2>2, FirstAction
    <3> QED BY <3>1 DEF NumberInv
  <2>6. ASSUME NEW i \in DOMAIN events', events'[i].kind = "AgentAction"
        PROVE  i > 1 /\ events'[i].action = i - 1
    <3>1. CASE i = Len(events) + 1
      <4>1. Done >= 0 BY DEF NumberInv
      <4>2. events'[i].action = Done + 1 BY <2>3, <2>5, <3>1
      <4> QED BY <1>0, <2>4, <3>1, <4>1, <4>2
    <3>2. CASE i # Len(events) + 1
      <4>1. i \in 1..Len(events) BY <1>0, <2>3, <2>4, <3>2
      <4> QED BY <2>3, <2>6, <4>1 DEF NumberInv
    <3> QED BY <3>1, <3>2
  <2>7. Done' = Done BY <2>2 DEF Done
  <2>8. Len(events') = Done + 2 BY <1>0, <2>3, <2>4
  <2> QED BY <2>2, <2>6, <2>7, <2>8 DEF NumberInv
<1>6. CASE Observe
  <2>1. pc = "tool" /\ pc' = "act" /\ todo # <<>> /\ events' = events
        /\ todo' = Tail(todo) /\ planned' = planned
    BY <1>6 DEF Observe, PlaceInv, LoopUnchanged
  <2>2. /\ Len(todo') = Len(todo) - 1 /\ Len(todo) >= 1
        /\ \A k \in 1..(Len(todo) - 1) : todo'[k] = todo[k + 1]
    BY <2>1, FirstAction
  <2>3. Done' = Done + 1 BY <1>0, <2>1, <2>2 DEF Done
  <2>4. Len(events) = Done + 2 /\ Done >= 0 BY <2>1 DEF NumberInv
  <2>5. ASSUME NEW k \in 1..Len(todo') PROVE todo'[k].id = Done + 1 + k
    <3>1. k + 1 \in 1..Len(todo) /\ k \in 1..(Len(todo) - 1)
      BY <1>0, <2>2
    <3>2. todo[k + 1].id = Done + (k + 1) BY <3>1 DEF NumberInv
    <3> QED BY <1>0, <2>2, <3>1, <3>2
  <2>6. Len(events') = Done' + 1 /\ Done' >= 0 BY <1>0, <2>1, <2>3, <2>4
  <2> QED BY <2>1, <2>3, <2>5, <2>6 DEF NumberInv
<1> QED BY <1>1, <1>2, <1>3, <1>4, <1>5, <1>6 DEF Next, CallStep, Idle

------------------------------------------------------------------------------
\* The steps the agent sees.

\* In the loop the steps answer the actions up to Done, in order, and none
\* after it; and there are as many as iterations done, counting a step for
\* every action still to do.
StepsInv ==
    /\ pc \in {"load", "inputs"} => steps = <<>> /\ iteration = 0
    /\ pc \in Loop => /\ \A n \in 1..Done : Answered(n)
                      /\ \A i \in DOMAIN steps : steps[i].of <= Done
                      /\ InOrder
    /\ pc = "loop" => Len(steps) >= iteration
    /\ pc \in {"act", "tool"} => Len(steps) + Len(todo) >= iteration + 1

LEMMA StepType ==
    ASSUME TypeOK
    PROVE  /\ Len(steps) \in Nat /\ DOMAIN steps = 1..Len(steps)
           /\ \A i \in DOMAIN steps : steps[i].of \in Nat
<1>1. steps \in Seq(Observation) BY DEF TypeOK
<1>2. Len(steps) \in Nat /\ DOMAIN steps = 1..Len(steps) BY <1>1
<1>3. ASSUME NEW i \in DOMAIN steps PROVE steps[i].of \in Nat
  <2>1. steps[i] \in Observation BY <1>1
  <2> QED BY <2>1 DEF Observation
<1> QED BY <1>2, <1>3

\* One more step, for no action or for the next one, keeps the order.
LEMMA AddStep ==
    ASSUME TypeOK, NEW d \in Nat, NEW o \in Observation,
           steps' = Append(steps, o), o.of = 0 \/ o.of = d + 1,
           InOrder, \A i \in DOMAIN steps : steps[i].of <= d
    PROVE  /\ InOrder'
           /\ \A n \in Nat : Answered(n) => \E i \in DOMAIN steps' : steps'[i].of = n
           /\ \E i \in DOMAIN steps' : steps'[i].of = o.of
           /\ \A i \in DOMAIN steps' :
                 steps'[i].of \in Nat
                   /\ (steps'[i].of <= d \/ steps'[i].of = o.of)
           /\ Len(steps') = Len(steps) + 1
<1>1. /\ Len(steps') = Len(steps) + 1
      /\ DOMAIN steps' = 1..(Len(steps) + 1)
      /\ steps'[Len(steps) + 1] = o
      /\ \A i \in 1..Len(steps) : steps'[i] = steps[i]
  BY StepFacts
<1>2. /\ Len(steps) \in Nat /\ DOMAIN steps = 1..Len(steps)
      /\ \A i \in DOMAIN steps : steps[i].of \in Nat
  BY StepType
<1>3. ASSUME NEW i \in DOMAIN steps', NEW j \in DOMAIN steps',
             i < j, steps'[j].of # 0
      PROVE  steps'[i].of < steps'[j].of
  <2>1. i \in 1..Len(steps) /\ steps'[i] = steps[i] BY <1>1, <1>2, <1>3
  <2>2. CASE j \in 1..Len(steps)
    <3>1. steps'[j] = steps[j] BY <1>1, <2>2
    <3> QED BY <1>2, <1>3, <2>1, <2>2, <3>1 DEF InOrder
  <2>3. CASE j = Len(steps) + 1
    <3>1. steps'[j] = o BY <1>1, <2>3
    <3>2. o.of = d + 1 BY <1>3, <3>1
    <3>3. steps[i].of <= d /\ steps[i].of \in Nat BY <1>2, <2>1
    <3> QED BY <2>1, <3>1, <3>2, <3>3
  <2> QED BY <1>1, <1>2, <2>2, <2>3
<1>4. InOrder' BY <1>3 DEF InOrder
<1>5. ASSUME NEW n \in Nat, Answered(n)
      PROVE  \E i \in DOMAIN steps' : steps'[i].of = n
  <2>1. PICK i \in DOMAIN steps : steps[i].of = n BY <1>5 DEF Answered
  <2>2. i \in DOMAIN steps' /\ steps'[i] = steps[i] BY <1>1, <1>2
  <2> QED BY <2>1, <2>2
<1>6. Len(steps) + 1 \in DOMAIN steps' BY <1>1, <1>2
<1>7. ASSUME NEW i \in DOMAIN steps'
      PROVE  /\ steps'[i].of \in Nat
             /\ steps'[i].of <= d \/ steps'[i].of = o.of
  <2>0. o.of \in Nat BY DEF Observation
  <2>1. CASE i \in 1..Len(steps) BY <1>1, <1>2, <2>1
  <2>2. CASE i = Len(steps) + 1 BY <1>1, <2>0, <2>2
  <2> QED BY <1>1, <1>2, <2>1, <2>2
<1> QED BY <1>1, <1>4, <1>5, <1>6, <1>7

LEMMA StepsStep ==
    ASSUME TypeOK, PlaceInv, NumberInv, StepsInv, [Next]_vars
    PROVE  StepsInv'
<1>0. /\ Done \in Int /\ Len(todo) \in Nat /\ planned \in Nat
      /\ Len(steps) \in Nat /\ iteration \in Nat /\ Done >= 0
  BY DoneType, StepType, Numbers DEF NumberInv
<1>1. CASE Begin
  <2>1. steps' = <<>> /\ iteration' = 0 /\ pc' = "load" BY <1>1 DEF Begin
  <2> QED BY <2>1 DEF StepsInv, Loop
<1>2. CASE LoadFails \/ Start \/ CheckInputs \/ PlanFails \/ PlanFinish
             \/ Announce \/ NotFinished \/ TellError \/ CheckOutputs \/ TellEnd
             \/ SaveNothing \/ SaveUser \/ SaveAnswer \/ SaveFails
             \/ UNCHANGED vars
  <2>1. UNCHANGED <<steps, todo, planned, iteration>>
    BY <1>2 DEF LoadFails, Start, CheckInputs, PlanFails, PlanFinish, Announce,
       NotFinished, TellError, CheckOutputs, TellEnd, SaveNothing, SaveUser,
       SaveAnswer, SaveFails, LoopUnchanged, SaveUnchanged, vars
  <2>2. \/ pc' = pc
        \/ pc = "load" /\ pc' = "inputs"
        \/ pc = "inputs" /\ pc' = "loop"
        \/ pc = "act" /\ pc' = "tool"
        \/ pc' \notin {"load", "inputs"} \cup Loop
    BY <1>2 DEF LoadFails, Start, CheckInputs, PlanFails, PlanFinish, Announce,
       NotFinished, TellError, CheckOutputs, TellEnd, SaveNothing, SaveUser,
       SaveAnswer, SaveFails, Return, Fail, Loop, vars
  <2>3. CASE pc = "inputs" /\ pc' = "loop"
    <3>1. steps = <<>> /\ iteration = 0 /\ todo = <<>> /\ planned = 0
      BY <2>3 DEF StepsInv, PlaceInv
    <3>2. Done' = 0 /\ steps' = <<>> /\ iteration' = 0
      <4>1. planned' = 0 /\ todo' = <<>> /\ steps' = <<>> /\ iteration' = 0
        BY <2>1, <3>1
      <4>2. planned' = 0 /\ Len(todo') = 0 BY <4>1
      <4>3. Done' = 0 BY <4>2 DEF Done
      <4> QED BY <4>1, <4>3
    <3> QED BY <2>3, <3>2 DEF StepsInv, InOrder, Loop
  <2>4. CASE ~(pc = "inputs" /\ pc' = "loop")
    BY <2>1, <2>2, <2>4 DEF StepsInv, Loop, Done, Answered, InOrder
  <2> QED BY <2>3, <2>4
<1>3. CASE PlanUnparsable
  <2>1. CASE pc' = "failed" BY <2>1 DEF StepsInv, Loop
  <2>2. CASE /\ steps' = Append(steps, [tool |-> 0, of |-> 0])
             /\ iteration' = iteration + 1 /\ pc' = pc
    <3>1. pc = "loop" /\ todo' = todo /\ planned' = planned
      BY <1>3 DEF PlanUnparsable, Planning
    <3>2. [tool |-> 0, of |-> 0] \in Observation
      BY NamesAssumption DEF Observation
    <3>3. InOrder /\ \A i \in DOMAIN steps : steps[i].of <= Done
      BY <3>1 DEF StepsInv, Loop
    <3>4. /\ InOrder' /\ Len(steps') = Len(steps) + 1
          /\ \A n \in Nat : Answered(n) => \E i \in DOMAIN steps' : steps'[i].of = n
          /\ \A i \in DOMAIN steps' :
                steps'[i].of \in Nat
                  /\ (steps'[i].of <= Done \/ steps'[i].of = 0)
      <4> DEFINE o == [tool |-> 0, of |-> 0]
      <4>1. Done \in Nat BY <1>0
      <4>2. steps' = Append(steps, o) /\ o \in Observation /\ o.of = 0
        BY <2>2, <3>2
      <4> HIDE DEF o
      <4>3. /\ InOrder' /\ Len(steps') = Len(steps) + 1
            /\ \A n \in Nat : Answered(n) => \E i \in DOMAIN steps' : steps'[i].of = n
            /\ \A i \in DOMAIN steps' :
                  steps'[i].of \in Nat
                    /\ (steps'[i].of <= Done \/ steps'[i].of = o.of)
        BY <3>3, <4>1, <4>2, AddStep, Zenon
      <4> QED BY <4>2, <4>3
    <3>5. Done' = Done BY <3>1 DEF Done
    <3>6. ASSUME NEW n \in 1..Done' PROVE Answered(n)'
      <4>1. n \in Nat /\ n \in 1..Done BY <1>0, <3>5
      <4>2. Answered(n) BY <3>1, <4>1 DEF StepsInv, Loop
      <4> QED BY <3>4, <4>1, <4>2 DEF Answered
    <3>7. \A i \in DOMAIN steps' : steps'[i].of <= Done' BY <1>0, <3>4, <3>5
    <3>8. Len(steps') >= iteration'
      BY <1>0, <2>2, <3>1, <3>4 DEF StepsInv
    <3> QED BY <2>2, <3>1, <3>4, <3>6, <3>7, <3>8 DEF StepsInv
  <2> QED BY <1>3, <2>1, <2>2 DEF PlanUnparsable, Fail
<1>4. CASE PlanActions
  <2>1. PICK n \in Nat \ {0} : Len(todo') = n /\ planned' = planned + n
    BY <1>4, PlanFacts
  <2>2. pc' = "act" /\ pc = "loop" /\ todo = <<>> /\ steps' = steps
        /\ iteration' = iteration
    BY <1>4 DEF PlanActions, Planning, PlaceInv
  <2>3. Done' = Done BY <1>0, <2>1, <2>2 DEF Done
  <2>4. Len(steps') + Len(todo') >= iteration' + 1
    BY <1>0, <2>1, <2>2 DEF StepsInv
  <2> QED BY <2>2, <2>3, <2>4 DEF StepsInv, Loop, Answered, InOrder
<1>5. CASE Observe
  <2>1. pc = "tool" /\ pc' = "act" /\ todo # <<>> /\ iteration' = iteration
        /\ todo' = Tail(todo) /\ planned' = planned
    BY <1>5 DEF Observe, PlaceInv
  <2>2. PICK k \in 0..Len(ToolList) :
           steps' = Append(steps, [tool |-> k, of |-> todo[1].id])
    BY <1>5 DEF Observe
  <2> DEFINE o == [tool |-> k, of |-> todo[1].id]
  <2>3. /\ Len(todo) >= 1 /\ Len(todo') = Len(todo) - 1
        /\ todo[1].id \in Nat
    BY <2>1, FirstAction
  <2>4. o \in Observation BY <2>3 DEF Observation
  <2>5. o.of = Done + 1
    <3>1. 1 \in 1..Len(todo) BY <1>0, <2>3
    <3> QED BY <3>1 DEF NumberInv
  <2>6. InOrder /\ \A i \in DOMAIN steps : steps[i].of <= Done
    BY <2>1 DEF StepsInv, Loop
  <2>7. /\ InOrder' /\ Len(steps') = Len(steps) + 1
        /\ \A n \in Nat : Answered(n) => \E i \in DOMAIN steps' : steps'[i].of = n
        /\ \E i \in DOMAIN steps' : steps'[i].of = Done + 1
        /\ \A i \in DOMAIN steps' :
              steps'[i].of \in Nat
                /\ (steps'[i].of <= Done \/ steps'[i].of = Done + 1)
    <3> HIDE DEF o
    <3>1. Done \in Nat BY <1>0
    <3>2. steps' = Append(steps, o) BY <2>2 DEF o
    <3>3. /\ InOrder' /\ Len(steps') = Len(steps) + 1
          /\ \A n \in Nat : Answered(n) => \E i \in DOMAIN steps' : steps'[i].of = n
          /\ \E i \in DOMAIN steps' : steps'[i].of = o.of
          /\ \A i \in DOMAIN steps' :
                steps'[i].of \in Nat
                  /\ (steps'[i].of <= Done \/ steps'[i].of = o.of)
      BY <2>4, <2>5, <2>6, <3>1, <3>2, AddStep, Zenon
    <3> QED BY <2>5, <3>3
  <2>8. Done' = Done + 1 BY <1>0, <2>1, <2>3 DEF Done
  <2>9. ASSUME NEW n \in 1..Done' PROVE Answered(n)'
    <3>1. CASE n = Done + 1 BY <2>7, <3>1 DEF Answered
    <3>2. CASE n # Done + 1
      <4>1. n \in 1..Done BY <1>0, <2>8, <3>2
      <4>2. Answered(n) BY <2>1, <4>1 DEF StepsInv, Loop
      <4> QED BY <2>7, <4>1, <4>2 DEF Answered
    <3> QED BY <3>1, <3>2
  <2>10. \A i \in DOMAIN steps' : steps'[i].of <= Done' BY <1>0, <2>7, <2>8
  <2>11. Len(steps') + Len(todo') >= iteration' + 1
    <3>1. Len(steps) + Len(todo) >= iteration + 1 BY <2>1 DEF StepsInv
    <3> QED BY <1>0, <2>1, <2>3, <2>7, <3>1
  <2> QED BY <2>1, <2>7, <2>9, <2>10, <2>11 DEF StepsInv, Loop
<1>6. CASE ToolFails
  <2>1. pc' = "failed" BY <1>6 DEF ToolFails, Fail
  <2> QED BY <2>1 DEF StepsInv, Loop
<1>7. CASE NextIteration
  <2>1. pc = "act" /\ pc' = "loop" /\ todo = <<>> /\ iteration' = iteration + 1
        /\ steps' = steps /\ todo' = todo /\ planned' = planned
    BY <1>7 DEF NextIteration
  <2>2. Len(steps) + Len(todo) >= iteration + 1 BY <2>1 DEF StepsInv
  <2>3. Len(todo) = 0 BY <2>1
  <2>4. Len(steps') >= iteration' BY <1>0, <2>1, <2>2, <2>3
  <2> QED BY <2>1, <2>4 DEF StepsInv, Loop, Done, Answered, InOrder
<1> QED BY <1>1, <1>2, <1>3, <1>4, <1>5, <1>6, <1>7 DEF Next, CallStep, Idle

\* When the agent is asked to plan, every action told has been answered.
LEMMA AllAnswered ==
    ASSUME TypeOK, NumberInv, StepsInv, pc = "loop"
    PROVE  \A i \in DOMAIN events :
              events[i].kind = "AgentAction" => Answered(events[i].action)
<1> SUFFICES ASSUME NEW i \in DOMAIN events, events[i].kind = "AgentAction"
             PROVE  Answered(events[i].action)
  OBVIOUS
<1>1. i > 1 /\ events[i].action = i - 1 BY DEF NumberInv
<1>2. i \in 1..Len(events)
  <2>1. events \in Seq(Events) BY DEF TypeOK
  <2> QED BY <2>1
<1>3. Len(events) = Done + 1 /\ Done \in Int BY DoneType DEF NumberInv
<1>4. i - 1 \in 1..Done BY <1>1, <1>2, <1>3
<1> QED BY <1>1, <1>4 DEF StepsInv, Loop

\* The steps returned answer every action told.
ReturnedInv ==
    returned.some =>
        /\ pc \notin {"load", "inputs"} \cup Loop
        /\ \A i \in DOMAIN events : events[i].kind = "AgentAction" =>
              \E j \in DOMAIN returned.steps : returned.steps[j].of = events[i].action

LEMMA ReturnedStep ==
    ASSUME TypeOK, NumberInv, StepsInv, ReturnedInv, [Next]_vars
    PROVE  ReturnedInv'
<1>1. CASE Begin
  <2>1. returned' = NotReturned BY <1>1 DEF Begin
  <2> QED BY <2>1 DEF ReturnedInv, NotReturned
<1>2. CASE PlanFinish \/ NotFinished
  <2>1. pc = "loop" /\ pc' \in {"outputs", "failed"} /\ Tell(Event("AgentFinish"))
    BY <1>2 DEF PlanFinish, NotFinished, Planning, Fail
  <2>2. CASE returned' = NotReturned BY <2>2 DEF ReturnedInv, NotReturned
  <2>3. CASE returned' = [some |-> TRUE, steps |-> steps]
    <3>1. returned'.steps = steps BY <2>3
    <3>2. ASSUME NEW i \in DOMAIN events', events'[i].kind = "AgentAction"
          PROVE  \E j \in DOMAIN steps : steps[j].of = events'[i].action
      <4>1. "AgentFinish" \in Kinds BY DEF Kinds
      <4>2. i \in DOMAIN events /\ events'[i] = events[i]
        BY <2>1, <3>2, <4>1, TellOther
      <4> QED BY <2>1, <3>2, <4>2, AllAnswered DEF Answered
    <3> QED BY <2>1, <3>1, <3>2 DEF ReturnedInv, Loop
  <2> QED BY <1>2, <2>2, <2>3 DEF PlanFinish, NotFinished
<1>3. CASE Start \/ TellError \/ TellEnd
  <2>1. PICK k \in Kinds : Tell(Event(k))
    BY <1>3 DEF Start, TellError, TellEnd, Kinds
  <2>2. returned' = returned BY <1>3 DEF Start, TellError, TellEnd
  <2>3. \/ pc = "load" \/ pc' \in {"idle", "save"}
    BY <1>3 DEF Start, TellError, TellEnd, Return
  <2>4. \A i \in DOMAIN events' : events'[i].kind = "AgentAction"
           => i \in DOMAIN events /\ events'[i] = events[i]
    BY <2>1, TellOther
  <2> QED BY <2>2, <2>3, <2>4 DEF ReturnedInv, Loop
<1>4. CASE Announce
  <2>1. pc = "act" /\ returned' = returned
    BY <1>4 DEF Announce, LoopUnchanged
  <2> QED BY <2>1 DEF ReturnedInv, Loop
<1>5. CASE LoadFails \/ CheckInputs \/ PlanUnparsable \/ PlanFails
             \/ PlanActions \/ Observe \/ ToolFails \/ NextIteration
             \/ CheckOutputs \/ SaveNothing \/ SaveUser \/ SaveAnswer
             \/ SaveFails \/ UNCHANGED vars
  <2>1. events' = events /\ returned' = returned
    BY <1>5 DEF LoadFails, CheckInputs, PlanUnparsable, PlanFails,
       PlanActions, Observe, ToolFails, NextIteration, CheckOutputs,
       SaveNothing, SaveUser, SaveAnswer, SaveFails, LoopUnchanged,
       SaveUnchanged, vars
  <2>2. \/ pc' = pc \/ pc \in {"inputs"} \cup Loop
        \/ pc' \notin {"load", "inputs"} \cup Loop
    BY <1>5 DEF LoadFails, CheckInputs, PlanUnparsable, PlanFails,
       PlanActions, Observe, ToolFails, NextIteration, CheckOutputs,
       SaveNothing, SaveUser, SaveAnswer, SaveFails, vars, Loop,
       Planning, Return, Fail
  <2> QED BY <2>1, <2>2 DEF ReturnedInv, Loop
<1> QED BY <1>1, <1>2, <1>3, <1>4, <1>5 DEF Next, CallStep, Idle

------------------------------------------------------------------------------
\* The memory.

\* The messages of the call under way: none before its ChainEnd, its question
\* while the answer is being saved, and never its answer before it returns.
MemoryInv ==
    /\ \A i \in DOMAIN history : history[i].call <= calls
    /\ \A i \in DOMAIN history : history[i].from = "ai" =>
          i > 1 /\ history[i-1] = [call |-> history[i].call, from |-> "human"]
    /\ pc # "idle" => ~Remembered(calls)
    /\ \A i \in DOMAIN history : history[i].call = calls =>
          /\ pc \in {"save answer", "idle"}
          /\ \E j \in DOMAIN events : events[j].kind = "ChainEnd"
    /\ pc = "save answer" =>
          /\ opts.memory = "buffer" /\ history # <<>>
          /\ history[Len(history)] = [call |-> calls, from |-> "human"]
    /\ pc = "idle" /\ calls > 0 /\ opts.memory = "buffer" =>
          (Remembered(calls) <=> err = "nil")

\* Saving a message of the call.
LEMMA SaveFacts ==
    ASSUME TypeOK, NEW m \in {"human", "ai"}, calls > 0,
           history' = Append(history, [call |-> calls, from |-> m])
    PROVE  /\ history' # <<>> /\ DOMAIN history = 1..Len(history)
           /\ Len(history) \in Nat /\ Len(history') = Len(history) + 1
           /\ DOMAIN history' = 1..(Len(history) + 1)
           /\ history'[Len(history) + 1] = [call |-> calls, from |-> m]
           /\ \A i \in 1..Len(history) : history'[i] = history[i]
<1>1. calls \in 1..MaxCalls BY BoundsAssumption, Numbers
<1>2. [call |-> calls, from |-> m] \in Messages BY <1>1 DEF Messages
<1>3. history \in Seq(Messages) BY DEF TypeOK
<1>4. Len(history) \in Nat /\ DOMAIN history = 1..Len(history) BY <1>3
<1> QED BY <1>2, <1>3, <1>4, AppendFacts

LEMMA HistoryType ==
    ASSUME TypeOK
    PROVE  /\ DOMAIN history = 1..Len(history) /\ Len(history) \in Nat
           /\ \A i \in DOMAIN history : history[i].call \in Nat
<1>1. history \in Seq(Messages) BY DEF TypeOK
<1>2. DOMAIN history = 1..Len(history) /\ Len(history) \in Nat BY <1>1
<1>3. ASSUME NEW i \in DOMAIN history PROVE history[i].call \in Nat
  <2>1. history[i] \in Messages BY <1>1
  <2> QED BY <2>1, BoundsAssumption DEF Messages
<1> QED BY <1>2, <1>3

LEMMA MemoryStep ==
    ASSUME TypeOK, PlaceInv, BracketInv, MemoryInv, [Next]_vars
    PROVE  MemoryInv'
<1>0. /\ calls \in Nat
      /\ DOMAIN history = 1..Len(history) /\ Len(history) \in Nat
      /\ \A i \in DOMAIN history : history[i].call \in Nat
  BY Numbers, HistoryType
<1>00. \A i \in DOMAIN history : history[i].call <= calls BY Zenon DEF MemoryInv
<1>1. CASE Begin
  <2>1. history' = history /\ calls' = calls + 1 /\ pc' = "load"
    BY <1>1 DEF Begin
  <2>2. \A i \in DOMAIN history : history[i].call < calls'
    BY <1>0, <1>00, <2>1
  <2>3. \A i \in DOMAIN history : history[i].call <= calls' /\ history[i].call # calls'
    BY <1>0, <2>1, <2>2
  <2>4. ~Remembered(calls)'
    <3> SUFFICES ASSUME NEW i \in DOMAIN history,
                        history[i] = [call |-> calls', from |-> "ai"]
                 PROVE  FALSE
      BY <2>1 DEF Remembered
    <3>1. history[i].call = calls' OBVIOUS
    <3> QED BY <2>3, <3>1
  <2> QED BY <2>1, <2>3, <2>4 DEF MemoryInv
\* The call moves on, and nothing is saved.
<1>2. CASE Start \/ CheckInputs \/ PlanUnparsable \/ PlanFails \/ PlanFinish
             \/ PlanActions \/ Announce \/ Observe \/ ToolFails
             \/ NextIteration \/ NotFinished \/ CheckOutputs \/ TellEnd
  <2>1. UNCHANGED <<history, calls, opts>>
    BY <1>2 DEF Start, CheckInputs, PlanUnparsable, PlanFails, PlanFinish,
       PlanActions, Announce, Observe, ToolFails, NextIteration, NotFinished,
       CheckOutputs, TellEnd, LoopUnchanged
  <2>2. pc \notin {"idle", "save answer"} /\ pc' \notin {"idle", "save answer"}
    BY <1>2 DEF Start, CheckInputs, PlanUnparsable, PlanFails, PlanFinish,
       PlanActions, Announce, Observe, ToolFails, NextIteration, NotFinished,
       CheckOutputs, TellEnd, Planning, Fail
  <2>3. \A i \in DOMAIN history : history[i].call # calls
    BY <2>2 DEF MemoryInv
  <2>4. ~Remembered(calls)' BY <2>1, <2>2 DEF MemoryInv, Remembered
  <2> QED BY <2>1, <2>2, <2>3, <2>4 DEF MemoryInv
\* The call returns, and nothing is saved.
<1>3. CASE LoadFails \/ TellError \/ SaveNothing \/ SaveFails
  <2>1. UNCHANGED <<history, calls, opts>> /\ pc' = "idle" /\ pc # "idle"
    BY <1>3 DEF LoadFails, TellError, SaveNothing, SaveFails, SaveUnchanged,
       Return
  <2>2. ~Remembered(calls)' BY <2>1 DEF MemoryInv, Remembered
  <2>3. err' # "nil" \/ opts.memory = "simple"
    <3>1. CASE TellError
      <4>1. err' = err /\ pc = "failed" BY <3>1 DEF TellError, Return
      <4> QED BY <4>1 DEF BracketInv
    <3>2. CASE LoadFails \/ SaveNothing \/ SaveFails
      BY <3>2 DEF LoadFails, SaveNothing, SaveFails, Return
    <3> QED BY <1>3, <3>1, <3>2
  <2>4. \/ events' = events
        \/ pc \notin {"save answer", "idle"}
    BY <1>3 DEF LoadFails, TellError, SaveNothing, SaveFails, SaveUnchanged
  <2> QED BY <2>1, <2>2, <2>3, <2>4 DEF MemoryInv
<1>4. CASE SaveUser
  <2> DEFINE n == Len(history) + 1
  <2>1. /\ pc = "save" /\ pc' = "save answer" /\ opts.memory = "buffer"
        /\ UNCHANGED <<calls, opts, events>> /\ err' = err
        /\ history' = Append(history, [call |-> calls, from |-> "human"])
    BY <1>4 DEF SaveUser, SaveUnchanged
  <2>2. calls > 0 BY <2>1 DEF PlaceInv
  <2>3. /\ history' # <<>> /\ Len(history') = n /\ DOMAIN history' = 1..n
        /\ history'[n] = [call |-> calls, from |-> "human"]
        /\ \A i \in 1..Len(history) : history'[i] = history[i]
    BY <2>1, <2>2, SaveFacts
  <2>4. \A i \in DOMAIN history' : i = n \/ i \in DOMAIN history BY <1>0, <2>3
  <2>5. history'[n].call = calls /\ history'[n].from = "human" BY <2>3
  <2>6. \A i \in DOMAIN history' : history'[i].call <= calls
    BY <1>0, <1>00, <2>3, <2>4, <2>5
  <2>7. ASSUME NEW i \in DOMAIN history', history'[i].from = "ai"
        PROVE  i > 1 /\ history'[i-1] = [call |-> history'[i].call, from |-> "human"]
    <3>1. i \in 1..Len(history) /\ history'[i] = history[i]
      BY <1>0, <2>3, <2>4, <2>5, <2>7
    <3>2. i > 1 /\ history[i-1] = [call |-> history[i].call, from |-> "human"]
      BY <1>0, <2>7, <3>1 DEF MemoryInv
    <3>3. i - 1 \in 1..Len(history) BY <1>0, <3>1, <3>2
    <3> QED BY <2>3, <3>1, <3>2, <3>3
  <2>8. ~Remembered(calls)'
    <3> SUFFICES ASSUME NEW i \in DOMAIN history',
                        history'[i] = [call |-> calls, from |-> "ai"]
                 PROVE  FALSE
      BY <2>1 DEF Remembered
    <3>1. history'[i].call = calls /\ history'[i].from = "ai" OBVIOUS
    <3>2. i \in DOMAIN history /\ history'[i] = history[i]
      BY <1>0, <2>3, <2>4, <2>5, <3>1
    <3> QED BY <2>1, <3>1, <3>2 DEF MemoryInv
  <2>9. \E j \in DOMAIN events : events[j].kind = "ChainEnd"
    <3>1. Protocol!Ended(events) BY <2>1 DEF BracketInv
    <3>2. events \in Seq(Events) BY DEF TypeOK
    <3>3. Len(events) \in DOMAIN events BY <3>1, <3>2 DEF Protocol!Ended
    <3> QED BY <3>1, <3>3 DEF Protocol!Ended
  <2> QED BY <2>1, <2>3, <2>6, <2>7, <2>8, <2>9 DEF MemoryInv
<1>5. CASE SaveAnswer
  <2> DEFINE n == Len(history) + 1
  <2>1. /\ pc = "save answer" /\ pc' = "idle" /\ err' = "nil"
        /\ UNCHANGED <<calls, opts, events>>
        /\ history' = Append(history, [call |-> calls, from |-> "ai"])
    BY <1>5 DEF SaveAnswer, SaveUnchanged, Return
  <2>2. calls > 0 BY <2>1 DEF PlaceInv
  <2>3. /\ history' # <<>> /\ Len(history') = n /\ DOMAIN history' = 1..n
        /\ history'[n] = [call |-> calls, from |-> "ai"]
        /\ \A i \in 1..Len(history) : history'[i] = history[i]
    BY <2>1, <2>2, SaveFacts
  <2>4. \A i \in DOMAIN history' : i = n \/ i \in DOMAIN history BY <1>0, <2>3
  <2>5. history'[n].call = calls /\ history'[n].from = "ai" BY <2>3
  <2>6. \A i \in DOMAIN history' : history'[i].call <= calls
    BY <1>0, <1>00, <2>3, <2>4, <2>5
  <2>7. ASSUME NEW i \in DOMAIN history', history'[i].from = "ai"
        PROVE  i > 1 /\ history'[i-1] = [call |-> history'[i].call, from |-> "human"]
    <3>1. CASE i = n
      <4>1. /\ history # <<>>
            /\ history[Len(history)] = [call |-> calls, from |-> "human"]
        BY <2>1 DEF MemoryInv
      <4>2. Len(history) >= 1 /\ Len(history) \in 1..Len(history)
        <5>1. history \in Seq(Messages) BY DEF TypeOK
        <5> QED BY <4>1, <5>1
      <4>3. i - 1 = Len(history) /\ i > 1 BY <1>0, <3>1, <4>2
      <4> QED BY <2>3, <2>5, <3>1, <4>1, <4>2, <4>3
    <3>2. CASE i # n
      <4>1. i \in 1..Len(history) /\ history'[i] = history[i]
        BY <1>0, <2>3, <2>4, <3>2
      <4>2. i > 1 /\ history[i-1] = [call |-> history[i].call, from |-> "human"]
        BY <1>0, <2>7, <4>1 DEF MemoryInv
      <4>3. i - 1 \in 1..Len(history) BY <1>0, <4>1, <4>2
      <4> QED BY <2>3, <4>1, <4>2, <4>3
    <3> QED BY <3>1, <3>2
  <2>8. Remembered(calls)'
    <3>1. n \in DOMAIN history' BY <1>0, <2>3
    <3> QED BY <2>1, <2>3, <3>1 DEF Remembered
  <2>9. \E j \in DOMAIN events : events[j].kind = "ChainEnd"
    <3>1. Protocol!Ended(events) BY <2>1 DEF BracketInv
    <3>2. events \in Seq(Events) BY DEF TypeOK
    <3>3. Len(events) \in DOMAIN events BY <3>1, <3>2 DEF Protocol!Ended
    <3> QED BY <3>1, <3>3 DEF Protocol!Ended
  <2> QED BY <2>1, <2>6, <2>7, <2>8, <2>9 DEF MemoryInv
<1>6. CASE UNCHANGED vars BY <1>6 DEF MemoryInv, Remembered, vars
<1> QED BY <1>1, <1>2, <1>3, <1>4, <1>5, <1>6 DEF Next, CallStep, Idle

------------------------------------------------------------------------------
\* The invariant, and what follows from it.

IInv == /\ TypeOK /\ PlaceInv /\ BracketInv /\ NumberInv /\ StepsInv
        /\ ReturnedInv /\ MemoryInv

LEMMA InitIInv == Init => IInv
<1> SUFFICES ASSUME Init PROVE IInv OBVIOUS
<1>1. TypeOK BY InitType
<1>2. PlaceInv /\ BracketInv BY DEF Init, PlaceInv, BracketInv, Loop
<1>3. todo = <<>> /\ planned = 0 /\ pc = "idle" /\ events = <<>> BY DEF Init
<1>4. NumberInv BY <1>3 DEF NumberInv, Done
<1>5. StepsInv BY <1>3 DEF StepsInv, Loop
<1>6. ReturnedInv BY DEF Init, ReturnedInv, NotReturned
<1>7. history = <<>> /\ calls = 0 BY DEF Init
<1>8. MemoryInv BY <1>3, <1>7 DEF MemoryInv
<1> QED BY <1>1, <1>2, <1>4, <1>5, <1>6, <1>8 DEF IInv

THEOREM Invariance == Spec => []IInv
<1>1. IInv /\ [Next]_vars => IInv'
  BY TypeStep, PlaceStep, BracketStep, NumberStep, StepsStep, ReturnedStep,
     MemoryStep DEF IInv
<1> QED BY InitIInv, <1>1, PTL DEF Spec

\* The state is well-typed whatever the tools, limits and numbers of calls: an
\* observation always names a tool of the list or none, and the memory only
\* messages of calls made.
THEOREM TypeCorrect == Spec => []TypeOK
<1>1. IInv => TypeOK BY DEF IInv
<1> QED BY <1>1, Invariance, PTL

\* Executor.Call asks its agent for a plan only with every action it told the
\* handler of answered, in order, once each.
THEOREM AgentSees == Spec => []AgentSeesEveryAction
<1>1. IInv => AgentSeesEveryAction
  BY AllAnswered DEF IInv, AgentSeesEveryAction, StepsInv, Loop
<1> QED BY <1>1, Invariance, PTL

\* No iteration of Executor.Call passes without a new step.
THEOREM Teaches == Spec => []EveryIterationTeaches
<1>1. IInv => EveryIterationTeaches BY DEF IInv, EveryIterationTeaches, StepsInv
<1> QED BY <1>1, Invariance, PTL

\* The intermediate steps among the values returned answer every action told.
THEOREM ReturnedComplete == Spec => []ReturnedStepsAreComplete
<1>1. IInv => ReturnedStepsAreComplete
  BY DEF IInv, ReturnedStepsAreComplete, ReturnedInv
<1> QED BY <1>1, Invariance, PTL

\* chains.Call leaves in the memory the answers of the calls that returned nil
\* and no others, each after its question.
THEOREM MemoryMatches == Spec => []MemoryMatchesAnswers
<1>1. IInv => MemoryMatchesAnswers BY DEF IInv, MemoryMatchesAnswers, MemoryInv
<1> QED BY <1>1, Invariance, PTL

------------------------------------------------------------------------------
\* The refinement.

LEMMA ProtocolStep ==
    ASSUME IInv, [Next]_vars
    PROVE  [Protocol!Next]_(Protocol!vars)
<1> USE DEF IInv
<1>1. CASE Begin
  <2>1. pc = "idle" /\ pc' = "load" /\ events' = <<>> BY <1>1 DEF Begin
  <2>2. Protocol!Begin BY <2>1 DEF Protocol!Begin
  <2> QED BY <2>2 DEF Protocol!Next
<1>2. CASE CheckInputs \/ PlanUnparsable \/ PlanFails \/ PlanActions
             \/ Observe \/ ToolFails \/ NextIteration \/ CheckOutputs
             \/ SaveUser
  <2>1. events' = events /\ pc # "idle" /\ pc' # "idle"
    BY <1>2 DEF CheckInputs, PlanUnparsable, PlanFails, PlanActions, Observe,
       ToolFails, NextIteration, CheckOutputs, SaveUser, LoopUnchanged,
       SaveUnchanged, Planning, Fail
  <2> QED BY <2>1 DEF Protocol!vars
<1>3. CASE Start
  <2>1. pc = "load" /\ pc' = "inputs" /\ events = <<>>
        /\ events' = Append(events, [kind |-> "ChainStart", action |-> 0])
    BY <1>3 DEF Start, Tell, Event, BracketInv
  <2>2. Protocol!Open
    BY <2>1 DEF Protocol!Open, Protocol!Tell, Protocol!Event
  <2> QED BY <2>2 DEF Protocol!Next
<1>4. CASE Announce
  <2>1. pc = "act" /\ pc' = "tool" /\ todo # <<>>
        /\ events' = Append(events, [kind |-> "AgentAction", action |-> todo[1].id])
    BY <1>4 DEF Announce, Tell
  <2>2. todo[1].id = Len(events)
    <3>1. 1 \in 1..Len(todo) BY <2>1, FirstAction
    <3> QED BY <2>1, <3>1 DEF NumberInv
  <2>3. Protocol!Acting(events) BY <2>1 DEF BracketInv, Loop
  <2>4. Protocol!Act BY <2>1, <2>2, <2>3 DEF Protocol!Act, Protocol!Tell
  <2> QED BY <2>4 DEF Protocol!Next
<1>5. CASE PlanFinish \/ NotFinished
  <2>1. pc = "loop" /\ pc' # "idle"
        /\ events' = Append(events, [kind |-> "AgentFinish", action |-> 0])
    BY <1>5 DEF PlanFinish, NotFinished, Planning, Fail, Tell, Event
  <2>2. Protocol!Acting(events) BY <2>1 DEF BracketInv, Loop
  <2>3. Protocol!Finish
    BY <2>1, <2>2 DEF Protocol!Finish, Protocol!Tell, Protocol!Event
  <2> QED BY <2>3 DEF Protocol!Next
<1>6. CASE TellEnd
  <2>1. pc = "end" /\ pc' = "save"
        /\ events' = Append(events, [kind |-> "ChainEnd", action |-> 0])
    BY <1>6 DEF TellEnd, Tell, Event
  <2>2. Protocol!Finished(events) BY <2>1 DEF BracketInv
  <2>3. Protocol!End
    BY <2>1, <2>2 DEF Protocol!End, Protocol!Tell, Protocol!Event
  <2> QED BY <2>3 DEF Protocol!Next
<1>7. CASE TellError
  <2>1. pc = "failed" /\ pc' = "idle" /\ err' = err
        /\ events' = Append(events, [kind |-> "ChainError", action |-> 0])
    BY <1>7 DEF TellError, Return, Tell, Event
  <2>2. (Protocol!Acting(events) \/ Protocol!Finished(events)) /\ err # "nil"
    BY <2>1 DEF BracketInv
  <2>3. Protocol!Fail BY <2>1, <2>2 DEF Protocol!Fail, Protocol!Event
  <2> QED BY <2>3 DEF Protocol!Next
<1>8. CASE LoadFails \/ SaveFails
  <2>1. pc \in {"load", "save", "save answer"} /\ pc' = "idle"
        /\ err' = "memory" /\ events' = events
    BY <1>8 DEF LoadFails, SaveFails, Return, SaveUnchanged
  <2>2. events = <<>> \/ Protocol!Ended(events) BY <2>1 DEF BracketInv
  <2>3. Protocol!ReturnError BY <2>1, <2>2 DEF Protocol!ReturnError
  <2> QED BY <2>3 DEF Protocol!Next
<1>9. CASE SaveNothing \/ SaveAnswer
  <2>1. pc \in {"save", "save answer"} /\ pc' = "idle" /\ err' = "nil"
        /\ events' = events
    BY <1>9 DEF SaveNothing, SaveAnswer, Return, SaveUnchanged
  <2>2. Protocol!Ended(events) BY <2>1 DEF BracketInv
  <2>3. Protocol!ReturnNil BY <2>1, <2>2 DEF Protocol!ReturnNil
  <2> QED BY <2>3 DEF Protocol!Next
<1>10. CASE UNCHANGED vars BY <1>10 DEF vars, Protocol!vars
<1> QED BY <1>1, <1>2, <1>3, <1>4, <1>5, <1>6, <1>7, <1>8, <1>9, <1>10
        DEF Next, CallStep, Idle

\* chains.Call over an Executor shows its handler and its caller only what
\* HandlerProtocol promises.
THEOREM Refinement == Spec => ImplementsProtocol
<1>1. Init => Protocol!Init BY DEF Init, Protocol!Init
<1>2. IInv /\ [Next]_vars => [Protocol!Next]_(Protocol!vars) BY ProtocolStep
<1> QED BY <1>1, <1>2, Invariance, PTL DEF Spec, ImplementsProtocol, Protocol!Spec

------------------------------------------------------------------------------
\* The functions agent in the executor.

\* What is to be done is what was planned last, and what is in the steps answers
\* all that was planned before it.
CallsInv ==
    /\ (\E S : actions \in Seq(S)) /\ planned = Len(actions)
    /\ pc \in {"load", "inputs"} => actions = <<>>
    /\ \A k \in 1..Len(todo) : todo[k].tool = actions[todo[k].id].tool
    /\ pc \in Loop =>
          /\ Len(steps) = Done
          /\ \A i \in 1..Len(steps) : steps[i].of = i /\ Holds(actions[i].tool, steps[i].tool)
ResponsesInv ==
    /\ responses \in Seq(Seq(Nat))
    /\ \A t \in 1..Len(responses) : \A k \in 1..Len(responses[t]) :
          responses[t][k] \in 1..planned
AgentIInv == IInv /\ CallsInv /\ ResponsesInv

\* A step of the executor with this agent is one of the executor with any.
LEMMA AgentStepIsStep == [AgentNext]_allVars => [Next]_vars
<1>1. PlanToolCalls \/ PlanLegacyCall => PlanActions
  BY DEF PlanToolCalls, PlanLegacyCall, Plans
<1>2. UNCHANGED allVars => UNCHANGED vars
  BY DEF allVars
<1> QED BY <1>1, <1>2 DEF AgentNext, PlanEnds, Execute, Next, CallStep

LEMMA AgentFacts ==
    ASSUME AgentIInv
    PROVE  /\ TypeOK /\ PlaceInv /\ NumberInv /\ StepsInv
           /\ todo \in Seq(Action) /\ steps \in Seq(Observation)
           /\ Len(todo) \in Nat /\ Len(steps) \in Nat /\ Len(actions) \in Nat
           /\ planned \in Nat /\ Done \in Int /\ Done >= 0 /\ Done = planned - Len(todo)
           /\ (\E S : actions \in Seq(S)) /\ planned = Len(actions)
           /\ \A k \in 1..Len(todo) : todo[k].id = Done + k
<1>1. TypeOK /\ PlaceInv /\ NumberInv /\ StepsInv /\ CallsInv
  BY DEF AgentIInv, IInv
<1>2. todo \in Seq(Action) /\ steps \in Seq(Observation) /\ planned \in Nat
  BY <1>1 DEF TypeOK
<1>3. (\E S : actions \in Seq(S)) /\ planned = Len(actions)
  BY <1>1 DEF CallsInv
<1>4. Done >= 0 /\ \A k \in 1..Len(todo) : todo[k].id = Done + k
  BY <1>1 DEF NumberInv
<1>4b. PICK S : actions \in Seq(S)
  BY <1>3
<1>5. Len(todo) \in Nat /\ Len(steps) \in Nat /\ Len(actions) \in Nat
  BY <1>2, <1>4b
<1>6. Done = planned - Len(todo)
  BY DEF Done
<1> QED BY <1>1, <1>2, <1>3, <1>4, <1>5, <1>6

\* Rows of actions.
LEMMA OneFacts == ASSUME NEW S, NEW x \in S PROVE <<x>> \in [1..1 -> S]
<1>1. <<x>> \in Seq(S) /\ Len(<<x>>) = 1
  OBVIOUS
<1> QED BY <1>1

LEMMA JoinFacts ==
    ASSUME NEW S, NEW s \in Seq(S), NEW m \in Nat, NEW f, NEW r, r = [k \in 1..m |-> f[k]]
    PROVE  /\ \E T : s \o r \in Seq(T)
           /\ Len(s \o r) = Len(s) + m
           /\ \A i \in 1..Len(s) : (s \o r)[i] = s[i]
           /\ \A k \in 1..m : (s \o r)[Len(s) + k] = r[k]
<1> DEFINE T == S \cup {r[k] : k \in 1..m}
<1>1. s \in Seq(T)
  OBVIOUS
<1>2. r \in [1..m -> T]
  OBVIOUS
<1> HIDE DEF T
<1>3. r \in Seq(T) /\ Len(r) = m
  BY <1>2
<1>4. s \o r \in Seq(T) /\ Len(s \o r) = Len(s) + Len(r) /\ Len(s) \in Nat
  BY <1>1, <1>3
<1>5. \A i \in 1..Len(s) : (s \o r)[i] = s[i]
  BY <1>1, <1>3
<1>6. \A k \in 1..Len(r) : (s \o r)[Len(s) + k] = r[k]
  BY <1>1, <1>3
<1> QED BY <1>3, <1>4, <1>5, <1>6

LEMMA SeqDomain ==
    ASSUME NEW S, NEW s \in Seq(S)
    PROVE  DOMAIN s = 1..Len(s) /\ Len(s) \in Nat
OBVIOUS

\* What a plan adds: its actions at the end, their numbers as a response.
LEMMA PlansFacts ==
    ASSUME AgentIInv, PlanToolCalls \/ PlanLegacyCall
    PROVE  \E n \in Nat \ {0} :
              /\ pc = "loop" /\ todo = <<>> /\ pc' = "act" /\ steps' = steps
              /\ Len(todo') = n /\ planned' = planned + n
              /\ (\E S : actions' \in Seq(S)) /\ Len(actions') = planned + n
              /\ \A i \in 1..planned : actions'[i] = actions[i]
              /\ \A k \in 1..n : /\ todo'[k].id = planned + k
                                 /\ todo'[k].tool = actions'[planned + k].tool
              /\ responses' = Append(responses, [k \in 1..n |-> planned + k])
<1>a. \E m \in Nat \ {0} : \E content, legacy :
        \E toolCalls \in [1..m -> FunctionCall] : Plans(toolCalls, content, legacy)
  <2>1. CASE PlanToolCalls
    <3>1. \A m \in 1..MaxActions : m \in Nat \ {0}
      BY BoundsAssumption
    <3> QED BY <2>1, <3>1 DEF PlanToolCalls
  <2>2. CASE PlanLegacyCall
    <3>1. 1 \in Nat \ {0}
      OBVIOUS
    <3>2. PICK call \in FunctionCall, content \in {"", "said"} : Plans(<<call>>, content, TRUE)
      BY <2>2 DEF PlanLegacyCall
    <3>3. <<call>> \in [1..1 -> FunctionCall]
      BY OneFacts
    <3> QED BY ONLY <3>1, <3>2, <3>3, Zenon
  <2> QED BY <2>1, <2>2
<1>b. PICK m \in Nat \ {0} : \E content, legacy :
        \E toolCalls \in [1..m -> FunctionCall] : Plans(toolCalls, content, legacy)
  BY <1>a
<1>c. PICK content, legacy : \E toolCalls \in [1..m -> FunctionCall] : Plans(toolCalls, content, legacy)
  BY <1>b
<1>1. PICK toolCalls \in [1..m -> FunctionCall] : Plans(toolCalls, content, legacy)
  BY <1>c
<1>2. /\ planned \in Nat /\ (\E S : actions \in Seq(S)) /\ Len(actions) = planned
      /\ TypeOK /\ PlaceInv
  BY AgentFacts
<1>3. /\ PlanActions
      /\ todo' = [k \in 1..m |-> [tool |-> toolCalls[k].name, id |-> planned + k]]
      /\ responses' = Append(responses, [k \in 1..m |-> planned + k])
  BY <1>1 DEF Plans
<1>4. PICK new : new = [k \in 1..m |->
              ActionFor(toolCalls[k], content, IF legacy THEN 0 ELSE planned + k, legacy)]
  OBVIOUS
<1>5. actions' = actions \o new
  <2>1. DOMAIN toolCalls = 1..m
    OBVIOUS
  <2> QED BY <1>1, <1>4, <2>1 DEF Plans
<1>6. \A k \in 1..m : new[k].tool = toolCalls[k].name
  BY <1>4 DEF ActionFor
<1>7. /\ \E S : actions' \in Seq(S)
      /\ Len(actions') = planned + m
      /\ \A i \in 1..planned : actions'[i] = actions[i]
      /\ \A k \in 1..m : actions'[planned + k] = new[k]
  <2>1. new = [k \in 1..m |-> new[k]]
    BY <1>4, Zenon
  <2>0. PICK S : actions \in Seq(S)
    BY <1>2
  <2>2. PICK s \in Seq(S) : s = actions
    BY <2>0
  <2>3. m \in Nat
    OBVIOUS
  <2>4. /\ \E T : s \o new \in Seq(T)
        /\ Len(s \o new) = Len(s) + m
        /\ \A i \in 1..Len(s) : (s \o new)[i] = s[i]
        /\ \A k \in 1..m : (s \o new)[Len(s) + k] = new[k]
    <3>1. \A f, r : r = [k \in 1..m |-> f[k]] =>
             /\ \E T : s \o r \in Seq(T)
             /\ Len(s \o r) = Len(s) + m
             /\ \A i \in 1..Len(s) : (s \o r)[i] = s[i]
             /\ \A k \in 1..m : (s \o r)[Len(s) + k] = r[k]
      BY ONLY <2>3, JoinFacts, Zenon
    <3> QED BY ONLY <2>1, <3>1, Zenon
  <2> QED BY ONLY <1>2, <1>5, <2>2, <2>4, Zenon
<1>8. DOMAIN todo' = 1..m
      /\ \A k \in 1..m : todo'[k].id = planned + k /\ todo'[k].tool = toolCalls[k].name
  BY <1>3
<1>9. Len(todo') = m /\ planned' = planned + m
  <2>1. PICK n \in Nat \ {0} : todo' \in Seq(Action) /\ Len(todo') = n /\ planned' = planned + n
    BY <1>2, <1>3, PlanFacts
  <2>2. DOMAIN todo' = 1..n
    BY <2>1, SeqDomain
  <2>3. 1..n = 1..m /\ n \in Nat /\ n >= 1 /\ m \in Nat /\ m >= 1
    BY <1>8, <2>2
  <2>4. n \in 1..n /\ m \in 1..m
    BY ONLY <2>3
  <2>5. n = m
    BY ONLY <2>3, <2>4
  <2> QED BY <2>1, <2>5
<1>10. pc = "loop" /\ todo = <<>> /\ pc' = "act" /\ steps' = steps
  BY <1>2, <1>3 DEF PlanActions, Planning, PlaceInv
<1> QED BY <1>3, <1>6, <1>7, <1>8, <1>9, <1>10

LEMMA CallsStep ==
    ASSUME AgentIInv, IInv', [AgentNext]_allVars
    PROVE  CallsInv'
<1>0. /\ TypeOK /\ PlaceInv /\ NumberInv /\ StepsInv
      /\ todo \in Seq(Action) /\ steps \in Seq(Observation)
      /\ Len(todo) \in Nat /\ Len(steps) \in Nat /\ Len(actions) \in Nat
      /\ planned \in Nat /\ Done \in Int /\ Done >= 0 /\ Done = planned - Len(todo)
      /\ (\E S : actions \in Seq(S)) /\ planned = Len(actions)
      /\ \A k \in 1..Len(todo) : todo[k].id = Done + k
  BY AgentFacts
<1>1. CallsInv
  BY DEF AgentIInv
<1>2. CASE Begin /\ actions' = <<>> /\ responses' = <<>>
  <2>1. pc' = "load" /\ todo' = <<>> /\ planned' = 0 /\ actions' = <<>>
    BY <1>2 DEF Begin
  <2> QED BY <2>1 DEF CallsInv, Loop
<1>3. CASE PlanToolCalls \/ PlanLegacyCall
  <2>1. PICK n \in Nat \ {0} :
          /\ pc = "loop" /\ todo = <<>> /\ pc' = "act" /\ steps' = steps
          /\ Len(todo') = n /\ planned' = planned + n
          /\ (\E S : actions' \in Seq(S)) /\ Len(actions') = planned + n
          /\ \A i \in 1..planned : actions'[i] = actions[i]
          /\ \A k \in 1..n : /\ todo'[k].id = planned + k
                             /\ todo'[k].tool = actions'[planned + k].tool
    BY <1>3, PlansFacts
  <2>2. Done = planned /\ Len(steps) = planned /\ Done' = planned
    <3>1. Len(todo) = 0
      BY <2>1
    <3>2. Len(steps) = Done
      BY <1>1, <2>1 DEF CallsInv, Loop
    <3>3. Done' = planned' - Len(todo')
      BY DEF Done
    <3> QED BY <1>0, <2>1, <3>1, <3>2, <3>3
  <2>3. \A k \in 1..Len(todo') : todo'[k].tool = actions'[todo'[k].id].tool
    BY <2>1
  <2>4. \A i \in 1..Len(steps') : steps'[i].of = i /\ Holds(actions'[i].tool, steps'[i].tool)
    BY <1>1, <2>1, <2>2 DEF CallsInv, Loop
  <2> QED BY <2>1, <2>2, <2>3, <2>4 DEF CallsInv, Holds, Matching
<1>4. CASE Observe /\ UNCHANGED agentVars
  <2>1. pc = "tool" /\ todo # <<>> /\ pc' = "act" /\ planned' = planned /\ actions' = actions
        /\ todo' = Tail(todo)
    BY <1>0, <1>4 DEF Observe, PlaceInv, agentVars
  <2>2. PICK k \in 0..Len(ToolList) :
          Holds(todo[1].tool, k) /\ steps' = Append(steps, [tool |-> k, of |-> todo[1].id])
    BY <1>4 DEF Observe
  <2>3. /\ Len(todo) >= 1 /\ Len(Tail(todo)) = Len(todo) - 1 /\ todo[1].id \in Nat
        /\ \A j \in 1..(Len(todo) - 1) : Tail(todo)[j] = todo[j + 1]
    BY <1>0, <2>1, FirstAction
  <2>4. todo[1].id = Done + 1 /\ Len(steps) = Done /\ todo[1].tool = actions[Done + 1].tool
    <3>1. 1 \in 1..Len(todo)
      BY <1>0, <2>3
    <3> QED BY <1>0, <1>1, <2>1, <3>1 DEF CallsInv, Loop
  <2>5. Done' = Done + 1
    <3>1. Done' = planned' - Len(todo')
      BY DEF Done
    <3> QED BY <1>0, <2>1, <2>3, <3>1
  <2>6. PICK o : o = [tool |-> k, of |-> Done + 1]
    OBVIOUS
  <2>7. o \in Observation /\ o.of = Done + 1 /\ o.tool = k /\ steps' = Append(steps, o)
    BY <1>0, <2>2, <2>4, <2>6 DEF Observation
  <2>8. /\ Len(steps') = Len(steps) + 1 /\ steps'[Len(steps) + 1] = o
        /\ \A i \in 1..Len(steps) : steps'[i] = steps[i]
    BY <1>0, <2>7, StepFacts
  <2>9. \A i \in 1..Len(steps') : steps'[i].of = i /\ Holds(actions'[i].tool, steps'[i].tool)
    <3>1. SUFFICES ASSUME NEW i \in 1..Len(steps')
                   PROVE  steps'[i].of = i /\ Holds(actions[i].tool, steps'[i].tool)
      BY <2>1
    <3>2. CASE i \in 1..Len(steps)
      BY <1>1, <2>1, <2>8, <3>2 DEF CallsInv, Loop
    <3>3. CASE i = Len(steps) + 1
      BY <2>2, <2>4, <2>7, <2>8, <3>3
    <3> QED BY <1>0, <2>8, <3>2, <3>3
  <2>10. \A j \in 1..Len(todo') : todo'[j].tool = actions'[todo'[j].id].tool
    <3>1. SUFFICES ASSUME NEW j \in 1..(Len(todo) - 1)
                   PROVE  todo'[j].tool = actions[todo'[j].id].tool
      BY <2>1, <2>3
    <3>2. j + 1 \in 1..Len(todo) /\ todo'[j] = todo[j + 1]
      BY <1>0, <2>1, <2>3
    <3> QED BY <1>1, <3>2 DEF CallsInv
  <2> QED BY <1>0, <2>1, <2>4, <2>5, <2>8, <2>9, <2>10 DEF CallsInv, Holds, Matching
<1>5. CASE NextIteration /\ UNCHANGED agentVars
  <2>1. pc = "act" /\ pc' = "loop" /\ UNCHANGED <<steps, todo, planned, actions>>
    BY <1>5 DEF NextIteration, agentVars
  <2> QED BY <1>1, <2>1 DEF CallsInv, Loop, Done, Holds, Matching
<1>6. CASE Announce /\ UNCHANGED agentVars
  <2>1. pc = "act" /\ pc' = "tool" /\ UNCHANGED <<steps, todo, planned, actions>>
    BY <1>6 DEF Announce, agentVars
  <2> QED BY <1>1, <2>1 DEF CallsInv, Loop, Done, Holds, Matching
<1>7. CASE CheckInputs /\ UNCHANGED agentVars
  <2>1. pc = "inputs" /\ pc' \in {"loop", "failed"} /\ UNCHANGED <<steps, todo, planned, actions>>
    BY <1>7 DEF CheckInputs, Fail, agentVars
  <2>2. steps = <<>> /\ actions = <<>> /\ todo = <<>> /\ planned = 0
    BY <1>0, <1>1, <2>1 DEF StepsInv, PlaceInv, CallsInv
  <2>3. Len(steps') = 0 /\ Done' = 0
    <3>1. Len(steps) = 0 /\ Len(todo) = 0
      BY <2>2
    <3>2. Done' = planned' - Len(todo')
      BY DEF Done
    <3> QED BY <2>1, <2>2, <3>1, <3>2
  <2> QED BY <1>0, <1>1, <2>1, <2>2, <2>3 DEF CallsInv
<1>8. ASSUME UNCHANGED <<todo, planned, actions>>, pc' \notin Loop,
             pc' \notin {"load", "inputs"} \/ pc \in {"load", "inputs"}
      PROVE  CallsInv'
  BY <1>1, <1>8 DEF CallsInv
<1>9. CASE LoadFails /\ UNCHANGED agentVars
  BY <1>8, <1>9 DEF LoadFails, Return, Loop, agentVars
<1>10. CASE Start /\ UNCHANGED agentVars
  BY <1>8, <1>10 DEF Start, Loop, agentVars
<1>11. CASE ToolFails /\ UNCHANGED agentVars
  BY <1>8, <1>11 DEF ToolFails, Fail, Loop, agentVars
<1>12. CASE NotFinished /\ UNCHANGED agentVars
  BY <1>8, <1>12 DEF NotFinished, Fail, Loop, agentVars
<1>13. CASE (TellError \/ CheckOutputs \/ TellEnd) /\ UNCHANGED agentVars
  BY <1>8, <1>13 DEF TellError, CheckOutputs, TellEnd, Fail, Return, Loop, agentVars
<1>14. CASE (SaveNothing \/ SaveUser \/ SaveAnswer \/ SaveFails) /\ UNCHANGED agentVars
  BY <1>8, <1>14 DEF SaveNothing, SaveUser, SaveAnswer, SaveFails, SaveUnchanged, Return,
                     Loop, agentVars
<1>15. CASE PlanEnds
  BY <1>8, <1>15 DEF PlanEnds, PlanFails, PlanFinish, LoopUnchanged, Fail, Loop, agentVars
<1>16. CASE UNCHANGED <<vars, agentVars>>
  BY <1>1, <1>16 DEF vars, agentVars, CallsInv, Loop, Done, Holds, Matching
<1> QED BY <1>2, <1>3, <1>4, <1>5, <1>6, <1>7, <1>9, <1>10, <1>11, <1>12, <1>13, <1>14,
           <1>15, <1>16 DEF AgentNext, Execute, Idle, allVars

LEMMA ResponsesStep ==
    ASSUME AgentIInv, [AgentNext]_allVars
    PROVE  ResponsesInv'
<1>0. ResponsesInv /\ planned \in Nat
  BY AgentFacts DEF AgentIInv
<1>1. CASE Begin /\ actions' = <<>> /\ responses' = <<>>
  <2>1. responses' = <<>>
    BY <1>1
  <2> QED BY <2>1 DEF ResponsesInv
<1>2. CASE PlanToolCalls \/ PlanLegacyCall
  <2>1. PICK n \in Nat \ {0} :
          planned' = planned + n /\ responses' = Append(responses, [k \in 1..n |-> planned + k])
    BY <1>2, PlansFacts
  <2>2. PICK r : r = [k \in 1..n |-> planned + k]
    OBVIOUS
  <2>3. r \in Seq(Nat) /\ Len(r) = n /\ \A k \in 1..n : r[k] = planned + k
    BY <1>0, <2>2
  <2>4. responses \in Seq(Seq(Nat)) /\ Len(responses) \in Nat
    BY <1>0 DEF ResponsesInv
  <2>5. /\ responses' \in Seq(Seq(Nat)) /\ Len(responses') = Len(responses) + 1
        /\ responses'[Len(responses) + 1] = r
        /\ \A t \in 1..Len(responses) : responses'[t] = responses[t]
    BY <2>1, <2>2, <2>3, <2>4, AppendFacts
  <2>6. ASSUME NEW t \in 1..Len(responses'), NEW k \in 1..Len(responses'[t])
        PROVE  responses'[t][k] \in 1..planned'
    <3>1. CASE t \in 1..Len(responses)
      <4>1. responses[t][k] \in 1..planned
        BY <1>0, <2>5, <2>6, <3>1 DEF ResponsesInv
      <4> QED BY <1>0, <2>1, <2>5, <3>1, <4>1
    <3>2. CASE t = Len(responses) + 1
      BY <1>0, <2>1, <2>3, <2>5, <2>6, <3>2
    <3> QED BY <2>4, <2>5, <3>1, <3>2
  <2> QED BY <2>5, <2>6 DEF ResponsesInv
<1>3. ASSUME UNCHANGED <<planned, responses>> PROVE ResponsesInv'
  BY <1>0, <1>3 DEF ResponsesInv
<1>4. CASE PlanEnds
  BY <1>3, <1>4 DEF PlanEnds, PlanFails, PlanFinish, agentVars
<1>5. CASE Execute
  BY <1>3, <1>5 DEF Execute, agentVars, LoadFails, Start, CheckInputs, Announce, Observe,
     ToolFails, NextIteration, NotFinished, TellError, CheckOutputs, TellEnd, SaveNothing,
     SaveUser, SaveAnswer, SaveFails, SaveUnchanged, Idle, vars
<1>6. CASE UNCHANGED allVars
  BY <1>3, <1>6 DEF allVars, vars, agentVars
<1> QED BY <1>1, <1>2, <1>4, <1>5, <1>6 DEF AgentNext

\* The executor with the functions agent in it is an executor: what is proved of
\* AgentExecutor for any agent holds of this one.
THEOREM FunctionsAgentIsAnAgent == AgentSpec => Spec
<1>1. AgentInit => Init
  BY DEF AgentInit
<1> QED BY <1>1, AgentStepIsStep, PTL DEF AgentSpec, Spec

THEOREM AgentInvariance == AgentSpec => []AgentIInv
<1>1. AgentInit => AgentIInv
  <2>1. SUFFICES ASSUME AgentInit PROVE AgentIInv
    OBVIOUS
  <2>2. Init /\ actions = <<>> /\ responses = <<>>
    BY <2>1 DEF AgentInit
  <2>3. pc = "idle" /\ todo = <<>> /\ planned = 0
    BY <2>2 DEF Init
  <2>4. CallsInv /\ ResponsesInv
    BY <2>2, <2>3 DEF CallsInv, ResponsesInv, Loop
  <2> QED BY <2>2, <2>4, InitIInv DEF AgentIInv
<1>2. AgentIInv /\ IInv' /\ [AgentNext]_allVars => AgentIInv'
  BY CallsStep, ResponsesStep DEF AgentIInv
<1> QED BY <1>1, <1>2, FunctionsAgentIsAnAgent, Invariance, PTL DEF AgentSpec

\* OpenAIFunctionsAgent asks the model again only with every tool call of every
\* response answered, once, in order and by the tool it named, or told that there is
\* none: the steps that constructScratchPad makes messages of leave no call open.
THEOREM NoCallLeftOpen == AgentSpec => []EveryCallAnswered
<1>1. ASSUME AgentIInv, pc = "loop"
      PROVE  /\ Len(steps) = Len(actions)
             /\ \A i \in DOMAIN steps :
                   steps[i].of = i /\ Holds(ActionOf(i).tool, steps[i].tool)
             /\ \A t \in DOMAIN responses : \A k \in DOMAIN responses[t] :
                   responses[t][k] \in DOMAIN steps
  <2>1. /\ todo = <<>> /\ Len(steps) = Done /\ Done = planned - Len(todo)
        /\ planned = Len(actions) /\ planned \in Nat /\ CallsInv /\ ResponsesInv
        /\ steps \in Seq(Observation)
    BY <1>1, AgentFacts DEF AgentIInv, CallsInv, Loop, PlaceInv
  <2>2. Len(todo) = 0
    BY <2>1
  <2>3. Len(steps) = planned /\ DOMAIN steps = 1..planned
    BY <2>1, <2>2
  <2>4. \A i \in DOMAIN steps : steps[i].of = i /\ Holds(ActionOf(i).tool, steps[i].tool)
    BY <1>1, <2>1, <2>3 DEF CallsInv, ActionOf, Loop
  <2>5. \A t \in DOMAIN responses : \A k \in DOMAIN responses[t] :
           responses[t][k] \in DOMAIN steps
    <3>1. SUFFICES ASSUME NEW t \in DOMAIN responses, NEW k \in DOMAIN responses[t]
                   PROVE  responses[t][k] \in 1..planned
      BY <2>3
    <3>2. responses \in Seq(Seq(Nat))
      BY <2>1 DEF ResponsesInv
    <3>3. t \in 1..Len(responses) /\ responses[t] \in Seq(Nat)
      BY <3>2
    <3>4. k \in 1..Len(responses[t])
      BY <3>3
    <3> QED BY <2>1, <3>3, <3>4 DEF ResponsesInv
  <2> QED BY <2>1, <2>3, <2>4, <2>5
<1>2. AgentIInv => EveryCallAnswered
  BY <1>1 DEF EveryCallAnswered
<1> QED BY <1>2, AgentInvariance, PTL
==============================================================================
