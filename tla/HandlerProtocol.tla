--------------------------- MODULE HandlerProtocol ---------------------------
(***************************************************************************)
(* What chains.Call and an agent's Executor promise a callbacks.Handler    *)
(* and their caller about one call after another, whatever the agent, its  *)
(* tools and its memory do: the handler sees a bracket that opens with     *)
(* ChainStart and is closed by exactly one ChainEnd or ChainError; in it   *)
(* come the actions, each once and in the order planned (numbered from 1), *)
(* then at most one AgentFinish, then nothing; ChainEnd follows an         *)
(* AgentFinish; a call that returns nil has shown its ChainEnd, and one    *)
(* that returns an error without opening its bracket has shown nothing.    *)
(***************************************************************************)
EXTENDS Naturals, Sequences

Event(k) == [kind |-> k, action |-> 0]
Ended(es) == es # <<>> /\ es[Len(es)].kind = "ChainEnd"
Finished(es) == es # <<>> /\ es[Len(es)].kind = "AgentFinish"
Acting(es) == es # <<>> /\ es[Len(es)].kind \in {"ChainStart", "AgentAction"}

VARIABLES
    events,   \* what the handler saw of the last call begun
    answer    \* "none" while a call runs, else the error the last call returned

vars == <<events, answer>>

Init == events = <<>> /\ answer = "nil"

Begin ==
    /\ answer # "none"
    /\ events' = <<>> /\ answer' = "none"

Tell(e) ==
    /\ answer = "none"
    /\ events' = Append(events, e)
    /\ UNCHANGED answer

Open == events = <<>> /\ Tell(Event("ChainStart"))
Act == Acting(events) /\ Tell([kind |-> "AgentAction", action |-> Len(events)])
Finish == Acting(events) /\ Tell(Event("AgentFinish"))
End == Finished(events) /\ Tell(Event("ChainEnd"))

\* The error of the chain is told, and returned.
Fail ==
    /\ answer = "none" /\ answer' = "error"
    /\ Acting(events) \/ Finished(events)
    /\ events' = Append(events, Event("ChainError"))

ReturnNil ==
    /\ answer = "none" /\ answer' = "nil"
    /\ Ended(events)
    /\ UNCHANGED events

\* The error of loading the memory, or of saving to it.
ReturnError ==
    /\ answer = "none" /\ answer' = "error"
    /\ events = <<>> \/ Ended(events)
    /\ UNCHANGED events

Next == \/ Begin \/ Open \/ Act \/ Finish \/ End \/ Fail
        \/ ReturnNil \/ ReturnError

Spec == Init /\ [][Next]_vars
==============================================================================
