---------------------------- MODULE ApplyPromise ----------------------------
(***************************************************************************)
(* What chains.Apply promises its caller, without channels or goroutines:  *)
(* the chain is run at most once on each input, and one answer is given:   *)
(* every result, or the error of some input, or the context's error.  An   *)
(* answer given after a cancellation may have nil holes in it, and this    *)
(* is the whole of what a cancellation may change.                         *)
(***************************************************************************)
EXTENDS Naturals

CONSTANTS NInputs
Inputs == 1..NInputs
Nil == 0

VARIABLES
    outcome,    \* what the chain returned for each input
    cancelled,  \* the context has been cancelled
    answer,     \* "none" until Apply returns, then the error it returned
    slice       \* the slice returned with a nil error

vars == <<outcome, cancelled, answer, slice>>

Init ==
    /\ outcome = [i \in Inputs |-> "none"]
    /\ cancelled \in BOOLEAN
    /\ answer = "none"
    /\ slice = [i \in Inputs |-> Nil]

RunOn(i) ==
    /\ outcome[i] = "none"
    /\ \E o \in {"ok", "err"} : outcome' = [outcome EXCEPT ![i] = o]
    /\ UNCHANGED <<cancelled, answer, slice>>

Cancel ==
    /\ cancelled' = TRUE
    /\ UNCHANGED <<outcome, answer, slice>>

\* The chain returned a result for every input placed in the slice.
Answered(S) ==
    /\ \A i \in S : outcome[i] = "ok"
    /\ slice' = [i \in Inputs |-> IF i \in S THEN i ELSE Nil]

AnswerAll ==
    /\ answer = "none" /\ answer' = "nil"
    /\ Answered(Inputs)
    /\ UNCHANGED <<outcome, cancelled>>

AnswerWithHoles ==
    /\ answer = "none" /\ answer' = "nil"
    /\ cancelled
    /\ \E S \in SUBSET Inputs : Answered(S)
    /\ UNCHANGED <<outcome, cancelled>>

AnswerError ==
    /\ answer = "none" /\ answer' = "chain"
    /\ \E i \in Inputs : outcome[i] = "err"
    /\ UNCHANGED <<outcome, cancelled, slice>>

AnswerCancelled ==
    /\ answer = "none" /\ answer' = "ctx"
    /\ cancelled
    /\ UNCHANGED <<outcome, cancelled, slice>>

Next == \/ \E i \in Inputs : RunOn(i)
        \/ Cancel
        \/ AnswerAll \/ AnswerWithHoles \/ AnswerError \/ AnswerCancelled

Spec == Init /\ [][Next]_vars
==============================================================================
