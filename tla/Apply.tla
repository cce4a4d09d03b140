-------------------------------- MODULE Apply --------------------------------
(***************************************************************************)
(* chains.Apply (src/chains/chains.go): a pool of worker goroutines runs   *)
(* one chain on every input.  The goroutines are the caller's (it sends    *)
(* the jobs, then collects the results), one per worker, and the closer    *)
(* that waits for the workers and closes the results channel.  A context   *)
(* cancellation may arrive between any two steps.                          *)
(*                                                                         *)
(* Input i's result map, when the chain succeeds on it, is written i.      *)
(***************************************************************************)
EXTENDS Naturals, Integers, Sequences, FiniteSets

CONSTANTS
    NInputs,      \* len(inputValues)
    MaxWorkers,   \* the argument maxWorkers, any integer
    MayFail,      \* BOOLEAN: whether the chain may return an error
    MayCancel     \* BOOLEAN: whether the context may be cancelled

ASSUME ApplyAssumption ==
    /\ NInputs \in Nat
    /\ MaxWorkers \in Int
    /\ MayFail \in BOOLEAN
    /\ MayCancel \in BOOLEAN

DefaultMaxWorkers == 5
NumWorkers == IF MaxWorkers <= 0 THEN DefaultMaxWorkers ELSE MaxWorkers
Workers == 1..NumWorkers
Inputs  == 1..NInputs
Nil     == 0       \* a nil result map, and "no job"

\* The element type of the results channel, and what a receive from the closed
\* and drained channel yields: the zero applyResult, whose index is the first.
ApplyResult == [i : Inputs, result : Inputs \cup {Nil}, err : BOOLEAN]
ZeroResult  == [i |-> 1, result |-> Nil, err |-> FALSE]

VARIABLES
    inputJobs,     \* the buffered channel of jobs
    inputClosed,   \* close(inputJobs) has happened
    resultsChan,   \* the buffered channel of results
    resultsClosed, \* close(resultsChan) has happened
    worker,        \* each worker: "select", "call", "send" or "done"
    job,           \* the input each worker holds, or Nil
    outcome,       \* what Call returned for each input: "none", "ok" or "err"
    caller,        \* the caller: "sending", "collecting" or "returned"
    sent,          \* how many jobs sendApplyInputJobs has sent
    got,           \* how many times the collecting loop has received
    results,       \* the slice of results
    ret,           \* the error Apply returned: "nil", "chain" or "ctx"
    cancelled      \* ctx.Done() is closed

callerVars == <<caller, sent, got, results, ret>>
vars == <<inputJobs, inputClosed, resultsChan, resultsClosed, worker, job,
          outcome, callerVars, cancelled>>

Init ==
    /\ inputJobs = <<>> /\ inputClosed = FALSE
    /\ resultsChan = <<>> /\ resultsClosed = FALSE
    /\ worker = [w \in Workers |-> "select"]
    /\ job = [w \in Workers |-> Nil]
    /\ outcome = [i \in Inputs |-> "none"]
    /\ caller = "sending" /\ sent = 0 /\ got = 0
    /\ results = [i \in Inputs |-> Nil]
    /\ ret = "nil"
    /\ cancelled \in {FALSE, MayCancel}

------------------------------------------------------------------------------
\* sendApplyInputJobs: one buffered send per input, then close.

\* Mutant: a results channel with one slot per worker.
HasRoomPerWorker(chan) == Len(chan) < NumWorkers

HasRoom(chan) == Len(chan) < NInputs

SendJob ==
    /\ caller = "sending" /\ sent < NInputs /\ HasRoom(inputJobs)
    /\ inputJobs' = Append(inputJobs, sent + 1)
    /\ sent' = sent + 1
    /\ UNCHANGED <<inputClosed, resultsChan, resultsClosed, worker, job,
                   outcome, caller, got, results, ret, cancelled>>

CloseJobs ==
    /\ caller = "sending" /\ sent = NInputs
    /\ inputClosed' = TRUE
    /\ caller' = "collecting"
    /\ UNCHANGED <<inputJobs, resultsChan, resultsClosed, worker, job, outcome,
                   sent, got, results, ret, cancelled>>

------------------------------------------------------------------------------
\* The worker's select: with the context done and a job ready, either branch.

StopOnCancel(w) ==
    /\ worker[w] = "select" /\ cancelled
    /\ worker' = [worker EXCEPT ![w] = "done"]
    /\ UNCHANGED <<inputJobs, inputClosed, resultsChan, resultsClosed, job,
                   outcome, callerVars, cancelled>>

TakeJob(w) ==
    /\ worker[w] = "select" /\ inputJobs # <<>>
    /\ job' = [job EXCEPT ![w] = Head(inputJobs)]
    /\ inputJobs' = Tail(inputJobs)
    /\ worker' = [worker EXCEPT ![w] = "call"]
    /\ UNCHANGED <<inputClosed, resultsChan, resultsClosed, outcome,
                   callerVars, cancelled>>

\* Mutant: a receive from the closed jobs channel taken for another round.
SpinOnClosed(w) ==
    /\ worker[w] = "select" /\ inputClosed /\ inputJobs = <<>>
    /\ UNCHANGED vars

StopOnClosed(w) ==
    /\ worker[w] = "select" /\ inputClosed /\ inputJobs = <<>>
    /\ worker' = [worker EXCEPT ![w] = "done"]
    /\ UNCHANGED <<inputJobs, inputClosed, resultsChan, resultsClosed, job,
                   outcome, callerVars, cancelled>>

\* chains.Call runs to its end: a cancelled context does not interrupt it here,
\* the chain decides (either outcome is possible).
RunChain(w) ==
    /\ worker[w] = "call"
    /\ \E o \in {"ok"} \cup (IF MayFail THEN {"err"} ELSE {}) :
          outcome' = [outcome EXCEPT ![job[w]] = o]
    /\ worker' = [worker EXCEPT ![w] = "send"]
    /\ UNCHANGED <<inputJobs, inputClosed, resultsChan, resultsClosed, job,
                   callerVars, cancelled>>

ResultOf(i) == [i |-> i,
                result |-> IF outcome[i] = "ok" THEN i ELSE Nil,
                err |-> outcome[i] = "err"]

SendResult(w) ==
    /\ worker[w] = "send" /\ HasRoom(resultsChan)
    /\ resultsChan' = Append(resultsChan, ResultOf(job[w]))
    /\ job' = [job EXCEPT ![w] = Nil]
    /\ worker' = [worker EXCEPT ![w] = "select"]
    /\ UNCHANGED <<inputJobs, inputClosed, resultsClosed, outcome, callerVars,
                   cancelled>>

------------------------------------------------------------------------------
\* The closer: wg.Wait(), then close(resultsChan).

CloseResults ==
    /\ ~resultsClosed
    /\ \A w \in Workers : worker[w] = "done"
    /\ resultsClosed' = TRUE
    /\ UNCHANGED <<inputJobs, inputClosed, resultsChan, worker, job, outcome,
                   callerVars, cancelled>>

------------------------------------------------------------------------------
\* getApplyResults: len(results) iterations, each a select.

CollectCancel ==
    /\ caller = "collecting" /\ got < NInputs /\ cancelled
    /\ caller' = "returned" /\ ret' = "ctx"
    /\ UNCHANGED <<inputJobs, inputClosed, resultsChan, resultsClosed, worker,
                   job, outcome, sent, got, results, cancelled>>

\* Mutant: r.err is not looked at.
ReceiveIgnoringError(r) ==
    /\ got' = got + 1
    /\ results' = [results EXCEPT ![r.i] = r.result]
    /\ UNCHANGED <<caller, ret>>

Receive(r) ==
    /\ got' = got + 1
    /\ IF r.err
         THEN caller' = "returned" /\ ret' = "chain" /\ UNCHANGED results
         ELSE /\ results' = [results EXCEPT ![r.i] = r.result]
              /\ UNCHANGED <<caller, ret>>

CollectResult ==
    /\ caller = "collecting" /\ got < NInputs /\ resultsChan # <<>>
    /\ Receive(Head(resultsChan))
    /\ resultsChan' = Tail(resultsChan)
    /\ UNCHANGED <<inputJobs, inputClosed, resultsClosed, worker, job, outcome,
                   sent, cancelled>>

\* A receive from the closed, drained channel is ready too: `r := <-resultsChan`
\* does not test ok, so the zero applyResult counts as an answer.
CollectZero ==
    /\ caller = "collecting" /\ got < NInputs
    /\ resultsClosed /\ resultsChan = <<>>
    /\ Receive(ZeroResult)
    /\ UNCHANGED <<inputJobs, inputClosed, resultsChan, resultsClosed, worker,
                   job, outcome, sent, cancelled>>

ReturnResults ==
    /\ caller = "collecting" /\ got = NInputs
    /\ caller' = "returned"
    /\ UNCHANGED <<inputJobs, inputClosed, resultsChan, resultsClosed, worker,
                   job, outcome, sent, got, results, ret, cancelled>>

------------------------------------------------------------------------------
\* The caller's context: cancelled by anyone, at any time, for good.
Cancel ==
    /\ MayCancel /\ ~cancelled
    /\ cancelled' = TRUE
    /\ UNCHANGED <<inputJobs, inputClosed, resultsChan, resultsClosed, worker,
                   job, outcome, callerVars>>

CallerStep == \/ SendJob \/ CloseJobs \/ CollectCancel \/ CollectResult
              \/ CollectZero \/ ReturnResults

WorkerStep(w) == \/ StopOnCancel(w) \/ TakeJob(w) \/ StopOnClosed(w)
                 \/ RunChain(w) \/ SendResult(w)

AllEnded == /\ caller = "returned" /\ resultsClosed
            /\ \A w \in Workers : worker[w] = "done"

\* The call is over and every goroutine has ended.
Ended == AllEnded /\ UNCHANGED vars

Next == \/ CallerStep
        \/ \E w \in Workers : WorkerStep(w)
        \/ CloseResults
        \/ Cancel
        \/ Ended

\* The Go scheduler runs every runnable goroutine eventually, and the chain's
\* own Call is assumed to return.  Nothing obliges the context to be cancelled.
Fairness == /\ WF_vars(CallerStep)
            /\ \A w \in Workers : WF_vars(WorkerStep(w))
            /\ WF_vars(CloseResults)

Spec == Init /\ [][Next]_vars
FairSpec == Spec /\ Fairness

------------------------------------------------------------------------------
TypeOK ==
    /\ inputJobs \in Seq(Inputs) /\ inputClosed \in BOOLEAN
    /\ resultsChan \in Seq(ApplyResult) /\ resultsClosed \in BOOLEAN
    /\ worker \in [Workers -> {"select", "call", "send", "done"}]
    /\ job \in [Workers -> Inputs \cup {Nil}]
    /\ outcome \in [Inputs -> {"none", "ok", "err"}]
    /\ caller \in {"sending", "collecting", "returned"}
    /\ sent \in 0..NInputs /\ got \in 0..NInputs
    /\ results \in [Inputs -> Inputs \cup {Nil}]
    /\ ret \in {"nil", "chain", "ctx"}
    /\ cancelled \in BOOLEAN

\* What the test TestApplyWithCanceledContext expects of Apply, in the form it
\* takes for every schedule: a nil error is only returned with every result.
NilErrorMeansComplete ==
    caller = "returned" /\ ret = "nil" => \A i \in Inputs : results[i] = i

\* The same promise for an Apply whose context is never cancelled: however the
\* workers interleave, the slice is complete and in the order of the inputs.
CompleteUnlessCancelled ==
    ~cancelled => NilErrorMeansComplete

\* A result is stored at its own input's index or not at all: the workers'
\* order of completion never leaks into the slice.
NoMisplacedResult ==
    \A i \in Inputs : results[i] \in {i, Nil}

\* Where input i is: in the jobs channel, with a worker, or in the results
\* channel.  It is in at most one of them, at one place: no input is run twice.
PlacesOf(i) ==
    {<<"job", k>>    : k \in {k \in DOMAIN inputJobs : inputJobs[k] = i}} \cup
    {<<"worker", w>> : w \in {w \in Workers : job[w] = i}} \cup
    {<<"result", k>> : k \in {k \in DOMAIN resultsChan : resultsChan[k].i = i}}
NoInputTwice == \A i \in Inputs : Cardinality(PlacesOf(i)) <= 1

\* A worker that has a result to send finds room and an open channel: no worker
\* blocks for good when the caller has left early, and none panics on the send.
SendNeverBlocks ==
    \A w \in Workers :
        worker[w] = "send" => HasRoom(resultsChan) /\ ~resultsClosed

\* Whatever the outcome, Apply returns and no goroutine is left behind.
NothingLeaks == <>[]AllEnded

------------------------------------------------------------------------------
\* What the caller of Apply sees: see ApplyPromise.
answer == IF caller = "returned" THEN ret ELSE "none"
slice  == IF answer = "nil" THEN results ELSE [i \in Inputs |-> Nil]

Promise == INSTANCE ApplyPromise

\* Apply, with its channels and goroutines, implements the promise.
ImplementsPromise == Promise!Spec
==============================================================================
