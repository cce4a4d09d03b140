----------------------------- MODULE ApplyProofs -----------------------------
(***************************************************************************)
(* Proofs about Apply, for every number of inputs and of workers.          *)
(***************************************************************************)
EXTENDS Apply, FiniteSetTheorems, TLAPS

\* The jobs the workers have received, and the workers that hold one.
Taken == sent - Len(inputJobs)
Held  == {w \in Workers : job[w] # Nil}

\* The jobs channel holds the inputs in order, from Taken + 1 to sent.
JobsInOrder ==
    /\ Len(inputJobs) <= sent
    /\ \A k \in 1..Len(inputJobs) : inputJobs[k] = Taken + k

CallerInv ==
    /\ caller = "sending" => ~inputClosed
    /\ caller # "sending" => inputClosed /\ sent = NInputs
    /\ ret # "nil" => caller = "returned"
    /\ caller = "returned" /\ ret = "nil" => got = NInputs

\* A worker holds a job while it runs it and until it has sent its result.
WorkerInv ==
    \A w \in Workers :
        /\ job[w] = Nil <=> worker[w] \in {"select", "done"}
        /\ job[w] <= Taken
        /\ worker[w] = "call" => outcome[job[w]] = "none"
        /\ worker[w] = "send" => outcome[job[w]] # "none"
        /\ \A v \in Workers : v # w /\ job[v] = job[w] => job[v] = Nil

DoneInv ==
    /\ \A w \in Workers :
          worker[w] = "done" => cancelled \/ (inputClosed /\ inputJobs = <<>>)
    /\ resultsClosed => \A w \in Workers : worker[w] = "done"

\* A result in the channel is the one of a job taken, held by no worker.
ResultsInv ==
    \A k \in 1..Len(resultsChan) :
        LET i == resultsChan[k].i IN
        /\ i \in Inputs /\ i <= Taken
        /\ outcome[i] # "none"
        /\ resultsChan[k] = ResultOf(i)
        /\ \A w \in Workers : job[w] # i

OutcomeInv == \A i \in Inputs : i > Taken => outcome[i] = "none"

\* Nothing in the slice but what the chain returned, at its own index.
SliceInv ==
    /\ \A i \in Inputs : results[i] = Nil \/ (results[i] = i /\ outcome[i] = "ok")
    /\ ret = "chain" => \E i \in Inputs : outcome[i] = "err"
    /\ ret = "ctx" => cancelled

\* No zero result can have been received yet.
NoZero == ~(resultsClosed /\ cancelled)

InChannel(i) == \E k \in 1..Len(resultsChan) : resultsChan[k].i = i

\* Every job taken is with a worker, in the channel, in the slice, or was the
\* one whose error Apply returned.
StoredInv ==
    NoZero => \A i \in Inputs :
        i <= Taken => \/ \E w \in Workers : job[w] = i
                      \/ InChannel(i)
                      \/ results[i] = i
                      \/ ret = "chain"

\* ... and they add up.
CountInv ==
    NoZero => Len(resultsChan) + got + Cardinality(Held) = Taken

IInv == /\ TypeOK /\ JobsInOrder /\ CallerInv /\ WorkerInv /\ DoneInv
        /\ ResultsInv /\ OutcomeInv /\ SliceInv /\ StoredInv /\ CountInv

LEMMA WorkersFinite == NumWorkers \in Nat /\ IsFiniteSet(Workers)
  BY FS_Interval, ApplyAssumption DEF Workers, NumWorkers, DefaultMaxWorkers

LEMMA HeldFinite == IsFiniteSet(Held) /\ Cardinality(Held) \in Nat
  BY WorkersFinite, FS_Subset, FS_CardinalityType DEF Held

LEMMA ResultFields ==
    ASSUME NEW i
    PROVE  /\ ResultOf(i).i = i
           /\ ResultOf(i).result = IF outcome[i] = "ok" THEN i ELSE Nil
           /\ ResultOf(i).err = (outcome[i] = "err")
<1>1. ResultOf(i).i = i /\ ResultOf(i).result = IF outcome[i] = "ok" THEN i ELSE Nil
  BY SMT DEF ResultOf
<1>2. ResultOf(i).err = (outcome[i] = "err")
  BY Zenon DEF ResultOf
<1> QED BY <1>1, <1>2

LEMMA SendJobPreserves ==
    ASSUME IInv, SendJob
    PROVE  IInv'
<1> USE ApplyAssumption DEF IInv, TypeOK, Inputs, Nil, callerVars
<1>0. Taken' = Taken
  BY DEF Taken, SendJob
<1>1. TypeOK' BY DEF SendJob, ApplyResult
<1>2. JobsInOrder'
  <2>1. /\ inputJobs' = Append(inputJobs, sent + 1)
        /\ Len(inputJobs') = Len(inputJobs) + 1
        /\ \A k \in 1..Len(inputJobs) : inputJobs'[k] = inputJobs[k]
        /\ inputJobs'[Len(inputJobs) + 1] = sent + 1
        /\ sent' = sent + 1
    BY DEF SendJob
  <2>2. \A k \in 1..(Len(inputJobs) + 1) : inputJobs'[k] = Taken + k
    BY <2>1 DEF JobsInOrder, Taken
  <2> QED BY <1>0, <2>1, <2>2 DEF JobsInOrder
<1>3. CallerInv' BY DEF CallerInv, SendJob, Taken
<1>4. WorkerInv' BY DEF WorkerInv, SendJob, Taken
<1>5. DoneInv' BY DEF DoneInv, SendJob, CallerInv
<1>6. ResultsInv' BY DEF ResultsInv, ResultOf, ApplyResult, SendJob, Taken
<1>7. OutcomeInv' BY DEF OutcomeInv, SendJob, Taken
<1>8. SliceInv' BY DEF SliceInv, SendJob, Taken
<1>9. StoredInv' BY <1>0 DEF StoredInv, SendJob, InChannel, NoZero
<1>10. CountInv' BY DEF CountInv, Held, NoZero, SendJob, Taken
<1> QED BY <1>1, <1>2, <1>3, <1>4, <1>5, <1>6, <1>7, <1>8, <1>9, <1>10

LEMMA CloseJobsPreserves ==
    ASSUME IInv, CloseJobs
    PROVE  IInv'
<1> USE ApplyAssumption DEF IInv, TypeOK, Inputs, Nil, callerVars
<1>1. TypeOK' BY DEF CloseJobs, ApplyResult
<1>2. JobsInOrder' BY DEF JobsInOrder, CloseJobs, Taken
<1>3. CallerInv' BY DEF CallerInv, CloseJobs, Taken
<1>4. WorkerInv' BY DEF WorkerInv, CloseJobs, Taken
<1>5. DoneInv' BY DEF DoneInv, CloseJobs, Taken
<1>6. ResultsInv' BY DEF ResultsInv, ResultOf, ApplyResult, CloseJobs, Taken
<1>7. OutcomeInv' BY DEF OutcomeInv, CloseJobs, Taken
<1>8. SliceInv' BY DEF SliceInv, CloseJobs, Taken
<1>9. StoredInv' BY DEF StoredInv, InChannel, NoZero, CloseJobs, Taken
<1>10. CountInv' BY DEF CountInv, Held, NoZero, CloseJobs, Taken
<1> QED BY <1>1, <1>2, <1>3, <1>4, <1>5, <1>6, <1>7, <1>8, <1>9, <1>10

LEMMA StopOnCancelPreserves ==
    ASSUME IInv, NEW w \in Workers, StopOnCancel(w)
    PROVE  IInv'
<1> USE ApplyAssumption DEF IInv, TypeOK, Inputs, Nil, callerVars
<1>1. TypeOK' BY DEF StopOnCancel, ApplyResult
<1>2. JobsInOrder' BY DEF JobsInOrder, StopOnCancel, Taken
<1>3. CallerInv' BY DEF CallerInv, StopOnCancel, Taken
<1>4. WorkerInv' BY DEF WorkerInv, StopOnCancel, Taken
<1>5. DoneInv' BY DEF DoneInv, StopOnCancel, Taken
<1>6. ResultsInv' BY DEF ResultsInv, ResultOf, ApplyResult, StopOnCancel, Taken
<1>7. OutcomeInv' BY DEF OutcomeInv, StopOnCancel, Taken
<1>8. SliceInv' BY DEF SliceInv, StopOnCancel, Taken
<1>9. StoredInv' BY DEF StoredInv, InChannel, NoZero, StopOnCancel, Taken
<1>10. CountInv' BY DEF CountInv, Held, NoZero, StopOnCancel, Taken
<1> QED BY <1>1, <1>2, <1>3, <1>4, <1>5, <1>6, <1>7, <1>8, <1>9, <1>10

LEMMA TakeJobPreserves ==
    ASSUME IInv, NEW w \in Workers, TakeJob(w)
    PROVE  IInv'
<1> USE ApplyAssumption DEF IInv, TypeOK, Inputs, Nil, callerVars
<1>a. Taken' = Taken + 1 /\ Taken \in Nat
  BY DEF Taken, TakeJob, JobsInOrder
<1>b. job'[w] = Taken + 1 /\ Taken + 1 \in Inputs
  BY DEF Taken, TakeJob, JobsInOrder
<1>c. \A v \in Workers : v # w => job'[v] = job[v] /\ worker'[v] = worker[v]
  BY DEF TakeJob
<1>d. job[w] = Nil /\ worker'[w] = "call"
  BY DEF TakeJob, WorkerInv
<1>1. TypeOK' BY DEF TakeJob, ApplyResult
<1>2. JobsInOrder' BY DEF JobsInOrder, TakeJob, Taken
<1>3. CallerInv' BY DEF CallerInv, TakeJob, Taken
<1>4. WorkerInv'
  <2>1. outcome[Taken + 1] = "none"
    BY <1>b, <1>a DEF OutcomeInv
  <2>2. \A v \in Workers : job[v] <= Taken /\ job[v] # Taken + 1
    BY <1>a, <1>b DEF WorkerInv
  <2> QED BY <1>a, <1>b, <1>c, <1>d, <2>1, <2>2 DEF WorkerInv, TakeJob
<1>5. DoneInv' BY DEF DoneInv, TakeJob, Taken
<1>6. ResultsInv'
  <2>1. UNCHANGED <<resultsChan, outcome>>
    BY DEF TakeJob
  <2>2. \A i : ResultOf(i)' = ResultOf(i)
    BY <2>1 DEF ResultOf
  <2> QED BY <2>1, <2>2, <1>a, <1>b, <1>c DEF ResultsInv, ApplyResult
<1>7. OutcomeInv' BY DEF OutcomeInv, TakeJob, Taken
<1>8. SliceInv' BY DEF SliceInv, TakeJob, Taken
<1>9. StoredInv'
  <2>1. \A i \in Inputs : InChannel(i)' = InChannel(i)
    BY DEF InChannel, TakeJob
  <2>2. UNCHANGED <<results, ret, NoZero>>
    BY DEF TakeJob, NoZero
  <2> SUFFICES ASSUME NoZero, NEW j \in Inputs, j <= Taken + 1
               PROVE  \/ \E v \in Workers : job'[v] = j
                      \/ InChannel(j)'
                      \/ results[j] = j
                      \/ ret = "chain"
    BY <2>2, <1>a DEF StoredInv
  <2>3. CASE j = Taken + 1
    BY <2>3, <1>b
  <2>4. CASE j <= Taken
    <3>1. (\E v \in Workers : job[v] = j) => \E v \in Workers : job'[v] = j
      BY <1>c, <1>d
    <3> QED BY <2>1, <2>4, <3>1 DEF StoredInv
  <2> QED BY <2>3, <2>4, <1>a
<1>10. CountInv'
  <2>1. Held' = Held \cup {w} /\ w \notin Held
    BY <1>b, <1>c, <1>d, <1>a DEF Held
  <2>2. Cardinality(Held') = Cardinality(Held) + 1
    BY <2>1, HeldFinite, FS_AddElement
  <2>3. UNCHANGED <<resultsChan, got, NoZero>>
    BY DEF TakeJob, NoZero
  <2>4. Len(resultsChan) \in Nat
    OBVIOUS
  <2> QED BY <2>2, <2>3, <2>4, <1>a, HeldFinite DEF CountInv
<1> QED BY <1>1, <1>2, <1>3, <1>4, <1>5, <1>6, <1>7, <1>8, <1>9, <1>10

LEMMA StopOnClosedPreserves ==
    ASSUME IInv, NEW w \in Workers, StopOnClosed(w)
    PROVE  IInv'
<1> USE ApplyAssumption DEF IInv, TypeOK, Inputs, Nil, callerVars
<1>1. TypeOK' BY DEF StopOnClosed, ApplyResult
<1>2. JobsInOrder' BY DEF JobsInOrder, StopOnClosed, Taken
<1>3. CallerInv' BY DEF CallerInv, StopOnClosed, Taken
<1>4. WorkerInv' BY DEF WorkerInv, StopOnClosed, Taken
<1>5. DoneInv' BY DEF DoneInv, StopOnClosed, Taken
<1>6. ResultsInv' BY DEF ResultsInv, ResultOf, ApplyResult, StopOnClosed, Taken
<1>7. OutcomeInv' BY DEF OutcomeInv, StopOnClosed, Taken
<1>8. SliceInv' BY DEF SliceInv, StopOnClosed, Taken
<1>9. StoredInv' BY DEF StoredInv, InChannel, NoZero, StopOnClosed, Taken
<1>10. CountInv' BY DEF CountInv, Held, NoZero, StopOnClosed, Taken
<1> QED BY <1>1, <1>2, <1>3, <1>4, <1>5, <1>6, <1>7, <1>8, <1>9, <1>10

LEMMA RunChainPreserves ==
    ASSUME IInv, NEW w \in Workers, RunChain(w)
    PROVE  IInv'
<1> USE ApplyAssumption DEF IInv, TypeOK, Inputs, Nil, callerVars
<1>a. job[w] \in Inputs /\ job[w] <= Taken /\ outcome[job[w]] = "none"
  BY DEF RunChain, WorkerInv
<1>b. /\ outcome' \in [Inputs -> {"none", "ok", "err"}]
      /\ outcome'[job[w]] # "none"
      /\ \A i \in Inputs : i # job[w] => outcome'[i] = outcome[i]
  <2>1. PICK o \in {"ok", "err"} : outcome' = [outcome EXCEPT ![job[w]] = o]
    BY DEF RunChain
  <2> QED BY <1>a, <2>1
<1>c. UNCHANGED <<inputJobs, sent, resultsChan, job, results, ret, cancelled, Taken>>
  BY DEF RunChain, Taken
<1>1. TypeOK' BY <1>b DEF RunChain
<1>2. JobsInOrder' BY DEF JobsInOrder, RunChain, Taken
<1>3. CallerInv' BY DEF CallerInv, RunChain, Taken
<1>4. WorkerInv' BY DEF WorkerInv, RunChain, Taken
<1>5. DoneInv' BY DEF DoneInv, RunChain, Taken
<1>6. ResultsInv'
  <2> SUFFICES ASSUME NEW k \in 1..Len(resultsChan)
               PROVE  LET i == resultsChan[k].i IN
                      /\ i \in Inputs /\ i <= Taken
                      /\ outcome'[i] # "none"
                      /\ resultsChan[k] = ResultOf(i)'
                      /\ \A v \in Workers : job[v] # i
    BY <1>c DEF ResultsInv
  <2>1. resultsChan[k].i # job[w]
    BY DEF ResultsInv
  <2>2. outcome'[resultsChan[k].i] = outcome[resultsChan[k].i]
    BY <1>b, <2>1 DEF ResultsInv
  <2>3. ResultOf(resultsChan[k].i)' = ResultOf(resultsChan[k].i)
    BY <2>2, <1>c DEF ResultOf
  <2> QED BY <2>2, <2>3 DEF ResultsInv
<1>7. OutcomeInv' BY <1>a, <1>b, <1>c DEF OutcomeInv, Taken
<1>8. SliceInv'
  <2>1. \A i \in Inputs : outcome[i] # "none" => outcome'[i] = outcome[i]
    BY <1>a, <1>b
  <2> QED BY <2>1, <1>c DEF SliceInv
<1>9. StoredInv' BY DEF StoredInv, InChannel, NoZero, RunChain, Taken
<1>10. CountInv' BY DEF CountInv, Held, NoZero, RunChain, Taken
<1> QED BY <1>1, <1>2, <1>3, <1>4, <1>5, <1>6, <1>7, <1>8, <1>9, <1>10

LEMMA SendResultPreserves ==
    ASSUME IInv, NEW w \in Workers, SendResult(w)
    PROVE  IInv'
<1> USE ApplyAssumption DEF IInv, TypeOK, Inputs, Nil, callerVars
<1> SUFFICES ASSUME NEW i, i = job[w] PROVE IInv'
  OBVIOUS
<1>a. i \in Inputs /\ i <= Taken /\ outcome[i] # "none"
  BY DEF SendResult, WorkerInv
<1>b. ResultOf(i) \in ApplyResult /\ ResultOf(i).i = i
  BY <1>a DEF ResultOf, ApplyResult
<1>c. /\ resultsChan' = Append(resultsChan, ResultOf(i))
      /\ resultsChan' \in Seq(ApplyResult)
      /\ Len(resultsChan') = Len(resultsChan) + 1
      /\ \A k \in 1..Len(resultsChan) : resultsChan'[k] = resultsChan[k]
      /\ resultsChan'[Len(resultsChan) + 1] = ResultOf(i)
  BY <1>b DEF SendResult
<1>d. UNCHANGED <<inputJobs, sent, outcome, results, ret, got, cancelled, resultsClosed, Taken>>
  BY DEF SendResult, Taken
<1>e. /\ job'[w] = Nil
      /\ \A v \in Workers : v # w => job'[v] = job[v] /\ job[v] # i
  BY <1>a DEF SendResult, WorkerInv
<1>1. TypeOK' BY <1>c DEF SendResult
<1>2. JobsInOrder' BY DEF JobsInOrder, SendResult, HasRoom, Taken
<1>3. CallerInv' BY DEF CallerInv, SendResult, HasRoom, Taken
<1>4. WorkerInv' BY DEF WorkerInv, SendResult, HasRoom, Taken
<1>5. DoneInv' BY DEF DoneInv, SendResult, HasRoom, Taken
<1>6. ResultsInv'
  <2>1. \A j : ResultOf(j)' = ResultOf(j)
    BY <1>d DEF ResultOf
  <2> SUFFICES ASSUME NEW k \in 1..(Len(resultsChan) + 1)
               PROVE  LET j == resultsChan'[k].i IN
                      /\ j \in Inputs /\ j <= Taken
                      /\ outcome[j] # "none"
                      /\ resultsChan'[k] = ResultOf(j)
                      /\ \A v \in Workers : job'[v] # j
    BY <1>c, <1>d, <2>1 DEF ResultsInv
  <2>2. CASE k = Len(resultsChan) + 1
    <3>1. resultsChan'[k] = ResultOf(i) /\ resultsChan'[k].i = i
      BY <2>2, <1>b, <1>c
    <3>2. \A v \in Workers : job'[v] # i
      <4>1. i # Nil
        BY <1>a
      <4>2. ASSUME NEW v \in Workers, v # w PROVE job'[v] # i
        BY <1>e, <4>2, Zenon
      <4> QED BY <4>1, <4>2, <1>e, Zenon
    <3> QED BY <3>1, <3>2, <1>a
  <2>3. CASE k \in 1..Len(resultsChan)
    BY <2>3, <1>a, <1>c, <1>e DEF ResultsInv
  <2> QED BY <2>2, <2>3
<1>7. OutcomeInv' BY DEF OutcomeInv, SendResult, HasRoom, Taken
<1>8. SliceInv' BY DEF SliceInv, SendResult, HasRoom, Taken
<1>9. StoredInv'
  <2>1. InChannel(i)'
    <3>1. Len(resultsChan') \in 1..Len(resultsChan')
      BY <1>c
    <3> QED BY <3>1, <1>b, <1>c DEF InChannel
  <2>2. \A j \in Inputs : InChannel(j) => InChannel(j)'
    BY <1>c DEF InChannel
  <2>3. UNCHANGED NoZero
    BY <1>d DEF NoZero
  <2>4. \A j \in Inputs :
          (\E v \in Workers : job[v] = j) => (\E v \in Workers : job'[v] = j) \/ j = i
    BY <1>e
  <2> QED BY <2>1, <2>2, <2>3, <2>4, <1>d DEF StoredInv
<1>10. CountInv'
  <2>1. Held' = Held \ {w} /\ w \in Held
    BY <1>a, <1>e DEF Held
  <2>2. Cardinality(Held') = Cardinality(Held) - 1
    BY <2>1, HeldFinite, FS_RemoveElement
  <2> QED BY <2>2, <1>c, <1>d, HeldFinite DEF CountInv, NoZero
<1> QED BY <1>1, <1>2, <1>3, <1>4, <1>5, <1>6, <1>7, <1>8, <1>9, <1>10

LEMMA CloseResultsPreserves ==
    ASSUME IInv, CloseResults
    PROVE  IInv'
<1> USE ApplyAssumption DEF IInv, TypeOK, Inputs, Nil, callerVars
<1>1. TypeOK' BY DEF CloseResults, ApplyResult
<1>2. JobsInOrder' BY DEF JobsInOrder, CloseResults, Taken
<1>3. CallerInv' BY DEF CallerInv, CloseResults, Taken
<1>4. WorkerInv' BY DEF WorkerInv, CloseResults, Taken
<1>5. DoneInv' BY DEF DoneInv, CloseResults, Taken
<1>6. ResultsInv' BY DEF ResultsInv, ResultOf, ApplyResult, CloseResults, Taken
<1>7. OutcomeInv' BY DEF OutcomeInv, CloseResults, Taken
<1>8. SliceInv' BY DEF SliceInv, CloseResults, Taken
<1>9. StoredInv' BY DEF StoredInv, InChannel, NoZero, CloseResults, Taken
<1>10. CountInv' BY DEF CountInv, Held, NoZero, CloseResults, Taken
<1> QED BY <1>1, <1>2, <1>3, <1>4, <1>5, <1>6, <1>7, <1>8, <1>9, <1>10

LEMMA CollectCancelPreserves ==
    ASSUME IInv, CollectCancel
    PROVE  IInv'
<1> USE ApplyAssumption DEF IInv, TypeOK, Inputs, Nil, callerVars
<1>a. UNCHANGED <<Taken, job, results>> /\ ret = "nil"
  BY DEF CollectCancel, Taken, CallerInv
<1>b. \A j \in Inputs : InChannel(j)' = InChannel(j)
  BY DEF InChannel, CollectCancel
<1>1. TypeOK' BY DEF CollectCancel, ApplyResult
<1>2. JobsInOrder' BY DEF JobsInOrder, CollectCancel, Taken
<1>3. CallerInv' BY DEF CallerInv, CollectCancel, Taken
<1>4. WorkerInv' BY DEF WorkerInv, CollectCancel, Taken
<1>5. DoneInv' BY DEF DoneInv, CollectCancel, Taken
<1>6. ResultsInv' BY DEF ResultsInv, ResultOf, ApplyResult, CollectCancel, Taken
<1>7. OutcomeInv' BY DEF OutcomeInv, CollectCancel, Taken
<1>8. SliceInv' BY DEF SliceInv, CollectCancel, Taken
<1>9. StoredInv'
  <2>1. ret' = "ctx" /\ UNCHANGED NoZero
    BY DEF CollectCancel, NoZero
  <2> QED BY <1>a, <1>b, <2>1 DEF StoredInv
<1>10. CountInv' BY DEF CountInv, Held, NoZero, CollectCancel, Taken
<1> QED BY <1>1, <1>2, <1>3, <1>4, <1>5, <1>6, <1>7, <1>8, <1>9, <1>10

LEMMA CollectResultPreserves ==
    ASSUME IInv, CollectResult
    PROVE  IInv'
<1> USE ApplyAssumption DEF IInv, TypeOK, Inputs, Nil, callerVars
<1> DEFINE r == Head(resultsChan)
<1>a. /\ r = resultsChan[1] /\ r \in ApplyResult
      /\ resultsChan' = Tail(resultsChan)
      /\ resultsChan' \in Seq(ApplyResult)
      /\ Len(resultsChan') = Len(resultsChan) - 1
      /\ \A k \in 1..(Len(resultsChan) - 1) : resultsChan'[k] = resultsChan[k + 1]
      /\ Len(resultsChan) >= 1
  BY DEF CollectResult
<1>b. r.i \in Inputs /\ r = ResultOf(r.i) /\ outcome[r.i] # "none"
  BY <1>a DEF ResultsInv
<1>c. /\ r.err => outcome[r.i] = "err"
      /\ ~r.err => r.result = r.i /\ outcome[r.i] = "ok"
  <2>0. PICK j \in Inputs : j = r.i /\ r = ResultOf(j)
    BY <1>b
  <2>1. r.err = (outcome[r.i] = "err")
    BY <2>0, ResultFields
  <2>2. r.result = IF outcome[r.i] = "ok" THEN r.i ELSE Nil
    BY <2>0, ResultFields
  <2>3. r.err \in BOOLEAN
    BY <1>a DEF ApplyResult
  <2> QED BY <2>1, <2>2, <2>3, <1>b
<1>d. UNCHANGED <<inputJobs, sent, outcome, job, resultsClosed, cancelled, Taken>>
  BY DEF CollectResult, Taken
<1>e. ret = "nil"
  BY DEF CollectResult, CallerInv
<1>f. /\ r.err => ret' = "chain" /\ results' = results
      /\ ~r.err => ret' = ret /\ results' = [results EXCEPT ![r.i] = r.i]
  BY <1>c DEF CollectResult, Receive
<1>1. TypeOK'
  <2>1. results' \in [Inputs -> Inputs \cup {Nil}]
    BY <1>b, <1>f, <1>a DEF ApplyResult
  <2>2. caller' \in {"sending", "collecting", "returned"} /\ ret' \in {"nil", "chain", "ctx"}
    BY DEF CollectResult, Receive
  <2> QED BY <1>a, <2>1, <2>2 DEF CollectResult, Receive
<1>2. JobsInOrder' BY DEF JobsInOrder, CollectResult, Receive, Taken
<1>3. CallerInv' BY DEF CallerInv, CollectResult, Receive, Taken
<1>4. WorkerInv' BY DEF WorkerInv, CollectResult, Receive, Taken
<1>5. DoneInv' BY DEF DoneInv, CollectResult, Receive, Taken
<1>6. ResultsInv' BY DEF ResultsInv, ResultOf, ApplyResult, CollectResult, Receive, Taken
<1>7. OutcomeInv' BY DEF OutcomeInv, CollectResult, Receive, Taken
<1>8. SliceInv'
  <2>1. CASE r.err
    BY <2>1, <1>b, <1>c, <1>d, <1>f DEF SliceInv
  <2>2. CASE ~r.err
    BY <2>2, <1>b, <1>c, <1>d, <1>e, <1>f DEF SliceInv
  <2> QED BY <2>1, <2>2, <1>a DEF ApplyResult
<1>9. StoredInv'
  <2>1. CASE r.err
    BY <2>1, <1>f DEF StoredInv
  <2>2. CASE ~r.err
    <3>1. \A j \in Inputs : InChannel(j) => InChannel(j)' \/ j = r.i
      <4> SUFFICES ASSUME NEW j \in Inputs, NEW k \in 1..Len(resultsChan),
                          resultsChan[k].i = j, j # r.i
                   PROVE  InChannel(j)'
        BY DEF InChannel
      <4>1. k # 1
        BY <1>a
      <4>2. k - 1 \in 1..Len(resultsChan') /\ resultsChan'[k - 1] = resultsChan[k]
        BY <4>1, <1>a
      <4> QED BY <4>2 DEF InChannel
    <3>2. \A j \in Inputs : results'[j] = IF j = r.i THEN j ELSE results[j]
      BY <2>2, <1>b, <1>f
    <3> QED BY <2>2, <3>1, <3>2, <1>d, <1>e, <1>f DEF StoredInv, NoZero
  <2> QED BY <2>1, <2>2, <1>a DEF ApplyResult
<1>10. CountInv' 
  BY <1>a, <1>d, HeldFinite DEF CountInv, NoZero, Held, CollectResult, Receive
<1> QED BY <1>1, <1>2, <1>3, <1>4, <1>5, <1>6, <1>7, <1>8, <1>9, <1>10

\* Only a cancelled Apply can receive a zero result: when all workers are done
\* and the context is not, every result has been received already.
LEMMA ZeroOnlyWhenCancelled ==
    ASSUME IInv, CollectZero
    PROVE  cancelled
<1> USE ApplyAssumption DEF IInv, TypeOK, Inputs, Nil
<1> SUFFICES ASSUME ~cancelled PROVE FALSE
  OBVIOUS
<1>1. \A w \in Workers : worker[w] = "done" /\ job[w] = Nil
  BY DEF CollectZero, DoneInv, WorkerInv
<1>2. Cardinality(Held) = 0
  BY <1>1, FS_EmptySet DEF Held
<1>3. resultsChan = <<>> /\ Len(resultsChan) = 0
  BY DEF CollectZero
<1>4. got = Taken
  BY <1>2, <1>3 DEF CountInv, NoZero, Taken, JobsInOrder
<1>5. CASE Workers = {}
  <2>1. NumWorkers \in Nat /\ NumWorkers >= 1
    BY DEF NumWorkers, DefaultMaxWorkers
  <2>2. 1 \in Workers
    BY <2>1 DEF Workers
  <2> QED BY <2>2, <1>5
<1>6. CASE Workers # {}
  <2>1. inputJobs = <<>> /\ Len(inputJobs) = 0
    BY <1>1, <1>6 DEF DoneInv
  <2> QED BY <2>1, <1>4 DEF Taken, CallerInv, CollectZero
<1> QED BY <1>5, <1>6

LEMMA CollectZeroPreserves ==
    ASSUME IInv, CollectZero
    PROVE  IInv'
<1> USE ApplyAssumption DEF IInv, TypeOK, Inputs, Nil, callerVars
<1>a. ~NoZero'
  BY ZeroOnlyWhenCancelled DEF NoZero, CollectZero
<1>1. TypeOK' BY DEF CollectZero, Receive, ZeroResult, ApplyResult
<1>2. JobsInOrder' BY DEF JobsInOrder, CollectZero, Receive, ZeroResult, Taken
<1>3. CallerInv' BY DEF CallerInv, CollectZero, Receive, ZeroResult, Taken
<1>4. WorkerInv' BY DEF WorkerInv, CollectZero, Receive, ZeroResult, Taken
<1>5. DoneInv' BY DEF DoneInv, CollectZero, Receive, ZeroResult, Taken
<1>6. ResultsInv' BY DEF ResultsInv, ResultOf, ApplyResult, CollectZero, Receive, ZeroResult, Taken
<1>7. OutcomeInv' BY DEF OutcomeInv, CollectZero, Receive, ZeroResult, Taken
<1>8. SliceInv' BY DEF SliceInv, CollectZero, Receive, ZeroResult, Taken
<1>9. StoredInv' BY <1>a DEF StoredInv
<1>10. CountInv' BY <1>a DEF CountInv
<1> QED BY <1>1, <1>2, <1>3, <1>4, <1>5, <1>6, <1>7, <1>8, <1>9, <1>10

LEMMA ReturnResultsPreserves ==
    ASSUME IInv, ReturnResults
    PROVE  IInv'
<1> USE ApplyAssumption DEF IInv, TypeOK, Inputs, Nil, callerVars
<1>1. TypeOK' BY DEF ReturnResults, ApplyResult
<1>2. JobsInOrder' BY DEF JobsInOrder, ReturnResults, Taken
<1>3. CallerInv' BY DEF CallerInv, ReturnResults, Taken
<1>4. WorkerInv' BY DEF WorkerInv, ReturnResults, Taken
<1>5. DoneInv' BY DEF DoneInv, ReturnResults, Taken
<1>6. ResultsInv' BY DEF ResultsInv, ResultOf, ApplyResult, ReturnResults, Taken
<1>7. OutcomeInv' BY DEF OutcomeInv, ReturnResults, Taken
<1>8. SliceInv' BY DEF SliceInv, ReturnResults, Taken
<1>9. StoredInv' BY DEF StoredInv, InChannel, NoZero, ReturnResults, Taken
<1>10. CountInv' BY DEF CountInv, Held, NoZero, ReturnResults, Taken
<1> QED BY <1>1, <1>2, <1>3, <1>4, <1>5, <1>6, <1>7, <1>8, <1>9, <1>10

LEMMA CancelPreserves ==
    ASSUME IInv, Cancel
    PROVE  IInv'
<1> USE ApplyAssumption DEF IInv, TypeOK, Inputs, Nil, callerVars
<1>1. TypeOK' BY DEF Cancel, ApplyResult
<1>2. JobsInOrder' BY DEF JobsInOrder, Cancel, Taken
<1>3. CallerInv' BY DEF CallerInv, Cancel, Taken
<1>4. WorkerInv' BY DEF WorkerInv, Cancel, Taken
<1>5. DoneInv' BY DEF DoneInv, Cancel, Taken
<1>6. ResultsInv' BY DEF ResultsInv, ResultOf, ApplyResult, Cancel, Taken
<1>7. OutcomeInv' BY DEF OutcomeInv, Cancel, Taken
<1>8. SliceInv' BY DEF SliceInv, Cancel, Taken
<1>9. StoredInv' BY DEF StoredInv, InChannel, NoZero, Cancel, Taken
<1>10. CountInv' BY DEF CountInv, Held, NoZero, Cancel, Taken
<1> QED BY <1>1, <1>2, <1>3, <1>4, <1>5, <1>6, <1>7, <1>8, <1>9, <1>10

------------------------------------------------------------------------------
LEMMA InitIInv == Init => IInv
<1> SUFFICES ASSUME Init PROVE IInv
  OBVIOUS
<1> USE ApplyAssumption DEF Init, Inputs, Nil, Taken
<1>1. TypeOK
  <2>1. \A S : <<>> \in Seq(S)
    OBVIOUS
  <2>2. cancelled \in BOOLEAN
    BY Zenon DEF ApplyAssumption
  <2>3. sent \in 0..NInputs /\ got \in 0..NInputs
    OBVIOUS
  <2>4. /\ worker \in [Workers -> {"select", "call", "send", "done"}]
        /\ job \in [Workers -> Inputs \cup {Nil}]
        /\ outcome \in [Inputs -> {"none", "ok", "err"}]
        /\ results \in [Inputs -> Inputs \cup {Nil}]
    OBVIOUS
  <2> QED BY <2>1, <2>2, <2>3, <2>4, Zenon DEF TypeOK
<1>2. Held = {}
  BY DEF Held
<1>3. CountInv
  BY <1>2, FS_EmptySet DEF CountInv
<1>4. JobsInOrder /\ CallerInv /\ DoneInv /\ OutcomeInv /\ StoredInv
  BY DEF JobsInOrder, CallerInv, DoneInv, OutcomeInv, StoredInv
<1>5. WorkerInv /\ ResultsInv /\ SliceInv
  BY DEF WorkerInv, ResultsInv, SliceInv
<1> QED BY <1>1, <1>3, <1>4, <1>5 DEF IInv

LEMMA NextIInv == IInv /\ [Next]_vars => IInv'
<1> SUFFICES ASSUME IInv, [Next]_vars PROVE IInv'
  OBVIOUS
<1>1. CASE CallerStep
  BY <1>1, SendJobPreserves, CloseJobsPreserves, CollectCancelPreserves,
     CollectResultPreserves, CollectZeroPreserves, ReturnResultsPreserves
  DEF CallerStep
<1>2. CASE \E w \in Workers : WorkerStep(w)
  BY <1>2, StopOnCancelPreserves, TakeJobPreserves, StopOnClosedPreserves,
     RunChainPreserves, SendResultPreserves
  DEF WorkerStep
<1>3. CASE CloseResults
  BY <1>3, CloseResultsPreserves
<1>4. CASE Cancel
  BY <1>4, CancelPreserves
<1>5. CASE UNCHANGED vars
  BY <1>5 DEF vars, callerVars, IInv, TypeOK, JobsInOrder, CallerInv,
     WorkerInv, DoneInv, ResultsInv, OutcomeInv, SliceInv, StoredInv, CountInv,
     Taken, Held, NoZero, InChannel, ResultOf
<1> QED BY <1>1, <1>2, <1>3, <1>4, <1>5 DEF Next, Ended

\* The inductive invariant: the rest of the module rests on it.
THEOREM Invariance == Spec => []IInv
  BY InitIInv, NextIInv, PTL DEF Spec

\* Every variable keeps its type, for any number of inputs and of workers.
THEOREM TypeCorrect == Spec => []TypeOK
<1>1. IInv => TypeOK BY DEF IInv
<1> QED BY <1>1, Invariance, PTL

\* A result is at its own input's index, or the entry is nil: the order in
\* which workers finish never shows in the slice, cancelled or not.
THEOREM ResultsInPlace == Spec => []NoMisplacedResult
<1>1. IInv => NoMisplacedResult
  BY DEF IInv, SliceInv, NoMisplacedResult, Nil
<1> QED BY <1>1, Invariance, PTL

LEMMA CompleteState == IInv => CompleteUnlessCancelled
<1> SUFFICES ASSUME IInv, ~cancelled, caller = "returned", ret = "nil",
                    NEW i \in Inputs
             PROVE  results[i] = i
  BY DEF CompleteUnlessCancelled, NilErrorMeansComplete
<1> USE DEF IInv, TypeOK, Inputs
<1>1. NoZero /\ Len(resultsChan) \in Nat
  BY DEF NoZero
<1>2. got = NInputs /\ sent = NInputs
  BY DEF CallerInv
<1>3. Len(resultsChan) + Cardinality(Held) + Len(inputJobs) = 0 /\ Taken = NInputs
  <2>1. Len(inputJobs) \in Nat /\ Cardinality(Held) \in Nat
    BY HeldFinite
  <2>2. Len(resultsChan) + NInputs + Cardinality(Held) = NInputs - Len(inputJobs)
    BY <1>1, <1>2 DEF CountInv, Taken
  <2>3. Len(resultsChan) + Cardinality(Held) + Len(inputJobs) = 0
    BY <1>1, <2>1, <2>2, ApplyAssumption
  <2>4. Len(inputJobs) = 0
    BY <1>1, <2>1, <2>3
  <2> QED BY <1>2, <2>3, <2>4, ApplyAssumption DEF Taken
<1>4. Cardinality(Held) = 0 /\ Len(resultsChan) = 0
  BY <1>1, <1>3, HeldFinite
<1>5. Held = {}
  BY <1>4, HeldFinite, FS_EmptySet
<1>6. ~InChannel(i) /\ \A w \in Workers : job[w] # i
  BY <1>4, <1>5 DEF InChannel, Held, Nil
<1> QED BY <1>1, <1>3, <1>6, ApplyAssumption DEF StoredInv

\* An Apply that is not cancelled and returns a nil error returns the result of
\* every input, in the inputs' order, whatever the workers' interleaving.
THEOREM Complete == Spec => []CompleteUnlessCancelled
  BY CompleteState, Invariance, PTL

LEMMA RoomState == IInv => SendNeverBlocks
<1> SUFFICES ASSUME IInv, NEW w \in Workers, worker[w] = "send"
             PROVE  HasRoom(resultsChan) /\ ~resultsClosed
  BY DEF SendNeverBlocks
<1> USE DEF IInv, TypeOK
<1>1. ~resultsClosed
  BY DEF DoneInv
<1>2. Held # {}
  BY DEF Held, WorkerInv
<1>3. Cardinality(Held) # 0
  BY <1>2, HeldFinite, FS_EmptySet
<1>4. Taken <= NInputs /\ Taken \in Int
  BY ApplyAssumption DEF Taken, JobsInOrder
<1> QED BY <1>1, <1>3, <1>4, HeldFinite, ApplyAssumption
        DEF CountInv, NoZero, HasRoom

\* The results channel has room for every worker that has a result, and is open:
\* a worker neither blocks for good after an early return nor panics.
THEOREM SendsNeverBlock == Spec => []SendNeverBlocks
  BY RoomState, Invariance, PTL

------------------------------------------------------------------------------
\* Refinement: every step of Apply is a step of ApplyPromise or leaves what the
\* caller sees alone.

LEMMA InitPromise == Init => Promise!Init
  BY ApplyAssumption, Zenon DEF Init, Promise!Init, Promise!Inputs,
     Promise!Nil, Inputs, Nil, answer, slice

\* Before Apply returns, nothing in its slice can be seen.
LEMMA Unanswered ==
    ASSUME caller # "returned", caller' # "returned"
    PROVE  UNCHANGED <<answer, slice>>
  BY DEF answer, slice

LEMMA RunChainPromise ==
    ASSUME IInv, NEW w \in Workers, RunChain(w)
    PROVE  Promise!RunOn(job[w]) /\ job[w] \in Promise!Inputs
<1>1. job[w] \in Inputs /\ outcome[job[w]] = "none"
  BY DEF RunChain, IInv, WorkerInv, TypeOK, Nil
<1>2. \E o \in {"ok", "err"} : outcome' = [outcome EXCEPT ![job[w]] = o]
  BY DEF RunChain
<1>3. UNCHANGED <<cancelled, answer, slice>>
  BY DEF RunChain, callerVars, answer, slice
<1> QED BY <1>1, <1>2, <1>3 DEF Promise!RunOn, Promise!Inputs, Inputs

LEMMA CollectResultPromise ==
    ASSUME IInv, CollectResult
    PROVE  Promise!AnswerError \/ UNCHANGED Promise!vars
<1> DEFINE r == Head(resultsChan)
<1>1. UNCHANGED <<outcome, cancelled>> /\ caller = "collecting"
  BY DEF CollectResult
<1>2. CASE r.err
  <2>1. caller' = "returned" /\ ret' = "chain"
    BY <1>2 DEF CollectResult, Receive
  <2>2. IInv'
    BY CollectResultPreserves
  <2>3. \E i \in Inputs : outcome[i] = "err"
    BY <1>1, <2>1, <2>2 DEF IInv, SliceInv
  <2>4. answer = "none" /\ answer' = "chain" /\ UNCHANGED slice
    BY <1>1, <2>1 DEF answer, slice
  <2> QED BY <1>1, <2>3, <2>4 DEF Promise!AnswerError, Promise!Inputs, Inputs
<1>3. CASE ~r.err
  <2>1. caller' = "collecting"
    BY <1>1, <1>3 DEF CollectResult, Receive
  <2> QED BY <1>1, <2>1, Unanswered DEF Promise!vars
<1> QED BY <1>2, <1>3

LEMMA ReturnResultsPromise ==
    ASSUME IInv, ReturnResults
    PROVE  Promise!AnswerAll \/ Promise!AnswerWithHoles
<1>1. /\ UNCHANGED <<outcome, cancelled, results, ret>>
      /\ ret = "nil" /\ caller = "collecting" /\ caller' = "returned"
  BY DEF ReturnResults, IInv, CallerInv
<1>2. answer = "none" /\ answer' = "nil" /\ slice' = results
  BY <1>1 DEF answer, slice
<1> DEFINE S == {i \in Inputs : results[i] = i}
<1>3. Promise!Answered(S)
  <2>1. \A i \in S : outcome[i] = "ok"
    BY DEF IInv, SliceInv, Inputs, Nil
  <2>2. results = [i \in Inputs |-> IF i \in S THEN i ELSE Nil]
    BY DEF IInv, TypeOK, SliceInv
  <2> QED BY <1>2, <2>1, <2>2 DEF Promise!Answered, Promise!Inputs,
                                  Promise!Nil, Inputs, Nil
<1>4. CASE cancelled
  BY <1>1, <1>2, <1>3, <1>4 DEF Promise!AnswerWithHoles, Promise!Inputs, Inputs
<1>5. CASE ~cancelled
  <2>1. IInv'
    BY ReturnResultsPreserves
  <2>2. CompleteUnlessCancelled'
    BY <2>1, CompleteState, PTL
  <2>3. S = Inputs
    BY <1>1, <1>5, <2>2 DEF CompleteUnlessCancelled, NilErrorMeansComplete
  <2> QED BY <1>1, <1>2, <1>3, <2>3 DEF Promise!AnswerAll, Promise!Inputs, Inputs
<1> QED BY <1>4, <1>5

LEMMA NextPromise == IInv /\ [Next]_vars => [Promise!Next]_(Promise!vars)
<1> SUFFICES ASSUME IInv, [Next]_vars PROVE [Promise!Next]_(Promise!vars)
  OBVIOUS
<1>1. CASE SendJob \/ CloseJobs
  <2>1. UNCHANGED <<outcome, cancelled>> /\ caller # "returned" /\ caller' # "returned"
    BY <1>1 DEF SendJob, CloseJobs
  <2> QED BY <2>1, Unanswered DEF Promise!vars
<1>2. CASE CollectZero
  <2>1. UNCHANGED <<outcome, cancelled>> /\ caller # "returned" /\ caller' # "returned"
    BY <1>2 DEF CollectZero, Receive, ZeroResult
  <2> QED BY <2>1, Unanswered DEF Promise!vars
<1>3. CASE CollectCancel
  <2>1. UNCHANGED <<outcome, cancelled>> /\ cancelled
    BY <1>3 DEF CollectCancel
  <2>2. answer = "none" /\ answer' = "ctx" /\ UNCHANGED slice
    BY <1>3 DEF CollectCancel, answer, slice
  <2> QED BY <2>1, <2>2 DEF Promise!Next, Promise!AnswerCancelled
<1>4. CASE CollectResult
  BY <1>4, CollectResultPromise DEF Promise!Next
<1>5. CASE ReturnResults
  BY <1>5, ReturnResultsPromise DEF Promise!Next
<1>6. ASSUME NEW w \in Workers, RunChain(w) PROVE Promise!Next
  BY <1>6, RunChainPromise DEF Promise!Next
<1>7. CASE Cancel
  BY <1>7 DEF Cancel, callerVars, answer, slice, Promise!Next, Promise!Cancel
<1>8. ASSUME NEW w \in Workers,
             StopOnCancel(w) \/ TakeJob(w) \/ StopOnClosed(w) \/ SendResult(w)
      PROVE  UNCHANGED Promise!vars
  BY <1>8 DEF StopOnCancel, TakeJob, StopOnClosed, SendResult, callerVars,
     answer, slice, Promise!vars
<1>9. CASE CloseResults \/ UNCHANGED vars
  BY <1>9 DEF CloseResults, vars, callerVars, answer, slice, Promise!vars
<1> QED BY <1>1, <1>2, <1>3, <1>4, <1>5, <1>6, <1>7, <1>8, <1>9
        DEF Next, CallerStep, WorkerStep, Ended

\* Apply implements its promise: whatever the schedule, the cancellation and the
\* failures, the caller sees one answer, and one the chain's results justify.
THEOREM Refinement == Spec => ImplementsPromise
  BY InitPromise, Invariance, NextPromise, PTL DEF Spec, ImplementsPromise, Promise!Spec
==============================================================================
