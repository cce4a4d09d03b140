-------------------------- MODULE CombiningChains --------------------------
(***************************************************************************)
(* The chains that put one answer together from many calls of an LLM:      *)
(* StuffDocuments, MapReduceDocuments (which reduces with one of the       *)
(* others), MapRerankDocuments and RefineDocuments, over a list of         *)
(* documents, and Constitutional, over a list of principles.  The two that *)
(* map use Apply: of it they see what ApplyPromise says, nil results after *)
(* a cancellation included.                                                *)
(*                                                                         *)
(* Document i, and what the mapped chain says of it, is written i; a       *)
(* response is written as the number of the prompt it answers.             *)
(***************************************************************************)
EXTENDS Integers, Sequences, Functions

CONSTANTS
    Kinds,    \* the chains that may be called
    MaxDocs,  \* bound: documents, or principles
    Scores,   \* the scores strconv.Atoi reads
    Unparsable  \* a score that is not a number

ASSUME CombineAssumption ==
    /\ Kinds \subseteq {"stuff", "refine", "map_reduce", "map_rerank", "constitutional"}
    /\ MaxDocs \in Nat
    /\ Scores \subseteq Int /\ Unparsable \notin Scores

NotDocuments == -1  \* the value under InputKey is not a []schema.Document
Shadow == 0         \* the value the caller gives under DocumentVariableName
Nil == 0

VARIABLES
    kind, reduce,   \* the chain, and the one map_reduce reduces with
    steps,          \* ReturnIntermediateSteps
    shadow,         \* the input values have a value under DocumentVariableName
    n,              \* len(docs), or of the principles
    outcome, cancelled, answer, slice,   \* Apply's, see ApplyPromise
    pc,
    texts,          \* the documents the combining chain is given
    at,             \* the loop is at this document or principle
    log,            \* the prompts sent by the loop, by number
    response,       \* the response so far
    pairs,          \* critiquesAndRevisions
    score, ranked,  \* the answers' scores, and the answers sorted by them
    ret, out        \* what the call returned, and the response it answers with

inputs == <<kind, reduce, steps, shadow, n>>
applyVars == <<outcome, cancelled, answer, slice>>
loopVars == <<texts, at, log, response, pairs>>
rankVars == <<score, ranked>>
vars == <<inputs, applyVars, pc, loopVars, rankVars, ret, out>>

Promise(m) == INSTANCE ApplyPromise WITH NInputs <- m

Init ==
    /\ kind \in Kinds
    /\ reduce \in IF kind = "map_reduce" THEN {"stuff", "refine"} ELSE {kind}
    /\ steps \in BOOLEAN /\ shadow \in BOOLEAN
    /\ n \in IF kind = "constitutional" THEN 0..MaxDocs ELSE NotDocuments..MaxDocs
    /\ outcome = <<>> /\ cancelled \in BOOLEAN /\ answer = "none" /\ slice = <<>>
    /\ pc = "call"
    /\ texts = <<>> /\ at = 1 /\ log = <<>> /\ response = Nil /\ pairs = <<>>
    /\ score = <<>> /\ ranked = <<>>
    /\ ret = "none" /\ out = Nil

Return(r, o) == pc' = "done" /\ ret' = r /\ out' = o
Running == UNCHANGED <<ret, out>>
\* Any prompt may fail to be formatted, any LLM or parser return an error.
Fail == Return("error", Nil)

------------------------------------------------------------------------------
\* The beginning of each Call.

Refuses == \/ n = NotDocuments
           \/ n = 0 /\ kind \in {"map_rerank", "refine"}

Refuse == /\ pc = "call" /\ Refuses
          /\ Fail
          /\ UNCHANGED <<inputs, applyVars, loopVars, rankVars>>

\* The chains of stuff and refine start on the documents as they are.
CombineDocuments ==
    /\ pc = "call" /\ ~Refuses /\ kind \in {"stuff", "refine"}
    /\ texts' = [i \in 1..n |-> i]
    /\ pc' = kind
    /\ UNCHANGED <<inputs, applyVars, at, log, response, pairs, rankVars>> /\ Running

CallApply ==
    /\ pc = "call" /\ ~Refuses /\ kind \in {"map_reduce", "map_rerank"}
    /\ outcome' = [i \in 1..n |-> "none"] /\ slice' = [i \in 1..n |-> Nil]
    /\ pc' = "apply"
    /\ UNCHANGED <<inputs, cancelled, answer, loopVars, rankVars>> /\ Running

------------------------------------------------------------------------------
\* Apply, until it answers; what its workers do after that has no effect here.

ApplyRuns ==
    /\ pc = "apply" /\ answer = "none"
    /\ \E m \in 0..MaxDocs :
          /\ m = n
          /\ \/ \E i \in 1..m : Promise(m)!RunOn(i)
             \/ Promise(m)!AnswerAll \/ Promise(m)!AnswerWithHoles
             \/ Promise(m)!AnswerError \/ Promise(m)!AnswerCancelled
    /\ UNCHANGED <<inputs, pc, loopVars, rankVars>> /\ Running

Cancel == /\ pc # "done" /\ ~cancelled
          /\ cancelled' = TRUE
          /\ UNCHANGED <<inputs, outcome, answer, slice, pc, loopVars, rankVars>>
          /\ Running

ApplyFails == /\ pc = "apply" /\ answer \in {"chain", "ctx"}
              /\ Fail
              /\ UNCHANGED <<inputs, applyVars, loopVars, rankVars>>

\* A nil map has no output key: its type assertion is not ok.
Complete == \A i \in 1..n : slice[i] # Nil

HoleInResults == /\ pc = "apply" /\ answer = "nil" /\ ~Complete
                 /\ Fail
                 /\ UNCHANGED <<inputs, applyVars, loopVars, rankVars>>

\* Mutant: the nil results are left out.
MapResultsThereAre ==
    /\ pc = "apply" /\ answer = "nil" /\ kind = "map_reduce"
    /\ texts' = SelectSeq(slice, LAMBDA r : r # Nil)
    /\ pc' = reduce
    /\ UNCHANGED <<inputs, applyVars, at, log, response, pairs, rankVars>> /\ Running

MapResultsToReduceInputs ==
    /\ pc = "apply" /\ answer = "nil" /\ Complete /\ kind = "map_reduce"
    /\ texts' = slice
    /\ pc' = reduce
    /\ UNCHANGED <<inputs, applyVars, at, log, response, pairs, rankVars>> /\ Running

\* Mutant: the two tests of Atoi's errors return each other's value.
BetterSwapped(i, j) == /\ score'[j] # Unparsable
                       /\ score'[i] # Unparsable => score'[i] > score'[j]

\* sort.Slice's less: an answer whose score is not a number comes last.
Better(i, j) == /\ score'[i] # Unparsable
                /\ score'[j] # Unparsable => score'[i] > score'[j]

\* sort.Slice is not stable: any order less admits.
RankAnswers ==
    /\ pc = "apply" /\ answer = "nil" /\ Complete /\ kind = "map_rerank"
    /\ score' \in [1..n -> Scores \cup {Unparsable}]
    /\ \E order \in Bijection(1..n, 1..n) :
          /\ \A j, k \in 1..n : j < k => ~Better(order[k], order[j])
          /\ ranked' = order
    /\ Return("ok", ranked'[1])
    /\ UNCHANGED <<inputs, applyVars, loopVars>>

------------------------------------------------------------------------------
\* Combining the texts.

Prompt(role, ts) == [role |-> role, texts |-> ts, given |-> response]
Send(p) == log' = Append(log, p) /\ response' = Len(log) + 1

\* The documents are put under DocumentVariableName after the other values.
Stuff ==
    /\ pc = "stuff"
    /\ Send(Prompt("combine", texts))
    /\ pc' = "combined"
    /\ UNCHANGED <<inputs, applyVars, texts, at, pairs, rankVars>> /\ Running

\* getBaseInputs puts the other values over the document.
Given(i) == IF shadow THEN Shadow ELSE texts[i]

\* Mutant: every prompt is made with the first response.
RefineFirst ==
    /\ pc = "refine" /\ at <= Len(texts)
    /\ log' = Append(log, [Prompt("combine", <<Given(at)>>) EXCEPT
                               !.given = IF at = 1 THEN Nil ELSE 1])
    /\ response' = Len(log) + 1 /\ at' = at + 1
    /\ UNCHANGED <<inputs, applyVars, pc, texts, pairs, rankVars>> /\ Running

Refine ==
    /\ pc = "refine" /\ at <= Len(texts)
    /\ Send(Prompt("combine", <<Given(at)>>)) /\ at' = at + 1
    /\ UNCHANGED <<inputs, applyVars, pc, texts, pairs, rankVars>> /\ Running

RefineEnds ==
    /\ pc = "refine" /\ at > Len(texts) /\ texts # <<>>
    /\ pc' = "combined"
    /\ UNCHANGED <<inputs, applyVars, loopVars, rankVars>> /\ Running

\* An error of the combining chain (refine has one for an empty list).  When
\* it was reducing, maybeAddIntermediateSteps writes into its nil result first.
CombineFails ==
    /\ pc \in {"stuff", "refine"}
    /\ pc = "refine" => texts = <<>> \/ at <= Len(texts)
    /\ IF kind = "map_reduce" /\ steps THEN Return("panic", Nil) ELSE Fail
    /\ UNCHANGED <<inputs, applyVars, loopVars, rankVars>>

CombineEnds ==
    /\ pc = "combined"
    /\ Return("ok", response)
    /\ UNCHANGED <<inputs, applyVars, loopVars, rankVars>>

------------------------------------------------------------------------------
\* Constitutional.

InitialResponse ==
    /\ pc = "call" /\ kind = "constitutional"
    /\ Send(Prompt("first", <<>>))
    /\ pc' = "critique"
    /\ UNCHANGED <<inputs, applyVars, texts, at, pairs, rankVars>> /\ Running

\* The critique is "no critique needed", or says so among other words, or asks
\* for a revision.
Critique ==
    /\ pc = "critique" /\ at <= n
    /\ log' = Append(log, Prompt("critique", <<at>>))
    /\ \E c \in {"none", "some", "needed"} :
          /\ pairs' = IF c # "some" THEN pairs
                      ELSE Append(pairs, [critique |-> Len(log) + 1, revision |-> Nil])
          /\ IF c = "needed" THEN pc' = "revise" /\ UNCHANGED at
             ELSE at' = at + 1 /\ UNCHANGED pc
    /\ UNCHANGED <<inputs, applyVars, texts, response, rankVars>> /\ Running

Revised == Append(pairs, [critique |-> Len(log), revision |-> Len(log) + 1])

\* Mutant: the revision is not the next principle's response.
ReviseApart ==
    /\ pc = "revise"
    /\ log' = Append(log, Prompt("revise", <<at>>))
    /\ pairs' = Revised
    /\ pc' = "critique" /\ at' = at + 1
    /\ UNCHANGED <<inputs, applyVars, texts, response, rankVars>> /\ Running

Revise ==
    /\ pc = "revise"
    /\ Send(Prompt("revise", <<at>>))
    /\ pairs' = Revised
    /\ pc' = "critique" /\ at' = at + 1
    /\ UNCHANGED <<inputs, applyVars, texts, rankVars>> /\ Running

ConstitutionalFails ==
    /\ \/ pc = "call" /\ kind = "constitutional"
       \/ pc = "critique" /\ at <= n
       \/ pc = "revise"
    /\ Fail
    /\ UNCHANGED <<inputs, applyVars, loopVars, rankVars>>

\* processCritiquesAndRevisions has revised its own copy of the response: Call
\* answers with the one it passed.
FinalOutput ==
    /\ pc = "critique" /\ at > n
    /\ Return("ok", 1)
    /\ UNCHANGED <<inputs, applyVars, loopVars, rankVars>>

------------------------------------------------------------------------------
Step == \/ Refuse \/ CombineDocuments \/ CallApply
        \/ ApplyRuns \/ ApplyFails \/ HoleInResults
        \/ MapResultsToReduceInputs \/ RankAnswers
        \/ Stuff \/ Refine \/ RefineEnds \/ CombineFails \/ CombineEnds
        \/ InitialResponse \/ Critique \/ Revise \/ ConstitutionalFails \/ FinalOutput

Done == pc = "done" /\ UNCHANGED vars

Next == Step \/ Cancel \/ Done

Spec == Init /\ [][Next]_vars
------------------------------------------------------------------------------
\* Properties.

Prompts == [role : {"combine", "first", "critique", "revise"},
            texts : Seq(0..MaxDocs), given : Nat]

TypeOK ==
    /\ kind \in Kinds /\ reduce \in Kinds \cup {"stuff", "refine"}
    /\ steps \in BOOLEAN /\ shadow \in BOOLEAN /\ n \in NotDocuments..MaxDocs
    /\ cancelled \in BOOLEAN /\ answer \in {"none", "nil", "chain", "ctx"}
    /\ outcome \in Seq({"none", "ok", "err"}) /\ slice \in Seq(0..MaxDocs)
    /\ pc \in {"call", "apply", "stuff", "refine", "combined", "critique",
               "revise", "done"}
    /\ texts \in Seq(1..MaxDocs) /\ at \in 1..(MaxDocs+1)
    /\ log \in Seq(Prompts) /\ response \in 0..Len(log)
    /\ pairs \in Seq([critique : 1..Len(log), revision : 0..Len(log)])
    /\ score \in Seq(Scores \cup {Unparsable}) /\ ranked \in Seq(1..MaxDocs)
    /\ ret \in {"none", "ok", "error", "panic"} /\ out \in Nat

\* What the chain answers with has had every document put before the LLM, once
\* and in order: in one prompt (stuff), or in the prompts of the responses it
\* was refined from, each given to the next.  This holds whatever Apply's
\* workers, a cancellation or a failing LLM do; refine needs values that leave
\* DocumentVariableName alone.
AnswersFromEveryDocument ==
    ret = "ok" =>
        /\ reduce = "stuff" =>
              log[out] = [role |-> "combine", texts |-> [i \in 1..n |-> i], given |-> Nil]
        /\ reduce = "refine" /\ ~shadow =>
              /\ out = n
              /\ \A i \in 1..n :
                    log[i] = [role |-> "combine", texts |-> <<i>>, given |-> i - 1]

\* No LLM is asked to reduce before each document has been mapped: a prompt
\* goes out only with every outcome in and none of them an error.
ReduceNeedsEveryResult ==
    kind = "map_reduce" /\ log # <<>> =>
        Len(outcome) = n /\ \A i \in 1..n : outcome[i] = "ok"

\* The answer of map_rerank is one with the highest score, and one without a
\* score only if none has one.
BestScoreAnswers ==
    ret = "ok" /\ kind = "map_rerank" =>
        \A i \in 1..n : score[i] # Unparsable =>
            score[out] # Unparsable /\ score[i] <= score[out]

\* A revision is made of the response the critique was about, and the next
\* principle's critique is about that revision.
RevisionsFollowCritiques ==
    kind = "constitutional" =>
        \A p \in DOMAIN log : p > 1 =>
            log[p].given = IF log[p].role = "critique"
                           THEN IF log[p-1].role = "critique" THEN log[p-1].given
                                ELSE p - 1
                           ELSE log[p-1].given

\* The chain critiques and revises: it answers with the response as revised.
RevisedResponseReturned ==
    ret = "ok" /\ kind = "constitutional" => out = response

==============================================================================
