------------------------ MODULE CombiningChainsProofs ------------------------
(***************************************************************************)
(* Proofs about CombiningChains, for any number of documents or            *)
(* principles and any scores.                                              *)
(***************************************************************************)
EXTENDS CombiningChains, TLAPS

Combining == {"stuff", "refine", "combined"}
Mapping == {"map_reduce", "map_rerank"}

\* What is running: each place in the code belongs to some kinds of chain.
PlaceInv ==
    /\ kind # "map_reduce" => reduce = kind
    /\ kind = "map_reduce" => reduce \in {"stuff", "refine"}
    /\ pc # "done" => ret = "none"
    /\ pc # "call" /\ pc # "done" => n \in 0..MaxDocs
    /\ pc = "apply" => kind \in Mapping /\ (kind = "map_rerank" => n >= 1)
    /\ pc \in Combining => kind \in {"stuff", "refine", "map_reduce"}
    /\ pc \in {"stuff", "refine"} => reduce = pc
    /\ pc \in {"critique", "revise"} => kind = "constitutional"
    /\ kind = "constitutional" => n \in 0..MaxDocs
    /\ pc \in {"critique", "revise"} => at <= n + 1
    /\ pc = "revise" => at <= n

\* What Apply has done: a result is there only of a run that returned it.
ApplyInv ==
    pc = "apply" =>
        /\ outcome \in [1..n -> {"none", "ok", "err"}]
        /\ slice \in [1..n -> 0..MaxDocs]
        /\ \A i \in 1..n : slice[i] # Nil => slice[i] = i /\ outcome[i] = "ok"

\* What is combined are all the documents; when they were mapped, each of them.
TextsInv ==
    /\ pc \in Combining => texts = [i \in 1..n |-> i]
    /\ kind = "map_reduce" /\ (pc \in Combining \/ log # <<>>) =>
          Len(outcome) = n /\ \A i \in 1..n : outcome[i] = "ok"

Refined(m) == \A i \in 1..m :
                 log[i] = [role |-> "combine", texts |-> <<i>>, given |-> i - 1]

\* The response in hand is that of the last prompt, made as it should be.
CombineInv ==
    /\ pc \in {"call", "apply", "stuff"} => log = <<>> /\ response = Nil /\ at = 1
    /\ pc = "refine" =>
          /\ at \in 1..(n+1) /\ Len(log) = at - 1 /\ response = at - 1
          /\ ~shadow => Refined(at - 1)
    /\ pc = "combined" =>
          /\ reduce = "stuff" =>
                /\ Len(log) = 1 /\ response = 1
                /\ log[1] = [role |-> "combine", texts |-> [i \in 1..n |-> i],
                             given |-> Nil]
          /\ reduce = "refine" =>
                /\ Len(log) = n /\ response = n /\ n >= 1
                /\ ~shadow => Refined(n)

\* The response in hand is the one the last critique was about, or the last one.
CritiqueInv ==
    /\ pc \in {"critique", "revise"} =>
          /\ log # <<>>
          /\ response = IF log[Len(log)].role = "critique"
                        THEN log[Len(log)].given ELSE Len(log)
    /\ pc = "revise" => log[Len(log)].role = "critique"

IInv == /\ TypeOK /\ PlaceInv /\ ApplyInv /\ TextsInv /\ CombineInv /\ CritiqueInv
        /\ AnswersFromEveryDocument /\ BestScoreAnswers /\ RevisionsFollowCritiques

------------------------------------------------------------------------------
\* What Append does to a sequence: one more element, the others as they were.
LEMMA AppendFacts ==
    ASSUME NEW S, NEW s \in Seq(S), NEW e \in S
    PROVE  /\ Append(s, e) \in Seq(S)
           /\ Len(Append(s, e)) = Len(s) + 1
           /\ DOMAIN Append(s, e) = 1..(Len(s) + 1)
           /\ DOMAIN s = 1..Len(s) /\ Len(s) \in Nat
           /\ Append(s, e) # <<>>
           /\ Append(s, e)[Len(s) + 1] = e
           /\ \A i \in 1..Len(s) : Append(s, e)[i] = s[i]
  OBVIOUS

\* The parts of TypeOK that arithmetic is done with.
LEMMA Numbers ==
    ASSUME TypeOK
    PROVE  /\ n \in NotDocuments..MaxDocs /\ n \in Int /\ MaxDocs \in Nat
           /\ at \in 1..(MaxDocs+1) /\ at \in Nat
           /\ log \in Seq(Prompts) /\ Len(log) \in Nat
           /\ response \in 0..Len(log)
           /\ out \in Nat
<1>1. n \in NotDocuments..MaxDocs /\ at \in 1..(MaxDocs+1) /\ log \in Seq(Prompts)
      /\ response \in 0..Len(log) /\ out \in Nat
  BY Zenon DEF TypeOK
<1>2. MaxDocs \in Nat BY CombineAssumption
<1>3. Len(log) \in Nat BY <1>1
<1>4. n \in Int BY <1>1, <1>2 DEF NotDocuments
<1>5. at \in Nat BY <1>1, <1>2
<1> QED BY <1>1, <1>2, <1>3, <1>4, <1>5

\* A prompt sent is the last of the log, and its number the response.
LEMMA LogFacts ==
    ASSUME TypeOK, NEW p \in Prompts, log' = Append(log, p)
    PROVE  /\ log' \in Seq(Prompts) /\ log' # <<>>
           /\ Len(log) \in Nat /\ Len(log') = Len(log) + 1
           /\ DOMAIN log = 1..Len(log) /\ DOMAIN log' = 1..(Len(log) + 1)
           /\ log'[Len(log) + 1] = p
           /\ \A i \in 1..Len(log) : log'[i] = log[i]
<1>1. log \in Seq(Prompts) BY DEF TypeOK
<1> QED BY <1>1, AppendFacts

\* A prompt of some documents and the response in hand is a prompt.
LEMMA PromptType ==
    ASSUME TypeOK, NEW r \in {"combine", "first", "critique", "revise"},
           NEW ts \in Seq(0..MaxDocs)
    PROVE  Prompt(r, ts) \in Prompts
<1>1. response \in Nat BY Numbers
<1> QED BY <1>1 DEF Prompt, Prompts

LEMMA OneText ==
    ASSUME NEW i \in 0..MaxDocs
    PROVE  <<i>> \in Seq(0..MaxDocs)
  OBVIOUS

\* All documents, in order.
LEMMA AllTexts ==
    ASSUME n \in 0..MaxDocs
    PROVE  /\ [i \in 1..n |-> i] \in Seq(1..MaxDocs)
           /\ [i \in 1..n |-> i] \in Seq(0..MaxDocs)
           /\ Len([i \in 1..n |-> i]) = n
           /\ DOMAIN [i \in 1..n |-> i] = 1..n
<1>1. n \in Nat /\ MaxDocs \in Nat BY CombineAssumption
<1>2. \A i \in 1..n : i \in 1..MaxDocs /\ i \in 0..MaxDocs BY <1>1
<1> QED BY <1>1, <1>2

\* A sequence over a set is one over any larger set.
LEMMA SeqMonotone ==
    ASSUME NEW S, NEW T, S \subseteq T, NEW s \in Seq(S)
    PROVE  s \in Seq(T)
  OBVIOUS

\* The pairs so far stay pairs while the log grows.
LEMMA PairsGrow ==
    ASSUME TypeOK, Len(log') = Len(log) + 1
    PROVE  pairs \in Seq([critique : 1..Len(log'), revision : 0..Len(log')])
<1>1. Len(log) \in Nat BY Numbers
<1>2. pairs \in Seq([critique : 1..Len(log), revision : 0..Len(log)]) BY DEF TypeOK
<1>3. 1..Len(log) \subseteq 1..Len(log') /\ 0..Len(log) \subseteq 0..Len(log')
  BY <1>1
<1>4. [critique : 1..Len(log), revision : 0..Len(log)]
         \subseteq [critique : 1..Len(log'), revision : 0..Len(log')]
  BY <1>3
<1> QED BY <1>2, <1>4, SeqMonotone

------------------------------------------------------------------------------
\* Initially.

LEMMA InitIInv == Init => IInv
<1> SUFFICES ASSUME Init PROVE IInv OBVIOUS
<1>1. TypeOK
  <2>1. /\ kind \in Kinds /\ reduce \in Kinds \cup {"stuff", "refine"}
        /\ steps \in BOOLEAN /\ shadow \in BOOLEAN /\ cancelled \in BOOLEAN
    BY DEF Init
  <2>2. n \in NotDocuments..MaxDocs
    BY CombineAssumption DEF Init, NotDocuments
  <2>3. at \in 1..(MaxDocs+1) BY CombineAssumption DEF Init
  <2>4. log \in Seq(Prompts) /\ response \in 0..Len(log) BY DEF Init, Nil
  <2>5. /\ outcome \in Seq({"none", "ok", "err"}) /\ slice \in Seq(0..MaxDocs)
        /\ texts \in Seq(1..MaxDocs)
        /\ pairs \in Seq([critique : 1..Len(log), revision : 0..Len(log)])
        /\ score \in Seq(Scores \cup {Unparsable}) /\ ranked \in Seq(1..MaxDocs)
    BY DEF Init
  <2>6. answer = "none" /\ pc = "call" /\ ret = "none" /\ out \in Nat
    BY DEF Init, Nil
  <2> QED BY <2>1, <2>2, <2>3, <2>4, <2>5, <2>6 DEF TypeOK
<1>2. PlaceInv BY DEF Init, PlaceInv, Combining
<1>3. ApplyInv BY DEF Init, ApplyInv
<1>4. TextsInv BY DEF Init, TextsInv, Combining
<1>5. CombineInv /\ CritiqueInv BY DEF Init, CombineInv, CritiqueInv
<1>6. AnswersFromEveryDocument /\ BestScoreAnswers
  BY DEF Init, AnswersFromEveryDocument, BestScoreAnswers
<1>7. RevisionsFollowCritiques BY DEF Init, RevisionsFollowCritiques
<1> QED BY <1>1, <1>2, <1>3, <1>4, <1>5, <1>6, <1>7 DEF IInv

------------------------------------------------------------------------------
\* The ends of a call.

\* A call that returns without an answer.
LEMMA NoAnswerPreserves ==
    ASSUME IInv, pc' = "done", ret' \in {"error", "panic"}, out' = Nil,
           UNCHANGED <<inputs, applyVars, loopVars, rankVars>>
    PROVE  IInv'
<1> USE DEF inputs, applyVars, loopVars, rankVars, IInv
<1>1. TypeOK'
  <2>1. out' \in Nat BY DEF Nil
  <2> QED BY <2>1 DEF TypeOK, Prompts
<1>2. PlaceInv' /\ ApplyInv' BY DEF PlaceInv, ApplyInv, Combining
<1>3. TextsInv' BY DEF TextsInv, Combining
<1>4. CombineInv' /\ CritiqueInv' BY DEF CombineInv, CritiqueInv
<1>5. AnswersFromEveryDocument' /\ BestScoreAnswers'
  BY DEF AnswersFromEveryDocument, BestScoreAnswers
<1>6. RevisionsFollowCritiques' BY DEF RevisionsFollowCritiques
<1> QED BY <1>1, <1>2, <1>3, <1>4, <1>5, <1>6

LEMMA FailurePreserves ==
    ASSUME IInv,
           Refuse \/ ApplyFails \/ HoleInResults \/ CombineFails \/ ConstitutionalFails
    PROVE  IInv'
<1>1. /\ pc' = "done" /\ ret' \in {"error", "panic"} /\ out' = Nil
      /\ UNCHANGED <<inputs, applyVars, loopVars, rankVars>>
  BY DEF Refuse, ApplyFails, HoleInResults, CombineFails, ConstitutionalFails,
         Fail, Return
<1> QED BY <1>1, NoAnswerPreserves

LEMMA CombineEndsPreserves ==
    ASSUME IInv, CombineEnds
    PROVE  IInv'
<1> USE DEF inputs, applyVars, loopVars, rankVars, IInv
<1>1. /\ pc = "combined" /\ pc' = "done" /\ ret' = "ok" /\ out' = response
      /\ UNCHANGED <<inputs, applyVars, loopVars, rankVars>>
  BY DEF CombineEnds, Return
<1>2. TypeOK'
  <2>1. out' \in Nat BY <1>1, Numbers
  <2> QED BY <1>1, <2>1 DEF TypeOK, Prompts
<1>3. PlaceInv' /\ ApplyInv' BY <1>1 DEF PlaceInv, ApplyInv, Combining
<1>4. TextsInv' BY <1>1 DEF TextsInv, Combining
<1>5. CombineInv' /\ CritiqueInv' BY <1>1 DEF CombineInv, CritiqueInv
<1>6. AnswersFromEveryDocument'
  BY <1>1 DEF AnswersFromEveryDocument, CombineInv, Refined
<1>7. BestScoreAnswers' BY <1>1 DEF BestScoreAnswers, PlaceInv, Combining
<1>8. RevisionsFollowCritiques' BY <1>1 DEF RevisionsFollowCritiques
<1> QED BY <1>2, <1>3, <1>4, <1>5, <1>6, <1>7, <1>8

LEMMA FinalOutputPreserves ==
    ASSUME IInv, FinalOutput
    PROVE  IInv'
<1> USE DEF inputs, applyVars, loopVars, rankVars, IInv
<1>1. /\ pc = "critique" /\ pc' = "done" /\ ret' = "ok" /\ out' = 1
      /\ UNCHANGED <<inputs, applyVars, loopVars, rankVars>>
  BY DEF FinalOutput, Return
<1>2. kind = "constitutional" /\ reduce = "constitutional" BY <1>1 DEF PlaceInv
<1>3. TypeOK' BY <1>1 DEF TypeOK, Prompts
<1>4. PlaceInv' /\ ApplyInv' BY <1>1 DEF PlaceInv, ApplyInv, Combining
<1>5. TextsInv' BY <1>1 DEF TextsInv, Combining
<1>6. CombineInv' /\ CritiqueInv' BY <1>1 DEF CombineInv, CritiqueInv
<1>7. AnswersFromEveryDocument' /\ BestScoreAnswers'
  BY <1>1, <1>2 DEF AnswersFromEveryDocument, BestScoreAnswers
<1>8. RevisionsFollowCritiques' BY <1>1 DEF RevisionsFollowCritiques
<1> QED BY <1>3, <1>4, <1>5, <1>6, <1>7, <1>8

------------------------------------------------------------------------------
\* Starting, and Apply.

LEMMA CombineDocumentsPreserves ==
    ASSUME IInv, CombineDocuments
    PROVE  IInv'
<1> USE DEF inputs, applyVars, rankVars, IInv
<1>1. /\ pc = "call" /\ kind \in {"stuff", "refine"} /\ pc' = kind
      /\ texts' = [i \in 1..n |-> i]
      /\ UNCHANGED <<inputs, applyVars, at, log, response, pairs, rankVars, ret, out>>
  BY DEF CombineDocuments, Running
<1>2. n \in 0..MaxDocs
  <2>1. n # NotDocuments BY DEF CombineDocuments, Refuses
  <2> QED BY <2>1, Numbers DEF NotDocuments
<1>3. kind = "refine" => n >= 1
  <2>1. kind = "refine" => n # 0 BY DEF CombineDocuments, Refuses
  <2> QED BY <2>1, <1>2
<1>4. TypeOK'
  <2>1. texts' \in Seq(1..MaxDocs) BY <1>1, <1>2, AllTexts
  <2> QED BY <1>1, <2>1 DEF TypeOK, Prompts
<1>5. PlaceInv' BY <1>1, <1>2 DEF PlaceInv, Combining
<1>6. ApplyInv' /\ TextsInv' BY <1>1 DEF ApplyInv, TextsInv, Combining
<1>7. CombineInv'
  <2>1. log = <<>> /\ response = 0 /\ at = 1 BY <1>1 DEF CombineInv, Nil
  <2>2. at' \in 1..(n'+1) BY <1>1, <1>2, <2>1
  <2>3. Refined(at - 1)' BY <1>1, <2>1 DEF Refined
  <2> QED BY <1>1, <2>1, <2>2, <2>3 DEF CombineInv, Nil
<1>8. CritiqueInv' BY <1>1 DEF CritiqueInv
<1>9. AnswersFromEveryDocument' /\ BestScoreAnswers'
  BY <1>1 DEF AnswersFromEveryDocument, BestScoreAnswers, PlaceInv
<1>10. RevisionsFollowCritiques' BY <1>1 DEF RevisionsFollowCritiques
<1> QED BY <1>4, <1>5, <1>6, <1>7, <1>8, <1>9, <1>10

LEMMA CallApplyPreserves ==
    ASSUME IInv, CallApply
    PROVE  IInv'
<1> USE DEF inputs, rankVars, loopVars, IInv
<1>1. /\ pc = "call" /\ kind \in Mapping /\ pc' = "apply"
      /\ outcome' = [i \in 1..n |-> "none"] /\ slice' = [i \in 1..n |-> Nil]
      /\ UNCHANGED <<inputs, cancelled, answer, loopVars, rankVars, ret, out>>
  BY DEF CallApply, Running, Mapping
<1>2. n \in 0..MaxDocs
  <2>1. n # NotDocuments BY DEF CallApply, Refuses
  <2> QED BY <2>1, Numbers DEF NotDocuments
<1>3. kind = "map_rerank" => n >= 1
  <2>1. kind = "map_rerank" => n # 0 BY DEF CallApply, Refuses
  <2> QED BY <2>1, <1>2
<1>4. n \in Nat /\ 0 \in 0..MaxDocs BY <1>2, Numbers
<1>5. TypeOK'
  <2>1. outcome' \in Seq({"none", "ok", "err"}) BY <1>1, <1>4
  <2>2. slice' \in Seq(0..MaxDocs) BY <1>1, <1>4 DEF Nil
  <2> QED BY <1>1, <2>1, <2>2 DEF TypeOK, Prompts
<1>6. PlaceInv' BY <1>1, <1>2, <1>3 DEF PlaceInv, Combining
<1>7. ApplyInv' BY <1>1, <1>4 DEF ApplyInv, Nil
<1>8. TextsInv'
  <2>1. log' = <<>> BY <1>1 DEF CombineInv
  <2> QED BY <1>1, <2>1 DEF TextsInv, Combining
<1>9. CombineInv' /\ CritiqueInv' BY <1>1 DEF CombineInv, CritiqueInv
<1>10. AnswersFromEveryDocument' /\ BestScoreAnswers'
  BY <1>1 DEF AnswersFromEveryDocument, BestScoreAnswers, PlaceInv
<1>11. RevisionsFollowCritiques' BY <1>1 DEF RevisionsFollowCritiques
<1> QED BY <1>5, <1>6, <1>7, <1>8, <1>9, <1>10, <1>11

\* What a step of Apply may change: a run returns, or Apply answers, with
\* results of runs that returned one.
LEMMA ApplyStepFacts ==
    ASSUME IInv, ApplyRuns
    PROVE  /\ outcome' \in [1..n -> {"none", "ok", "err"}]
           /\ slice' \in [1..n -> 0..MaxDocs]
           /\ \A i \in 1..n : slice'[i] # Nil => slice'[i] = i /\ outcome'[i] = "ok"
           /\ answer' \in {"none", "nil", "chain", "ctx"}
           /\ cancelled' = cancelled
<1>1. pc = "apply" /\ n \in 0..MaxDocs /\ n \in Nat
  BY Numbers DEF ApplyRuns, IInv, PlaceInv
<1>2. /\ outcome \in [1..n -> {"none", "ok", "err"}]
      /\ slice \in [1..n -> 0..MaxDocs]
      /\ \A i \in 1..n : slice[i] # Nil => slice[i] = i /\ outcome[i] = "ok"
  BY <1>1 DEF IInv, ApplyInv
<1>3. answer \in {"none", "nil", "chain", "ctx"} BY DEF IInv, TypeOK
<1>4. PICK m \in 0..MaxDocs :
         /\ m = n
         /\ \/ \E i \in 1..m : Promise(m)!RunOn(i)
            \/ Promise(m)!AnswerAll \/ Promise(m)!AnswerWithHoles
            \/ Promise(m)!AnswerError \/ Promise(m)!AnswerCancelled
  BY DEF ApplyRuns
<1>5. ASSUME NEW i \in 1..m, Promise(m)!RunOn(i)
      PROVE  /\ outcome' \in [1..n -> {"none", "ok", "err"}] /\ outcome[i] = "none"
             /\ \A j \in 1..n : j # i => outcome'[j] = outcome[j]
             /\ UNCHANGED <<cancelled, answer, slice>>
  BY <1>2, <1>4, <1>5 DEF Promise!RunOn
<1>6. CASE \E i \in 1..m : Promise(m)!RunOn(i)
  BY <1>2, <1>3, <1>4, <1>5, <1>6
<1>7. ASSUME NEW S \in SUBSET (1..m), Promise(m)!Answered(S), UNCHANGED <<outcome, cancelled>>
      PROVE  /\ slice' \in [1..n -> 0..MaxDocs]
             /\ \A i \in 1..n : slice'[i] # Nil => slice'[i] = i /\ outcome'[i] = "ok"
  <2>1. slice' = [i \in 1..m |-> IF i \in S THEN i ELSE 0] /\ \A i \in S : outcome[i] = "ok"
    BY <1>7 DEF Promise!Answered, Promise!Inputs, Promise!Nil
  <2>2. \A i \in 1..n : i \in 0..MaxDocs /\ 0 \in 0..MaxDocs
    BY <1>1, Numbers DEF IInv
  <2> QED BY <1>4, <1>7, <2>1, <2>2 DEF Nil
<1>8. CASE Promise(m)!AnswerAll
  BY <1>2, <1>4, <1>7, <1>8 DEF Promise!AnswerAll, Promise!Inputs
<1>9. CASE Promise(m)!AnswerWithHoles
  BY <1>2, <1>4, <1>7, <1>9 DEF Promise!AnswerWithHoles, Promise!Inputs
<1>10. CASE Promise(m)!AnswerError \/ Promise(m)!AnswerCancelled
  BY <1>2, <1>10 DEF Promise!AnswerError, Promise!AnswerCancelled
<1> QED BY <1>4, <1>6, <1>8, <1>9, <1>10

LEMMA ApplyRunsPreserves ==
    ASSUME IInv, ApplyRuns
    PROVE  IInv'
<1> USE DEF inputs, rankVars, loopVars, IInv
<1>1. /\ pc = "apply" /\ pc' = "apply"
      /\ UNCHANGED <<inputs, loopVars, rankVars, ret, out>>
  BY DEF ApplyRuns, Running
<1>2. n \in Nat /\ MaxDocs \in Nat BY <1>1, Numbers DEF PlaceInv
<1>3. TypeOK'
  <2>1. outcome' \in Seq({"none", "ok", "err"}) BY <1>2, ApplyStepFacts
  <2>2. slice' \in Seq(0..MaxDocs) BY <1>2, ApplyStepFacts
  <2>3. cancelled' \in BOOLEAN BY ApplyStepFacts DEF TypeOK
  <2> QED BY <1>1, <2>1, <2>2, <2>3, ApplyStepFacts DEF TypeOK, Prompts
<1>4. PlaceInv' BY <1>1 DEF PlaceInv, Combining
<1>5. ApplyInv' BY <1>1, ApplyStepFacts DEF ApplyInv
<1>6. TextsInv'
  <2>1. log' = <<>> BY <1>1 DEF CombineInv
  <2> QED BY <1>1, <2>1 DEF TextsInv, Combining
<1>7. CombineInv' /\ CritiqueInv' BY <1>1 DEF CombineInv, CritiqueInv
<1>8. AnswersFromEveryDocument' /\ BestScoreAnswers'
  BY <1>1 DEF AnswersFromEveryDocument, BestScoreAnswers, PlaceInv
<1>9. RevisionsFollowCritiques' BY <1>1 DEF RevisionsFollowCritiques
<1> QED BY <1>3, <1>4, <1>5, <1>6, <1>7, <1>8, <1>9

LEMMA CancelPreserves ==
    ASSUME IInv, Cancel
    PROVE  IInv'
<1> USE DEF inputs, rankVars, loopVars, IInv
<1>1. /\ cancelled' = TRUE
      /\ UNCHANGED <<inputs, outcome, answer, slice, pc, loopVars, rankVars, ret, out>>
  BY DEF Cancel, Running
<1>2. TypeOK' BY <1>1 DEF TypeOK, Prompts
<1>3. PlaceInv' /\ ApplyInv' BY <1>1 DEF PlaceInv, ApplyInv, Combining, Mapping
<1>4. TextsInv' BY <1>1 DEF TextsInv, Combining
<1>5. CombineInv' BY <1>1 DEF CombineInv, Refined
<1>6. CritiqueInv' BY <1>1 DEF CritiqueInv
<1>7. AnswersFromEveryDocument' BY <1>1 DEF AnswersFromEveryDocument
<1>8. BestScoreAnswers' BY <1>1 DEF BestScoreAnswers
<1>9. RevisionsFollowCritiques' BY <1>1 DEF RevisionsFollowCritiques
<1> QED BY <1>2, <1>3, <1>4, <1>5, <1>6, <1>7, <1>8, <1>9

LEMMA MapResultsPreserves ==
    ASSUME IInv, MapResultsToReduceInputs
    PROVE  IInv'
<1> USE DEF inputs, rankVars, applyVars, IInv
<1>1. /\ pc = "apply" /\ kind = "map_reduce" /\ pc' = reduce /\ texts' = slice
      /\ \A i \in 1..n : slice[i] # Nil
      /\ UNCHANGED <<inputs, applyVars, at, log, response, pairs, rankVars, ret, out>>
  BY DEF MapResultsToReduceInputs, Running, Complete
<1>2. n \in 0..MaxDocs /\ n \in Nat /\ reduce \in {"stuff", "refine"}
  BY <1>1, Numbers DEF PlaceInv
<1>3. texts' = [i \in 1..n |-> i]
  <2>1. slice \in [1..n -> 0..MaxDocs] /\ \A i \in 1..n : slice[i] = i
    BY <1>1 DEF ApplyInv
  <2> QED BY <1>1, <2>1
<1>4. Len(outcome) = n /\ \A i \in 1..n : outcome[i] = "ok"
  <2>1. outcome \in [1..n -> {"none", "ok", "err"}] BY <1>1 DEF ApplyInv
  <2>2. \A i \in 1..n : outcome[i] = "ok" BY <1>1 DEF ApplyInv
  <2>3. outcome \in Seq({"none", "ok", "err"}) BY DEF TypeOK
  <2>4. Len(outcome) = n BY <1>2, <2>1, <2>3
  <2> QED BY <2>2, <2>4
<1>5. TypeOK'
  <2>1. texts' \in Seq(1..MaxDocs) BY <1>2, <1>3, AllTexts
  <2>2. pc' \in {"stuff", "refine"} BY <1>1, <1>2
  <2> QED BY <1>1, <2>1, <2>2 DEF TypeOK, Prompts
<1>6. PlaceInv' BY <1>1, <1>2 DEF PlaceInv, Combining
<1>7. ApplyInv' /\ TextsInv' BY <1>1, <1>2, <1>3, <1>4 DEF ApplyInv, TextsInv
<1>8. CombineInv'
  <2>1. log = <<>> /\ response = 0 /\ at = 1 BY <1>1 DEF CombineInv, Nil
  <2>2. at' \in 1..(n'+1) BY <1>1, <1>2, <2>1
  <2>3. Refined(at - 1)' BY <1>1, <2>1 DEF Refined
  <2> QED BY <1>1, <1>2, <2>1, <2>2, <2>3 DEF CombineInv, Nil
<1>9. CritiqueInv' BY <1>1, <1>2 DEF CritiqueInv
<1>10. AnswersFromEveryDocument' /\ BestScoreAnswers'
  BY <1>1 DEF AnswersFromEveryDocument, BestScoreAnswers, PlaceInv
<1>11. RevisionsFollowCritiques' BY <1>1 DEF RevisionsFollowCritiques
<1> QED BY <1>5, <1>6, <1>7, <1>8, <1>9, <1>10, <1>11

\* The order less admits puts a best score first.
LEMMA FirstIsBest ==
    ASSUME n \in Nat, n >= 1, NEW order \in Bijection(1..n, 1..n),
           score' \in [1..n -> Scores \cup {Unparsable}],
           \A j, k \in 1..n : j < k => ~Better(order[k], order[j]),
           NEW i \in 1..n, score'[i] # Unparsable
    PROVE  score'[order[1]] # Unparsable /\ score'[i] <= score'[order[1]]
<1>1. order \in [1..n -> 1..n] /\ \E k \in 1..n : order[k] = i
  BY DEF Bijection, Surjection
<1>2. PICK k \in 1..n : order[k] = i BY <1>1
<1>3. order[1] \in 1..n BY <1>1
<1>4. score'[i] \in Int BY CombineAssumption
<1>5. CASE k = 1 BY <1>2, <1>4, <1>5
<1>6. CASE k # 1
  <2>1. ~Better(i, order[1]) BY <1>2, <1>6
  <2>2. score'[order[1]] # Unparsable /\ ~(score'[i] > score'[order[1]])
    BY <2>1 DEF Better
  <2>3. score'[order[1]] \in Int BY <1>3, <2>2, CombineAssumption
  <2> QED BY <1>4, <2>2, <2>3
<1> QED BY <1>5, <1>6

LEMMA RankAnswersPreserves ==
    ASSUME IInv, RankAnswers
    PROVE  IInv'
<1> USE DEF inputs, loopVars, applyVars, IInv
<1>1. /\ pc = "apply" /\ kind = "map_rerank" /\ pc' = "done" /\ ret' = "ok"
      /\ score' \in [1..n -> Scores \cup {Unparsable}] /\ out' = ranked'[1]
      /\ UNCHANGED <<inputs, applyVars, loopVars>>
  BY DEF RankAnswers, Return
<1>2. PICK order \in Bijection(1..n, 1..n) :
         /\ \A j, k \in 1..n : j < k => ~Better(order[k], order[j])
         /\ ranked' = order
  BY DEF RankAnswers
<1>3. n \in 0..MaxDocs /\ n \in Nat /\ n >= 1 /\ MaxDocs \in Nat
      /\ reduce = "map_rerank"
  BY <1>1, Numbers DEF PlaceInv
<1>4. order \in [1..n -> 1..n] BY DEF Bijection, Surjection
<1>5. TypeOK'
  <2>1. score' \in Seq(Scores \cup {Unparsable}) BY <1>1, <1>3
  <2>2. order \in [1..n -> 1..MaxDocs] BY <1>3, <1>4
  <2>3. ranked' \in Seq(1..MaxDocs) BY <1>2, <1>3, <2>2
  <2>4. out' \in Nat BY <1>1, <1>2, <1>3, <1>4
  <2> QED BY <1>1, <2>1, <2>3, <2>4 DEF TypeOK, Prompts
<1>6. PlaceInv' BY <1>1, <1>3 DEF PlaceInv, Combining
<1>7. ApplyInv' BY <1>1 DEF ApplyInv
<1>8. TextsInv' BY <1>1 DEF TextsInv, Combining
<1>9. CombineInv' /\ CritiqueInv' BY <1>1 DEF CombineInv, CritiqueInv
<1>10. AnswersFromEveryDocument' BY <1>1, <1>3 DEF AnswersFromEveryDocument
<1>11. BestScoreAnswers'
  <2>1. ASSUME NEW i \in 1..n, score'[i] # Unparsable
        PROVE  score'[order[1]] # Unparsable /\ score'[i] <= score'[order[1]]
    BY <1>1, <1>2, <1>3, <2>1, FirstIsBest
  <2> QED BY <1>1, <1>2, <2>1 DEF BestScoreAnswers
<1>12. RevisionsFollowCritiques' BY <1>1 DEF RevisionsFollowCritiques
<1> QED BY <1>5, <1>6, <1>7, <1>8, <1>9, <1>10, <1>11, <1>12

------------------------------------------------------------------------------
\* Combining.

LEMMA StuffPreserves ==
    ASSUME IInv, Stuff
    PROVE  IInv'
<1> USE DEF inputs, rankVars, applyVars, IInv
<1>1. /\ pc = "stuff" /\ pc' = "combined"
      /\ log' = Append(log, Prompt("combine", texts)) /\ response' = Len(log) + 1
      /\ UNCHANGED <<inputs, applyVars, texts, at, pairs, rankVars, ret, out>>
  BY DEF Stuff, Send, Running
<1>2. /\ n \in 0..MaxDocs /\ reduce = "stuff" /\ ret = "none"
      /\ kind \in {"stuff", "refine", "map_reduce"}
  BY <1>1 DEF PlaceInv, Combining
<1>3. texts = [i \in 1..n |-> i] BY <1>1 DEF TextsInv, Combining
<1>4. Prompt("combine", texts) \in Prompts BY <1>2, <1>3, AllTexts, PromptType
<1>5. Len(log) = 0 /\ response = Nil BY <1>1 DEF CombineInv
<1>6. /\ log' \in Seq(Prompts) /\ Len(log') = 1 /\ response' = 1
      /\ log'[1] = Prompt("combine", texts)
  BY <1>1, <1>4, <1>5, LogFacts
<1>7. TypeOK'
  <2>1. pairs' \in Seq([critique : 1..Len(log'), revision : 0..Len(log')])
    BY <1>1, <1>5, <1>6, PairsGrow
  <2>2. response' \in 0..Len(log') BY <1>6
  <2> QED BY <1>1, <1>6, <2>1, <2>2 DEF TypeOK
<1>8. PlaceInv' BY <1>1 DEF PlaceInv, Combining
<1>9. ApplyInv' /\ TextsInv' BY <1>1 DEF ApplyInv, TextsInv, Combining
<1>10. CombineInv' BY <1>1, <1>2, <1>3, <1>5, <1>6 DEF CombineInv, Prompt
<1>11. CritiqueInv' BY <1>1 DEF CritiqueInv
<1>12. AnswersFromEveryDocument' /\ BestScoreAnswers'
  BY <1>1, <1>2 DEF AnswersFromEveryDocument, BestScoreAnswers
<1>13. RevisionsFollowCritiques' BY <1>1, <1>2 DEF RevisionsFollowCritiques
<1> QED BY <1>7, <1>8, <1>9, <1>10, <1>11, <1>12, <1>13

LEMMA RefinePreserves ==
    ASSUME IInv, Refine
    PROVE  IInv'
<1> USE DEF inputs, rankVars, applyVars, IInv
<1> DEFINE p == Prompt("combine", <<Given(at)>>)
<1>1. /\ pc = "refine" /\ pc' = "refine" /\ at <= Len(texts) /\ at' = at + 1
      /\ log' = Append(log, p) /\ response' = Len(log) + 1
      /\ UNCHANGED <<inputs, applyVars, texts, pairs, rankVars, ret, out>>
  BY DEF Refine, Send, Running
<1>2. /\ n \in 0..MaxDocs /\ n \in Nat /\ MaxDocs \in Nat
      /\ reduce = "refine" /\ ret = "none" /\ kind # "constitutional"
  BY <1>1, Numbers DEF PlaceInv, Combining
<1>3. texts = [i \in 1..n |-> i] /\ Len(texts) = n
  BY <1>1, <1>2, AllTexts DEF TextsInv, Combining
<1>4. /\ at \in 1..n /\ Len(log) = at - 1 /\ response = at - 1
      /\ ~shadow => Refined(at - 1)
  BY <1>1, <1>2, <1>3 DEF CombineInv
<1>5. Given(at) \in 0..MaxDocs /\ (~shadow => Given(at) = at)
  BY <1>2, <1>3, <1>4 DEF Given, Shadow
<1>6. p \in Prompts BY <1>5, OneText, PromptType
<1> HIDE DEF p
<1>7. /\ log' \in Seq(Prompts) /\ Len(log') = at /\ response' = at
      /\ log'[at] = p /\ \A i \in 1..(at - 1) : log'[i] = log[i]
  BY <1>1, <1>2, <1>4, <1>6, LogFacts
<1>8. ~shadow => p = [role |-> "combine", texts |-> <<at>>, given |-> at - 1]
  BY <1>4, <1>5 DEF p, Prompt
<1>9. TypeOK'
  <2>1. pairs' \in Seq([critique : 1..Len(log'), revision : 0..Len(log')])
    BY <1>1, <1>2, <1>4, <1>7, PairsGrow
  <2>2. response' \in 0..Len(log') /\ at' \in 1..(MaxDocs+1)
    BY <1>1, <1>2, <1>4, <1>7
  <2> QED BY <1>1, <1>7, <2>1, <2>2 DEF TypeOK
<1>10. PlaceInv' BY <1>1 DEF PlaceInv, Combining
<1>11. ApplyInv' /\ TextsInv' BY <1>1 DEF ApplyInv, TextsInv, Combining
<1>12. CombineInv'
  <2>1. at' \in 1..(n'+1) /\ Len(log') = at' - 1 /\ response' = at' - 1
    BY <1>1, <1>2, <1>4, <1>7
  <2>2. ASSUME ~shadow, NEW i \in 1..at
        PROVE  log'[i] = [role |-> "combine", texts |-> <<i>>, given |-> i - 1]
    <3>1. CASE i = at BY <1>7, <1>8, <2>2, <3>1
    <3>2. CASE i # at
      <4>1. i \in 1..(at - 1) BY <1>2, <1>4, <3>2
      <4> QED BY <1>4, <1>7, <2>2, <4>1 DEF Refined
    <3> QED BY <3>1, <3>2
  <2>3. at' - 1 = at BY <1>1, <1>2, <1>4
  <2>4. (~shadow => Refined(at - 1))' BY <1>1, <2>2, <2>3 DEF Refined
  <2> QED BY <1>1, <2>1, <2>4 DEF CombineInv
<1>13. CritiqueInv' BY <1>1 DEF CritiqueInv
<1>14. AnswersFromEveryDocument' /\ BestScoreAnswers'
  BY <1>1, <1>2 DEF AnswersFromEveryDocument, BestScoreAnswers
<1>15. RevisionsFollowCritiques' BY <1>1, <1>2 DEF RevisionsFollowCritiques
<1> QED BY <1>9, <1>10, <1>11, <1>12, <1>13, <1>14, <1>15

LEMMA RefineEndsPreserves ==
    ASSUME IInv, RefineEnds
    PROVE  IInv'
<1> USE DEF inputs, rankVars, applyVars, loopVars, IInv
<1>1. /\ pc = "refine" /\ pc' = "combined" /\ at > Len(texts) /\ texts # <<>>
      /\ UNCHANGED <<inputs, applyVars, loopVars, rankVars, ret, out>>
  BY DEF RefineEnds, Running
<1>2. n \in 0..MaxDocs /\ n \in Nat /\ reduce = "refine" /\ ret = "none"
  BY <1>1, Numbers DEF PlaceInv, Combining
<1>3. texts = [i \in 1..n |-> i] /\ Len(texts) = n /\ texts \in Seq(1..MaxDocs)
  BY <1>1, <1>2, AllTexts DEF TextsInv, Combining
<1>4. n >= 1 BY <1>1, <1>2, <1>3
<1>5. at = n + 1 /\ Len(log) = n /\ response = n /\ (~shadow => Refined(n))
  <2>1. at \in 1..(n+1) /\ Len(log) = at - 1 /\ response = at - 1
        /\ (~shadow => Refined(at - 1))
    BY <1>1 DEF CombineInv
  <2>2. at = n + 1 /\ at - 1 = n BY <1>1, <1>2, <1>3, <2>1
  <2> QED BY <2>1, <2>2
<1>6. TypeOK' BY <1>1 DEF TypeOK, Prompts
<1>7. PlaceInv' /\ ApplyInv' BY <1>1 DEF PlaceInv, ApplyInv, Combining
<1>8. TextsInv' BY <1>1 DEF TextsInv, Combining
<1>9. CombineInv' BY <1>1, <1>2, <1>4, <1>5 DEF CombineInv, Refined
<1>10. CritiqueInv' BY <1>1 DEF CritiqueInv
<1>11. AnswersFromEveryDocument' /\ BestScoreAnswers'
  BY <1>1, <1>2 DEF AnswersFromEveryDocument, BestScoreAnswers
<1>12. RevisionsFollowCritiques' BY <1>1 DEF RevisionsFollowCritiques
<1> QED BY <1>6, <1>7, <1>8, <1>9, <1>10, <1>11, <1>12

------------------------------------------------------------------------------
\* Constitutional.

LEMMA InitialResponsePreserves ==
    ASSUME IInv, InitialResponse
    PROVE  IInv'
<1> USE DEF inputs, rankVars, applyVars, IInv
<1>1. /\ pc = "call" /\ kind = "constitutional" /\ pc' = "critique"
      /\ log' = Append(log, Prompt("first", <<>>)) /\ response' = Len(log) + 1
      /\ UNCHANGED <<inputs, applyVars, texts, at, pairs, rankVars, ret, out>>
  BY DEF InitialResponse, Send, Running
<1>2. /\ n \in 0..MaxDocs /\ n \in Nat /\ reduce = "constitutional" /\ ret = "none"
  BY <1>1, Numbers DEF PlaceInv
<1>3. Len(log) = 0 /\ at = 1 BY <1>1 DEF CombineInv
<1>4. Prompt("first", <<>>) \in Prompts
  <2>1. << >> \in Seq(0..MaxDocs) OBVIOUS
  <2> QED BY <2>1, PromptType
<1>5. /\ log' \in Seq(Prompts) /\ log' # <<>> /\ Len(log') = 1 /\ response' = 1
      /\ DOMAIN log' = 1..1 /\ log'[1].role = "first"
  BY <1>1, <1>3, <1>4, LogFacts DEF Prompt
<1>6. TypeOK'
  <2>1. pairs' \in Seq([critique : 1..Len(log'), revision : 0..Len(log')])
    BY <1>1, <1>3, <1>5, PairsGrow
  <2>2. response' \in 0..Len(log') BY <1>5
  <2> QED BY <1>1, <1>5, <2>1, <2>2 DEF TypeOK
<1>7. PlaceInv' BY <1>1, <1>2, <1>3 DEF PlaceInv, Combining
<1>8. ApplyInv' /\ TextsInv' BY <1>1 DEF ApplyInv, TextsInv, Combining
<1>9. CombineInv' BY <1>1 DEF CombineInv
<1>10. CritiqueInv' BY <1>1, <1>5 DEF CritiqueInv
<1>11. AnswersFromEveryDocument' /\ BestScoreAnswers'
  BY <1>1, <1>2 DEF AnswersFromEveryDocument, BestScoreAnswers
<1>12. RevisionsFollowCritiques' BY <1>5 DEF RevisionsFollowCritiques
<1> QED BY <1>6, <1>7, <1>8, <1>9, <1>10, <1>11, <1>12

\* The response a prompt after the last one is to be given.
Due(role) == IF role = "critique" /\ log[Len(log)].role # "critique"
             THEN Len(log) ELSE log[Len(log)].given

\* A prompt with the response that is due keeps critiques and revisions in step.
LEMMA RevisionsGrow ==
    ASSUME IInv, NEW p \in Prompts, log' = Append(log, p), kind' = kind,
           kind = "constitutional", log # <<>>, p.given = Due(p.role)
    PROVE  RevisionsFollowCritiques'
<1>1. /\ Len(log) \in Nat /\ Len(log) >= 1
      /\ DOMAIN log = 1..Len(log) /\ DOMAIN log' = 1..(Len(log) + 1)
      /\ log'[Len(log) + 1] = p
      /\ \A i \in 1..Len(log) : log'[i] = log[i]
  <2>1. log \in Seq(Prompts) BY DEF IInv, TypeOK
  <2>2. Len(log) >= 1 BY <2>1
  <2> QED BY <2>2, LogFacts DEF IInv
<1>2. ASSUME NEW q \in DOMAIN log', q > 1
      PROVE  log'[q].given = IF log'[q].role = "critique"
                             THEN IF log'[q-1].role = "critique" THEN log'[q-1].given
                                  ELSE q - 1
                             ELSE log'[q-1].given
  <2>1. CASE q = Len(log) + 1
    <3>1. log'[q] = p /\ q - 1 = Len(log) /\ log'[q-1] = log[Len(log)]
      BY <1>1, <2>1
    <3> QED BY <3>1 DEF Due
  <2>2. CASE q # Len(log) + 1
    <3>1. q \in DOMAIN log /\ log'[q] = log[q] /\ log'[q-1] = log[q-1]
      BY <1>1, <1>2, <2>2
    <3> QED BY <1>2, <3>1 DEF IInv, RevisionsFollowCritiques
  <2> QED BY <2>1, <2>2
<1> QED BY <1>2 DEF RevisionsFollowCritiques

LEMMA CritiquePreserves ==
    ASSUME IInv, Critique
    PROVE  IInv'
<1> USE DEF inputs, rankVars, applyVars, IInv
<1> DEFINE p == Prompt("critique", <<at>>)
           more == Append(pairs, [critique |-> Len(log) + 1, revision |-> Nil])
<1>1. /\ pc = "critique" /\ at <= n
      /\ log' = Append(log, p)
      /\ pairs' \in {pairs, more}
      /\ \/ pc' = "revise" /\ at' = at
         \/ pc' = "critique" /\ at' = at + 1
      /\ UNCHANGED <<inputs, applyVars, texts, response, rankVars, ret, out>>
  BY DEF Critique, Running
<1>2. /\ n \in 0..MaxDocs /\ n \in Nat /\ MaxDocs \in Nat
      /\ at \in 1..n /\ at \in 0..MaxDocs /\ Len(log) \in Nat
      /\ kind = "constitutional" /\ reduce = "constitutional" /\ ret = "none"
  BY <1>1, Numbers DEF PlaceInv
<1>3. p \in Prompts BY <1>2, OneText, PromptType
<1>4. p.role = "critique" /\ p.given = response BY DEF Prompt
<1>5. log # <<>> /\ p.given = Due(p.role)
  BY <1>1, <1>4 DEF CritiqueInv, Due
<1> HIDE DEF p
<1>6. /\ log' \in Seq(Prompts) /\ log' # <<>> /\ Len(log') = Len(log) + 1
      /\ log'[Len(log')] = p
  BY <1>1, <1>3, LogFacts
<1>7. TypeOK'
  <2>1. pairs \in Seq([critique : 1..Len(log'), revision : 0..Len(log')])
    BY <1>6, PairsGrow
  <2>2. [critique |-> Len(log) + 1, revision |-> Nil]
           \in [critique : 1..Len(log'), revision : 0..Len(log')]
    BY <1>2, <1>6 DEF Nil
  <2>3. more \in Seq([critique : 1..Len(log'), revision : 0..Len(log')])
    BY <2>1, <2>2, AppendFacts
  <2>4. pairs' \in Seq([critique : 1..Len(log'), revision : 0..Len(log')])
    BY <1>1, <2>1, <2>3
  <2>5. response' \in 0..Len(log') BY <1>1, <1>2, <1>6, Numbers
  <2>6. at' \in 1..(MaxDocs+1) BY <1>1, <1>2
  <2>7. pc' \in {"critique", "revise"} BY <1>1
  <2> HIDE DEF more
  <2> QED BY <1>1, <1>6, <2>4, <2>5, <2>6, <2>7 DEF TypeOK
<1>8. PlaceInv'
  <2>1. at' <= n' + 1 /\ (pc' = "revise" => at' <= n') BY <1>1, <1>2
  <2> QED BY <1>1, <1>2, <2>1 DEF PlaceInv, Combining
<1>9. ApplyInv' /\ TextsInv' BY <1>1, <1>2 DEF ApplyInv, TextsInv, Combining
<1>10. CombineInv' BY <1>1 DEF CombineInv
<1>11. CritiqueInv' BY <1>1, <1>4, <1>6 DEF CritiqueInv
<1>12. AnswersFromEveryDocument' /\ BestScoreAnswers'
  BY <1>1, <1>2 DEF AnswersFromEveryDocument, BestScoreAnswers
<1>13. RevisionsFollowCritiques' BY <1>1, <1>2, <1>3, <1>5, RevisionsGrow
<1> QED BY <1>7, <1>8, <1>9, <1>10, <1>11, <1>12, <1>13

LEMMA RevisePreserves ==
    ASSUME IInv, Revise
    PROVE  IInv'
<1> USE DEF inputs, rankVars, applyVars, IInv
<1> DEFINE p == Prompt("revise", <<at>>)
<1>1. /\ pc = "revise" /\ pc' = "critique" /\ at' = at + 1
      /\ log' = Append(log, p) /\ response' = Len(log) + 1 /\ pairs' = Revised
      /\ UNCHANGED <<inputs, applyVars, texts, rankVars, ret, out>>
  BY DEF Revise, Send, Running
<1>2. /\ n \in 0..MaxDocs /\ n \in Nat /\ MaxDocs \in Nat
      /\ at \in 1..n /\ at \in 0..MaxDocs /\ Len(log) \in Nat
      /\ kind = "constitutional" /\ reduce = "constitutional" /\ ret = "none"
  BY <1>1, Numbers DEF PlaceInv
<1>3. p \in Prompts BY <1>2, OneText, PromptType
<1>4. p.role = "revise" /\ p.given = response BY DEF Prompt
<1>5. log # <<>> /\ p.given = Due(p.role)
  BY <1>1, <1>4 DEF CritiqueInv, Due
<1> HIDE DEF p
<1>6. /\ log' \in Seq(Prompts) /\ log' # <<>> /\ Len(log') = Len(log) + 1
      /\ log'[Len(log')] = p
  BY <1>1, <1>3, LogFacts
<1>7. TypeOK'
  <2>1. pairs \in Seq([critique : 1..Len(log'), revision : 0..Len(log')])
    BY <1>6, PairsGrow
  <2>2. Len(log) >= 1
    <3>1. log \in Seq(Prompts) BY DEF TypeOK
    <3> QED BY <1>5, <3>1
  <2>3. [critique |-> Len(log), revision |-> Len(log) + 1]
           \in [critique : 1..Len(log'), revision : 0..Len(log')]
    BY <1>2, <1>6, <2>2
  <2>4. pairs' \in Seq([critique : 1..Len(log'), revision : 0..Len(log')])
    BY <1>1, <2>1, <2>3, AppendFacts DEF Revised
  <2>5. response' \in 0..Len(log') BY <1>1, <1>2, <1>6
  <2>6. at' \in 1..(MaxDocs+1) BY <1>1, <1>2
  <2> QED BY <1>1, <1>6, <2>4, <2>5, <2>6 DEF TypeOK
<1>8. PlaceInv'
  <2>1. at' <= n' + 1 BY <1>1, <1>2
  <2> QED BY <1>1, <1>2, <2>1 DEF PlaceInv, Combining
<1>9. ApplyInv' /\ TextsInv' BY <1>1, <1>2 DEF ApplyInv, TextsInv, Combining
<1>10. CombineInv' BY <1>1 DEF CombineInv
<1>11. CritiqueInv' BY <1>1, <1>4, <1>6 DEF CritiqueInv
<1>12. AnswersFromEveryDocument' /\ BestScoreAnswers'
  BY <1>1, <1>2 DEF AnswersFromEveryDocument, BestScoreAnswers
<1>13. RevisionsFollowCritiques' BY <1>1, <1>2, <1>3, <1>5, RevisionsGrow
<1> QED BY <1>7, <1>8, <1>9, <1>10, <1>11, <1>12, <1>13

------------------------------------------------------------------------------
\* Every step.

LEMMA StutterPreserves ==
    ASSUME IInv, UNCHANGED vars
    PROVE  IInv'
<1> USE DEF vars, inputs, rankVars, applyVars, loopVars, IInv
<1>1. TypeOK' BY DEF TypeOK, Prompts
<1>2. PlaceInv' /\ ApplyInv' BY DEF PlaceInv, ApplyInv, Combining, Mapping
<1>3. TextsInv' BY DEF TextsInv, Combining
<1>4. CombineInv' /\ CritiqueInv' BY DEF CombineInv, CritiqueInv, Refined
<1>5. AnswersFromEveryDocument' BY DEF AnswersFromEveryDocument
<1>6. BestScoreAnswers' BY DEF BestScoreAnswers
<1>7. RevisionsFollowCritiques' BY DEF RevisionsFollowCritiques
<1> QED BY <1>1, <1>2, <1>3, <1>4, <1>5, <1>6, <1>7

LEMMA NextIInv == IInv /\ [Next]_vars => IInv'
<1> SUFFICES ASSUME IInv, [Next]_vars PROVE IInv' OBVIOUS
<1>1. CASE Refuse \/ ApplyFails \/ HoleInResults \/ CombineFails \/ ConstitutionalFails
  BY <1>1, FailurePreserves
<1>2. CASE CombineDocuments BY <1>2, CombineDocumentsPreserves
<1>3. CASE CallApply BY <1>3, CallApplyPreserves
<1>4. CASE ApplyRuns BY <1>4, ApplyRunsPreserves
<1>5. CASE MapResultsToReduceInputs BY <1>5, MapResultsPreserves
<1>6. CASE RankAnswers BY <1>6, RankAnswersPreserves
<1>7. CASE Stuff BY <1>7, StuffPreserves
<1>8. CASE Refine BY <1>8, RefinePreserves
<1>9. CASE RefineEnds BY <1>9, RefineEndsPreserves
<1>10. CASE CombineEnds BY <1>10, CombineEndsPreserves
<1>11. CASE InitialResponse BY <1>11, InitialResponsePreserves
<1>12. CASE Critique BY <1>12, CritiquePreserves
<1>13. CASE Revise BY <1>13, RevisePreserves
<1>14. CASE FinalOutput BY <1>14, FinalOutputPreserves
<1>15. CASE Cancel BY <1>15, CancelPreserves
<1>16. CASE Done \/ UNCHANGED vars BY <1>16, StutterPreserves DEF Done
<1> QED BY <1>1, <1>2, <1>3, <1>4, <1>5, <1>6, <1>7, <1>8, <1>9, <1>10, <1>11,
           <1>12, <1>13, <1>14, <1>15, <1>16 DEF Next, Step

------------------------------------------------------------------------------
\* The inductive invariant holds of every run, for any number of documents or
\* principles: what each place in the code has in hand.
THEOREM Invariance == Spec => []IInv
<1>1. Init => IInv BY InitIInv
<1>2. IInv /\ [Next]_vars => IInv' BY NextIInv
<1> QED BY <1>1, <1>2, PTL DEF Spec

\* Every variable keeps its type; the pairs of critiques and revisions name
\* prompts that were sent.
THEOREM TypeCorrect == Spec => []TypeOK
<1>1. IInv => TypeOK BY DEF IInv
<1> QED BY <1>1, Invariance, PTL

\* An answer has drawn on every document, once and in order, whatever Apply, a
\* cancellation or a failing LLM did.
THEOREM EveryDocument == Spec => []AnswersFromEveryDocument
<1>1. IInv => AnswersFromEveryDocument BY DEF IInv
<1> QED BY <1>1, Invariance, PTL

\* Nothing is reduced before every document has been mapped.
THEOREM ReduceAfterMap == Spec => []ReduceNeedsEveryResult
<1>1. IInv => ReduceNeedsEveryResult
  BY DEF IInv, TextsInv, ReduceNeedsEveryResult
<1> QED BY <1>1, Invariance, PTL

\* The answer of map_rerank has the best score there is.
THEOREM BestScore == Spec => []BestScoreAnswers
<1>1. IInv => BestScoreAnswers BY DEF IInv
<1> QED BY <1>1, Invariance, PTL

\* A revision is of the response that was criticised, a critique of the last
\* revision.
THEOREM Revisions == Spec => []RevisionsFollowCritiques
<1>1. IInv => RevisionsFollowCritiques BY DEF IInv
<1> QED BY <1>1, Invariance, PTL
==============================================================================
