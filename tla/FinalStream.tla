----------------------------- MODULE FinalStream -----------------------------
(***************************************************************************)
(* callbacks.AgentFinalStreamHandler: an agent hands it every chunk its    *)
(* model streams, and from the first keyword on ("Final Answer:") it sends *)
(* them on its egress channel, which ReadFromEgress forwards to a callback *)
(* in a goroutine.  The list of keywords belongs to the package: whoever   *)
(* makes a handler with keywords replaces it, under the handlers there are.*)
(*                                                                         *)
(* Text is a sequence of glyphs.  What the model says is one sequence, of  *)
(* one agent call after the other, cut into chunks anywhere.               *)
(***************************************************************************)
EXTENDS Naturals, SequencesExt

CONSTANTS
    Glyphs,     \* the glyphs of texts and keywords
    Texts,      \* what the models of an agent may say
    Lists,      \* the lists of keywords handlers are made with
    DefaultKeywords,    \* the package's list at first
    Space, Colon,       \* the glyphs the filter knows
    MaxChunk,   \* bound: the glyphs of a chunk
    MaxOthers   \* bound: the other handlers made

ASSUME TextsAssumption ==
    /\ MaxChunk \in Nat \ {0} /\ MaxOthers \in Nat
    /\ Texts \subseteq Seq(Glyphs)
    /\ Lists \subseteq Seq(Seq(Glyphs) \ {<<>>}) \ {<<>>}
    /\ DefaultKeywords \in Lists

VARIABLES
    defaults,   \* the package's DefaultKeywords
    others,     \* handlers made since
    keywords,   \* handler.Keywords, or <<>> before there is a handler
    alone,      \* nobody replaced that list under it (history variable)
    text, said, \* what the model says, and how much of it was handed over
    lastTokens, keywordDetected, printOutput,   \* the handler's fields
    stream,     \* the model's goroutine: "idle", "handle", "send", "ended"
    chunk,      \* the chunk in its hands
    reader,     \* ReadFromEgress: "not called", "receive", "callback"
    received,   \* the chunk in the callback's hands
    forwarded   \* what the callback was given, in one row

handler == <<keywords, lastTokens, keywordDetected, printOutput>>
vars == <<defaults, others, alone, handler, text, said, stream, chunk, reader,
          received, forwarded>>

Init ==
    /\ defaults = DefaultKeywords /\ others = 0
    /\ keywords = <<>> /\ alone = TRUE
    /\ text \in Texts /\ said = 0
    /\ lastTokens = <<>> /\ keywordDetected = FALSE /\ printOutput = FALSE
    /\ stream = "idle" /\ chunk = <<>>
    /\ reader = "not called" /\ received = <<>> /\ forwarded = <<>>

------------------------------------------------------------------------------
\* NewFinalStreamHandler

\* This handler: with keywords of its own, which become the package's, or with
\* the package's.
NewHandler ==
    /\ keywords = <<>>
    /\ \E l \in Lists \cup {defaults} : defaults' = l /\ keywords' = l
    /\ UNCHANGED <<others, alone, text, said, lastTokens, keywordDetected, printOutput,
                   stream, chunk, reader, received, forwarded>>

\* Another one, with keywords.
NewOther ==
    /\ others < MaxOthers
    /\ others' = others + 1
    /\ defaults' \in Lists
    /\ alone' = (alone /\ keywords \in {<<>>, defaults'})
    /\ UNCHANGED <<handler, text, said, stream, chunk, reader, received, forwarded>>

------------------------------------------------------------------------------
\* HandleStreamingFunc, called by the agent's stream function.

\* The places of a keyword in a text: the positions it ends at.
Ends(s, k) == {e \in Len(k)..Len(s) : SubSeq(s, e - Len(k) + 1, e) = k}
Occurs(s, k) == Ends(s, k) # {}
Drop(s, n) == SubSeq(s, n + 1, Len(s))

\* strings.TrimLeft(s, " ")
TrimLeft(s) ==
    Drop(s, Max({n \in 0..Len(s) : \A i \in 1..n : s[i] = Space}))

\* filterFinalString
FilterFinalString(s, keyword) ==
    LET t == TrimLeft(s) IN
    TrimLeft(IF Occurs(t, keyword) THEN Drop(t, Min(Ends(t, keyword)))
             ELSE IF t # <<>> /\ Head(t) = Colon THEN Tail(t)
             ELSE t)

\* Mutant: the window is as long as the shortest of the keywords.
WindowOfShortest(s) ==
    LET shortest == Min({Len(keywords[i]) : i \in DOMAIN keywords})
    IN  Drop(s, Max({0, Len(s) - shortest + 1}))

\* The last glyphs, as many as the longest of the handler's own keywords has.
Window(s) ==
    LET longest == Max({Len(keywords[i]) : i \in DOMAIN keywords})
    IN  Drop(s, Max({0, Len(s) - longest}))

\* The model streams its next chunk.
NextChunk ==
    /\ stream = "idle" /\ keywords # <<>> /\ said < Len(text)
    /\ \E n \in 1..MaxChunk :
          /\ said + n <= Len(text)
          /\ chunk' = SubSeq(text, said + 1, said + n)
          /\ said' = said + n
    /\ stream' = "handle"
    /\ UNCHANGED <<defaults, others, alone, handler, text, reader, received, forwarded>>

\* Of the package's keywords found the last one counts, and only when something
\* is found for the first time is the chunk filtered.
HandleStreamingFunc ==
    /\ stream = "handle"
    /\ LET tokens == lastTokens \o chunk
           found  == {i \in DOMAIN defaults : Occurs(tokens, defaults[i])}
       IN  /\ lastTokens' = Window(tokens)
           /\ keywordDetected' = (keywordDetected \/ found # {})
           /\ IF keywordDetected' /\ ~printOutput
                THEN /\ printOutput' = TRUE
                     /\ chunk' = FilterFinalString(chunk, defaults[Max(found)])
                ELSE /\ chunk' = IF printOutput THEN chunk ELSE <<>>
                     /\ UNCHANGED printOutput
           /\ stream' = IF printOutput' THEN "send" ELSE "idle"
    /\ UNCHANGED <<defaults, others, alone, keywords, text, said, reader, received, forwarded>>

\* Mutant: a chunk nobody waits for is dropped.
SendOrDrop ==
    /\ stream = "send"
    /\ IF reader = "receive" THEN received' = chunk /\ reader' = "callback"
                             ELSE UNCHANGED <<received, reader>>
    /\ stream' = "idle" /\ chunk' = <<>>
    /\ UNCHANGED <<defaults, others, alone, handler, text, said, forwarded>>

\* The channel has no buffer: the send is the goroutine's receive.
SendOnEgress ==
    /\ stream = "send" /\ reader = "receive"
    /\ received' = chunk /\ reader' = "callback"
    /\ stream' = "idle" /\ chunk' = <<>>
    /\ UNCHANGED <<defaults, others, alone, handler, text, said, forwarded>>

\* The model has said all.
StreamEnds ==
    /\ stream = "idle" /\ said = Len(text)
    /\ stream' = "ended"
    /\ UNCHANGED <<defaults, others, alone, handler, text, said, chunk, reader,
                   received, forwarded>>

------------------------------------------------------------------------------
\* ReadFromEgress

ReadFromEgress ==
    /\ keywords # <<>> /\ reader = "not called"
    /\ reader' = "receive"
    /\ UNCHANGED <<defaults, others, alone, handler, text, said, stream, chunk,
                   received, forwarded>>

\* Mutant: the goroutine receives once.
CallbackOnce ==
    /\ reader = "callback"
    /\ forwarded' = forwarded \o received /\ received' = <<>>
    /\ reader' = "not called"
    /\ UNCHANGED <<defaults, others, alone, handler, text, said, stream, chunk>>

Callback ==
    /\ reader = "callback"
    /\ forwarded' = forwarded \o received /\ received' = <<>>
    /\ reader' = "receive"
    /\ UNCHANGED <<defaults, others, alone, handler, text, said, stream, chunk>>

\* The stream has ended; or nobody reads, and it never will.
Stopped ==
    /\ stream = "ended" /\ UNCHANGED vars

StreamStep == NextChunk \/ HandleStreamingFunc \/ SendOnEgress \/ StreamEnds
Next ==
    NewHandler \/ NewOther \/ StreamStep \/ ReadFromEgress \/ Callback \/ Stopped

Spec == Init /\ [][Next]_vars
\* The model goes on, callbacks return; nobody has to make handlers or to read.
FairSpec == Spec /\ WF_vars(StreamStep) /\ WF_vars(Callback)

------------------------------------------------------------------------------
\* Properties.

TypeOK ==
    /\ defaults \in Lists /\ keywords \in Lists \cup {<<>>}
    /\ others \in 0..MaxOthers /\ alone \in BOOLEAN
    /\ text \in Texts /\ said \in 0..Len(text)
    /\ {lastTokens, chunk, received, forwarded} \subseteq Seq(Glyphs)
    /\ keywordDetected \in BOOLEAN /\ printOutput = keywordDetected
    /\ stream \in {"idle", "handle", "send", "ended"}
    /\ stream = "send" => printOutput
    /\ reader \in {"not called", "receive", "callback"}
    /\ keywords = <<>> => stream \in {"idle", "ended"} /\ reader = "not called"

\* What the handler has looked at, and what of it has been sent on.
Handled == SubSeq(text, 1, IF stream = "handle" THEN said - Len(chunk) ELSE said)
OnItsWay == forwarded \o received \o (IF stream = "send" THEN chunk ELSE <<>>)
\* Where a keyword of one of these lists ends in what was handled, and of what
\* length it is.
Places(lists) ==
    UNION {{<<e, Len(k)>> : e \in Ends(Handled, k)} : k \in UNION {ToSet(l) : l \in lists}}

\* The user gets the end of what the model said, nothing of it lost, doubled or
\* out of order, and nothing that comes before a keyword, however the text was
\* cut into chunks and whatever other handlers were made.
ForwardsTheRest ==
    OnItsWay # <<>> =>
        /\ IsSuffix(OnItsWay, Handled)
        /\ \E p \in Places(Lists) : Len(Handled) - Len(OnItsWay) >= p[1] - p[2]

\* As long as nobody else replaces the list, no keyword is missed, however it
\* falls into chunks: all that follows the last one is on its way.
KeywordHeard ==
    alone =>
        LET heard == {p[1] : p \in Places({keywords})} IN
        heard # {} => /\ printOutput
                      /\ IsSuffix(TrimLeft(Drop(Handled, Max(heard))), OnItsWay)

\* What is forwarded starts after the keyword, not within it.
KeywordNotForwarded ==
    OnItsWay # <<>> =>
        \E p \in Places(Lists) : Len(Handled) - Len(OnItsWay) >= p[1]

\* Once somebody reads, the model's stream ends and the callback is given all.
StreamsToTheEnd ==
    reader # "not called" ~>
        stream = "ended" /\ reader = "receive" /\ OnItsWay = forwarded
==============================================================================
