------------------------------ MODULE OllamaChat ------------------------------
(***************************************************************************)
(* GenerateContent of the ollama adapter, called by several goroutines     *)
(* that name one ContextCache: the model is pulled, the answer is read     *)
(* line by line, and a nil error then counts as a hit of the cache or puts *)
(* the context into it.  The cache is asked once the answer is there: it   *)
(* tells of what was saved, it saves nothing itself.                       *)
(***************************************************************************)
EXTENDS ContextCache

CONSTANTS
    MaxChunks,      \* bound: pieces of an answer
    MaxCalls        \* bound: calls of all clients together

ASSUME ChatAssumption == MaxChunks \in Nat /\ MaxCalls \in Nat

VARIABLES
    pc,             \* where a client's call is
    asked,          \* what it asked, and how the service means to answer
    lines,          \* lines of the answer read
    shown,          \* pieces its streaming function took (history variable)
    gathered,       \* streamedResponse, in pieces
    content,        \* resp.Message's content, in pieces; 0 if it is nil
    cut,            \* the body broke off (history variable)
    calls           \* calls begun

callVars == <<asked, lines, shown, gathered, content, cut, calls>>
vars == <<cacheVars, pc, callVars>>

\* The pieces of the service's answer come in a line each and one more that
\* says it is done, or, if no streaming is asked for, in that line alone.
Question == [messages : Contexts, streaming : BOOLEAN, pieces : 0..MaxChunks]
NotAsked == [messages |-> "none"]
Lines(q) == (IF q.streaming THEN q.pieces ELSE 0) + 1

Init ==
    /\ CacheInit
    /\ pc = [c \in Clients |-> "idle"]
    /\ asked = [c \in Clients |-> NotAsked]
    /\ lines = [c \in Clients |-> 0] /\ shown = [c \in Clients |-> 0]
    /\ gathered = [c \in Clients |-> 0] /\ content = [c \in Clients |-> 0]
    /\ cut = [c \in Clients |-> FALSE] /\ calls = 0

At(c, place) == pc[c] = place
Go(c, place) == pc' = [pc EXCEPT ![c] = place]
\* The call returns, and with it go the variables it alone had.
Return(c) ==
    /\ Go(c, "idle")
    /\ asked' = [asked EXCEPT ![c] = NotAsked]
    /\ lines' = [lines EXCEPT ![c] = 0] /\ shown' = [shown EXCEPT ![c] = 0]
    /\ gathered' = [gathered EXCEPT ![c] = 0] /\ content' = [content EXCEPT ![c] = 0]
    /\ cut' = [cut EXCEPT ![c] = FALSE]
    /\ UNCHANGED calls

Begin(c) ==
    /\ At(c, "idle") /\ calls < MaxCalls
    /\ calls' = calls + 1
    /\ \E q \in Question : asked' = [asked EXCEPT ![c] = q]
    /\ Go(c, "pull")
    /\ UNCHANGED <<cacheVars, lines, shown, gathered, content, cut>>

\* pullModelIfNeeded fails, or a message has parts the adapter has no form for.
Refuse(c) ==
    /\ At(c, "pull")
    /\ Return(c)
    /\ UNCHANGED cacheVars

Request(c) ==
    /\ At(c, "pull")
    /\ Go(c, "chat")
    /\ UNCHANGED <<cacheVars, callVars>>

------------------------------------------------------------------------------
\* Client.stream, and the function GenerateContent gives to GenerateChat.

\* Mutant: the answer is what was read so far, at any line.
ReadLineAnswering(c) ==
    /\ At(c, "chat") /\ lines[c] < Lines(asked[c])
    /\ lines' = [lines EXCEPT ![c] = @ + 1]
    /\ LET done == lines'[c] = Lines(asked[c])
           new  == IF ~asked[c].streaming THEN asked[c].pieces
                   ELSE IF done THEN 0 ELSE 1
       IN  /\ shown' = IF asked[c].streaming THEN [shown EXCEPT ![c] = @ + new]
                                             ELSE shown
           /\ gathered' = [gathered EXCEPT ![c] = @ + new]
           /\ content' = [content EXCEPT ![c] = gathered[c] + new]
    /\ UNCHANGED <<cacheVars, pc, asked, cut, calls>>

\* A line: its piece goes to the streaming function, then to the answer, which
\* is there once the line says it is done.
ReadLine(c) ==
    /\ At(c, "chat") /\ lines[c] < Lines(asked[c])
    /\ lines' = [lines EXCEPT ![c] = @ + 1]
    /\ LET done == lines'[c] = Lines(asked[c])
           new  == IF ~asked[c].streaming THEN asked[c].pieces
                   ELSE IF done THEN 0 ELSE 1
       IN  /\ shown' = IF asked[c].streaming THEN [shown EXCEPT ![c] = @ + new]
                                             ELSE shown
           /\ gathered' = [gathered EXCEPT ![c] = @ + new]
           /\ content' = [content EXCEPT ![c] = IF done THEN gathered[c] + new ELSE @]
    /\ UNCHANGED <<cacheVars, pc, asked, cut, calls>>

\* The request fails or is refused, a line is not JSON or holds an error, or
\* the streaming function returns one.
ReadFails(c) ==
    /\ At(c, "chat")
    /\ Return(c)
    /\ UNCHANGED cacheVars

\* The scanner stops at the end of the body, and as well when the body breaks
\* off, the context is cancelled or a line is too long: its error is not asked
\* for, and the answer is the empty one.
ReadEnds(c) ==
    /\ At(c, "chat")
    /\ cut' = [cut EXCEPT ![c] = lines[c] < Lines(asked[c])]
    /\ Go(c, "look up")
    /\ UNCHANGED <<cacheVars, asked, lines, shown, gathered, content, calls>>

------------------------------------------------------------------------------
\* The context cache.

Miss(c) ==
    /\ At(c, "look up") /\ GetMiss(c, asked[c].messages)
    /\ Go(c, "store") /\ UNCHANGED callVars
Find(c) ==
    /\ At(c, "look up") /\ GetFound(c, asked[c].messages)
    /\ Go(c, "hit") /\ UNCHANGED callVars
TouchEntry(c) ==
    /\ At(c, "hit") /\ Touch(c)
    /\ UNCHANGED <<pc, callVars>>
Hit(c) ==
    /\ At(c, "hit") /\ Count(c) /\ Return(c)
Store(c) ==
    /\ At(c, "store") /\ Put(asked[c].messages) /\ Return(c)

\* The owner of the cache empties it; time passes.
ClearCache == Clear /\ UNCHANGED <<pc, callVars>>
TimePasses == Tick /\ UNCHANGED <<pc, callVars>>

CallStep(c) ==
    \/ Refuse(c) \/ Request(c)
    \/ ReadLine(c) \/ ReadFails(c) \/ ReadEnds(c)
    \/ Miss(c) \/ Find(c) \/ TouchEntry(c) \/ Hit(c) \/ Store(c)

Over == calls = MaxCalls /\ (\A c \in Clients : At(c, "idle")) /\ UNCHANGED vars

Next ==
    \/ \E c \in Clients : Begin(c) \/ CallStep(c)
    \/ ClearCache \/ TimePasses \/ Over

Spec == Init /\ [][Next]_vars

------------------------------------------------------------------------------
\* Properties.

TypeOK ==
    /\ CacheTypeOK
    /\ pc \in [Clients -> {"idle", "pull", "chat", "look up", "hit", "store"}]
    /\ \A c \in Clients : At(c, "hit") <=> reading[c] # NotReading
    /\ asked \in [Clients -> Question \cup {NotAsked}]
    /\ lines \in [Clients -> 0..MaxChunks + 1]
    /\ shown \in [Clients -> 0..MaxChunks] /\ gathered \in [Clients -> 0..MaxChunks]
    /\ content \in [Clients -> 0..MaxChunks]
    /\ cut \in [Clients -> BOOLEAN] /\ calls \in 0..MaxCalls

\* A nil error comes with the whole answer, all of it shown if it was to be, or
\* with none of it when the body broke off, whatever was shown by then: an
\* answer is never part of one.
AllOrNothing ==
    \A c \in Clients : pc[c] \in {"look up", "hit", "store"} =>
        IF cut[c] THEN content[c] = 0
        ELSE /\ content[c] = asked[c].pieces
             /\ asked[c].streaming => shown[c] = content[c]
==============================================================================
