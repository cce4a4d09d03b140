---------------------------- MODULE OpenAIStream ----------------------------
(***************************************************************************)
(* One streamed chat completion of the openai client: the goroutine of     *)
(* parseStreamingChatResponse scans the response body and sends payloads   *)
(* on an unbuffered channel, combineStreamingChatResponse receives them,   *)
(* assembles the message and calls the caller's StreamingFunc, and         *)
(* LLM.GenerateContent turns the message into the answer.  The caller may  *)
(* cancel the context at any moment.                                       *)
(*                                                                         *)
(* A piece of the text or of a function call is identified by the number   *)
(* of the line that carries it, a part of a tool call by that number and   *)
(* its place in the line.                                                  *)
(***************************************************************************)
EXTENDS Naturals, SequencesExt

CONSTANTS
    MaxLines,   \* bound: the lines of a stream
    Streams     \* the streams a server may send: the lines, and what follows

\* A part of a tool call, as it comes: the call the server means (the index it
\* sends, which the client's ToolCall has no field for), whether it has a type
\* and whether it has arguments.
Call == [call : 1..MaxLines, typed : BOOLEAN, arguments : BOOLEAN]

\* A line is skipped (blank, comment, not data, not JSON), the end marker, a
\* payload without choices, or a delta, which may have text, (legacy) function
\* call and parts of tool calls at once, and the reason of the finish.
Line == [kind : {"skip", "done", "usage", "delta"},
         content : BOOLEAN, function : BOOLEAN, calls : Seq(Call),
         finish : {"", "stop", "tool_calls", "function_call"}]
IsStream(s) ==
    /\ s.lines \in Seq(Line) /\ Len(s.lines) <= MaxLines
    /\ s.end \in {"eof", "broken", "hang"}

StreamsAreStreams == MaxLines \in Nat /\ \A s \in Streams : IsStream(s)
ASSUME StreamsAssumption == StreamsAreStreams

VARIABLES
    stream,     \* what the server sends
    pos,        \* lines scanned
    reader,     \* the goroutine: "not started", "scan", "send", "send error", "closed"
    held,       \* the line whose payload it means to send, or 0
    cancelled,  \* the caller cancelled the context
    caller,     \* "request", "receive", "tools", "func", "returned"
    taken,      \* the line of the delta it received last, or 0
    part,       \* the tool calls' parts of that delta it has dealt with
    response,   \* the message being assembled
    streamed,   \* what StreamingFunc was given: line and chunk (history variable)
    result      \* "none", "nil", an error, or "panic"

answerVars == <<taken, part, response, streamed>>
streamVars == <<stream, pos, reader, held, cancelled, caller, answerVars, result>>

EmptyResponse == [text |-> <<>>, tools |-> <<>>, function |-> <<>>, finish |-> ""]

StreamInit ==
    /\ stream \in Streams /\ pos = 0
    /\ reader = "not started" /\ held = 0
    /\ cancelled = FALSE
    /\ caller = "request" /\ taken = 0 /\ part = 0
    /\ response = EmptyResponse /\ streamed = <<>> /\ result = "none"

\* readerCtx: cancelled with the caller's context, or once combine returned.
ReaderDone == cancelled \/ caller = "returned"

------------------------------------------------------------------------------
\* The goroutine of parseStreamingChatResponse.

\* Mutant: a line that is not a payload ends the stream.
ScanLineNoSkip ==
    /\ reader = "scan" /\ pos < Len(stream.lines)
    /\ pos' = pos + 1
    /\ IF ReaderDone \/ stream.lines[pos + 1].kind \in {"skip", "done"}
         THEN reader' = "closed" /\ UNCHANGED held
         ELSE reader' = "send" /\ held' = pos + 1
    /\ UNCHANGED <<stream, cancelled, caller, answerVars, result>>

\* A line is scanned and the context looked at; lines already buffered are
\* scanned even when the body was closed.
ScanLine ==
    /\ reader = "scan" /\ pos < Len(stream.lines)
    /\ pos' = pos + 1
    /\ LET kind == stream.lines[pos + 1].kind IN
       \/ /\ ReaderDone \/ kind = "done"
          /\ reader' = "closed" /\ UNCHANGED held
       \/ /\ ~ReaderDone /\ kind = "skip"
          /\ UNCHANGED <<reader, held>>
       \/ /\ ~ReaderDone /\ kind \notin {"skip", "done"}
          /\ reader' = "send" /\ held' = pos + 1
    /\ UNCHANGED <<stream, cancelled, caller, answerVars, result>>

ScanEnds ==
    /\ reader = "scan" /\ pos = Len(stream.lines) /\ stream.end = "eof"
    /\ reader' = "closed"
    /\ UNCHANGED <<stream, pos, held, cancelled, caller, answerVars, result>>

\* Reading the body fails: the connection broke, the context was cancelled, or
\* createChat closed the body on its way out.
ScanFails ==
    /\ reader = "scan"
    /\ \/ pos = Len(stream.lines) /\ stream.end = "broken"
       \/ ReaderDone
    /\ reader' = "send error"
    /\ UNCHANGED <<stream, pos, held, cancelled, caller, answerVars, result>>

\* Mutant: the payload is sent without looking at the context.
StopOnDoneNever == FALSE /\ UNCHANGED streamVars

\* select: the context's branch.
StopOnDone ==
    /\ reader \in {"send", "send error"} /\ ReaderDone
    /\ reader' = "closed" /\ held' = 0
    /\ UNCHANGED <<stream, pos, cancelled, caller, answerVars, result>>

------------------------------------------------------------------------------
\* The caller: createChat, combineStreamingChatResponse, GenerateContent.

ReturnResult(r) == caller' = "returned" /\ result' = r

\* The request is made: it fails, or the goroutine starts.
CreateChat ==
    /\ caller = "request"
    /\ \/ ReturnResult("request") /\ UNCHANGED reader
       \/ caller' = "receive" /\ reader' = "scan" /\ UNCHANGED result
    /\ UNCHANGED <<stream, pos, held, cancelled, answerVars>>

\* updateFunctionCall: the message is passed by value, so it is left unchanged.
UpdateFunctionCall(message, i) == message

\* The delta of line i: its text and reason to finish, then its function call.
Combine(message, i) ==
    LET delta == stream.lines[i]
        m == [message EXCEPT !.finish = delta.finish,
                             !.text = IF delta.content THEN Append(@, i) ELSE @]
    IN  IF delta.function THEN UpdateFunctionCall(m, i) ELSE m

\* A payload without choices only sets the usage.
Receive ==
    /\ caller = "receive" /\ reader = "send"
    /\ reader' = "scan" /\ held' = 0
    /\ IF stream.lines[held].kind = "usage"
         THEN UNCHANGED <<caller, answerVars>>
         ELSE /\ response' = Combine(response, held)
              /\ taken' = held /\ part' = 0
              /\ caller' = "tools" /\ UNCHANGED streamed
    /\ UNCHANGED <<stream, pos, cancelled, result>>

\* A part of a tool call, <<line, place in it>>, is arguments for the call
\* begun last, or a new call.
PartOf(p) == stream.lines[p[1]].calls[p[2]]
Opens(p) == PartOf(p).typed \/ ~PartOf(p).arguments

\* Mutant: arguments go to the first call.
AppendToFirstCall(tools, p) ==
    IF Opens(p) THEN Append(tools, <<p>>)
    ELSE IF tools = <<>> THEN tools
    ELSE [tools EXCEPT ![1] = Append(@, p)]

\* One turn of updateToolCalls's loop; arguments before any call are dropped.
AppendToolCall(tools, p) ==
    IF Opens(p) THEN Append(tools, <<p>>)
    ELSE IF tools = <<>> THEN tools
    ELSE [tools EXCEPT ![Len(tools)] = Append(@, p)]

UpdateToolCalls ==
    /\ caller = "tools"
    /\ \/ /\ part < Len(stream.lines[taken].calls)
          /\ part' = part + 1
          /\ response' = [response EXCEPT !.tools = AppendToolCall(@, <<taken, part + 1>>)]
          /\ UNCHANGED caller
       \/ /\ part = Len(stream.lines[taken].calls)
          /\ caller' = "func" /\ UNCHANGED <<part, response>>
    /\ UNCHANGED <<stream, pos, reader, held, cancelled, taken, streamed, result>>

\* The chunk of a delta: the parts of its tool calls in place of its function
\* call, and that in place of its text.
Chunk(delta) ==
    IF delta.calls # <<>> THEN "calls"
    ELSE IF delta.function THEN "function" ELSE "content"

StreamingFunc ==
    /\ caller = "func"
    /\ streamed' = Append(streamed, [line |-> taken, chunk |-> Chunk(stream.lines[taken])])
    /\ \/ caller' = "receive" /\ UNCHANGED result
       \/ ReturnResult("func")
    /\ UNCHANGED <<stream, pos, reader, held, cancelled, taken, part, response>>

ReceiveError ==
    /\ caller = "receive" /\ reader = "send error"
    /\ reader' = "closed" /\ ReturnResult("read")
    /\ UNCHANGED <<stream, pos, held, cancelled, answerVars>>

\* The channel is closed.  GenerateContent dereferences the function call of a
\* message that finished with "function_call".
Answer ==
    /\ caller = "receive" /\ reader = "closed"
    /\ ReturnResult(IF response.finish = "function_call" /\ response.function = <<>>
                THEN "panic" ELSE "nil")
    /\ UNCHANGED <<stream, pos, reader, held, cancelled, answerVars>>

Cancel ==
    /\ ~cancelled /\ cancelled' = TRUE
    /\ UNCHANGED <<stream, pos, reader, held, caller, answerVars, result>>

Ended ==
    /\ caller = "returned" /\ reader \in {"closed", "not started"}
    /\ UNCHANGED streamVars

ReaderStep == ScanLine \/ ScanEnds \/ ScanFails \/ StopOnDone
CallerStep == \/ CreateChat \/ Receive \/ UpdateToolCalls \/ StreamingFunc
              \/ ReceiveError \/ Answer

StreamNext == ReaderStep \/ CallerStep \/ Cancel \/ Ended

StreamSpec == StreamInit /\ [][StreamNext]_streamVars
\* Goroutines that can move do, and StreamingFunc returns.
FairStreamSpec == StreamSpec /\ WF_streamVars(ReaderStep) /\ WF_streamVars(CallerStep)

------------------------------------------------------------------------------
\* Properties.

Part == (1..MaxLines) \X (Nat \ {0})
StreamTypeOK ==
    /\ stream \in Streams /\ pos \in 0..Len(stream.lines)
    /\ reader \in {"not started", "scan", "send", "send error", "closed"}
    /\ held \in 0..pos /\ (held # 0 <=> reader = "send")
    /\ cancelled \in BOOLEAN
    /\ caller \in {"request", "receive", "tools", "func", "returned"}
    /\ taken \in 0..pos /\ part \in Nat
    /\ response \in [text : Seq(1..MaxLines), tools : Seq(Seq(Part)),
                     function : Seq(1..MaxLines),
                     finish : {"", "stop", "tool_calls", "function_call"}]
    /\ streamed \in Seq([line : 1..MaxLines, chunk : {"content", "function", "calls"}])
    /\ result \in {"none", "nil", "request", "func", "read", "panic"}

\* The members of S, and nothing else, in the order of their lines.
InOrder(q, S) ==
    ToSet(q) = S /\ \A i, j \in DOMAIN q : i < j => q[i] < q[j]

\* What the stream says, from its lines alone: the deltas before the end marker,
\* and the parts of tool calls in them, one before another.
Kind(i) == stream.lines[i].kind
Deltas == {i \in DOMAIN stream.lines : /\ Kind(i) = "delta"
                                       /\ \A d \in 1..i : Kind(d) # "done"}
PartsOf(i) == {<<i, k>> : k \in 1..Len(stream.lines[i].calls)}
Parts(S) == UNION {PartsOf(i) : i \in S}
CallOf(p) == PartOf(p).call
Before(p, q) == p[1] < q[1] \/ (p[1] = q[1] /\ p[2] < q[2])
PartsInOrder(s, S) ==
    ToSet(s) = S /\ \A i, j \in DOMAIN s : i < j => Before(s[i], s[j])

\* The server sends one call after another, counted from 1, and the part that
\* opens a call, and no other, has a type or no arguments.
CallsInTurn ==
    LET all == Parts(Deltas) IN
    \A q \in all :
        /\ \A p \in all : Before(p, q) => CallOf(p) <= CallOf(q)
        /\ Opens(q) <=> (\A p \in all : Before(p, q) => CallOf(p) < CallOf(q))
        /\ \/ CallOf(q) = 1
           \/ \E p \in all : Before(p, q) /\ CallOf(p) >= CallOf(q) - 1

\* The lines StreamingFunc was called for, and with what.
StreamedLines == [k \in DOMAIN streamed |-> streamed[k].line]
Given(i, chunk) == [line |-> i, chunk |-> chunk] \in ToSet(streamed)
OwnParts ==
    LET all == Parts(ToSet(StreamedLines)) IN
    /\ \A c \in 1..Len(response.tools) :
          PartsInOrder(response.tools[c], {p \in all : CallOf(p) = c})
    /\ \A p \in all : CallOf(p) \in 1..Len(response.tools)

\* An answer is what StreamingFunc was called for, a beginning of the stream and
\* in its order.  It has their text; all of that was given to StreamingFunc, but
\* for the text of a delta with a function call or parts of tool calls, and so
\* was every part of its tool calls.  When the calls come in turn, each has its
\* own parts.
AnswersWhatItStreamed ==
    result = "nil" =>
        /\ \E n \in 0..Len(stream.lines) : InOrder(StreamedLines, {i \in Deltas : i <= n})
        /\ InOrder(response.text, {i \in ToSet(StreamedLines) : stream.lines[i].content})
        /\ \A i \in ToSet(response.text) :
              Given(i, "content") \/ stream.lines[i].function \/ stream.lines[i].calls # <<>>
        /\ \A c \in DOMAIN response.tools : \A p \in ToSet(response.tools[c]) :
              Given(p[1], "calls")
        /\ CallsInTurn => OwnParts

\* The same without what the client loses: all of the text was given to
\* StreamingFunc, and each call has its own parts however they come.
TextIsStreamed == result = "nil" => \A i \in ToSet(response.text) : Given(i, "content")
OwnArguments == result = "nil" => OwnParts

\* Only a cancellation may cut an answer short: otherwise a nil error comes with
\* every delta of the stream, and with its reason to finish.
WholeUnlessCancelled ==
    result = "nil" /\ ~cancelled =>
        /\ InOrder(StreamedLines, Deltas)
        /\ streamed # <<>> => response.finish = stream.lines[Last(streamed).line].finish

\* The message of a function call streamed to its end holds that call.
FunctionCallReturned ==
    caller = "returned" /\ response.finish = "function_call"
        => response.function # <<>>

\* Once the server has finished, the context is cancelled or the call returned,
\* whatever made it return, the call and its goroutine are over in the end.
CallEnds ==
    stream.end # "hang" \/ cancelled \/ caller = "returned"
        ~> caller = "returned" /\ reader \in {"closed", "not started"}
==============================================================================
