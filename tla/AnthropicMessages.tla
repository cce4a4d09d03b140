-------------------------- MODULE AnthropicMessages --------------------------
(***************************************************************************)
(* One call of the anthropic adapter, from the request to the next one:    *)
(* createMessage asks for a message, decoded as a whole or assembled event *)
(* by event in a goroutine that also calls the streaming functions;        *)
(* processAnthropicResponse folds its content blocks into one choice, and  *)
(* the caller of a tool loop sends that choice back as the assistant's     *)
(* turn (AssistantMessage, handleAIMessage).                               *)
(*                                                                         *)
(* What a block says is a row of parts: <<b, k>> is part k of block b, as  *)
(* one delta of a stream carries it.                                       *)
(***************************************************************************)
EXTENDS Naturals, FiniteSets, SequencesExt

CONSTANTS
    Replies,    \* what the service may answer: the message, and its events
    MaxBlocks, MaxParts     \* bounds: blocks of a message, parts of a block

Kinds == {"text", "thinking", "redacted_thinking", "compaction", "tool_use"}
Unknown == "server_tool_use"    \* a kind the client has no case for

\* A tool_use block holds JSON, unless it was cut short; thinking is signed.
Block == [kind : Kinds \cup {Unknown}, parts : 0..MaxParts,
          signed : BOOLEAN, json : BOOLEAN]
Event == [type : {"message_start", "ping", "content_block_start", "delta",
                  "signature_delta", "content_block_stop", "message_delta",
                  "message_stop"},
          block : 0..MaxBlocks, part : 0..MaxParts, kind : Kinds \cup {Unknown, ""}]

\* The events that tell of a block, and their order: block by block, and within
\* one its start, its deltas, its signature, its stop.
Tells(e) == e.type \in {"content_block_start", "delta", "signature_delta",
                        "content_block_stop"}
Phase(e) == CASE e.type = "content_block_start" -> 0
              [] e.type = "delta" -> e.part
              [] e.type = "signature_delta" -> MaxParts + 1
              [] e.type = "content_block_stop" -> MaxParts + 2
Before(d, e) == d.block < e.block \/ (d.block = e.block /\ Phase(d) < Phase(e))
Of(r, type, b) == {p \in DOMAIN r.events : r.events[p].type = type /\ r.events[p].block = b}

IsMessage(r) ==
    /\ r.blocks \in Seq(Block) /\ Len(r.blocks) <= MaxBlocks
    /\ r.stop \in {"end_turn", "tool_use", "max_tokens", "refusal"}
    /\ \A b \in DOMAIN r.blocks : r.blocks[b].kind = "redacted_thinking" => r.blocks[b].parts = 1
\* Each event is about a block of the message, and they are in order.
EventsInOrder(r) ==
    /\ r.events \in Seq(Event)
    /\ \A p \in DOMAIN r.events : LET e == r.events[p] IN
         /\ Tells(e) => e.block \in DOMAIN r.blocks
         /\ e.type \in {"content_block_start", "delta"} => e.kind = r.blocks[e.block].kind
         /\ e.type = "delta" => /\ e.kind # "redacted_thinking"
                               /\ e.part \in 1..r.blocks[e.block].parts
    /\ \A p, q \in DOMAIN r.events :
         p < q /\ Tells(r.events[p]) /\ Tells(r.events[q]) => Before(r.events[p], r.events[q])
\* Nothing is left out, but for the beginning of a block; the stop comes last.
EventsComplete(r) ==
    /\ \A b \in DOMAIN r.blocks : Of(r, "content_block_stop", b) # {}
    /\ \A b \in DOMAIN r.blocks :
         Of(r, "content_block_start", b) # {} /\ r.blocks[b].kind # "redacted_thinking" =>
            \A k \in 1..r.blocks[b].parts : \E p \in Of(r, "delta", b) : r.events[p].part = k
    /\ \A s \in DOMAIN r.events : r.events[s].type = "message_stop" =>
         /\ \A p \in DOMAIN r.events : Tells(r.events[p]) => p < s
         /\ \E p \in 1..(s - 1) : r.events[p].type = "message_delta"

RepliesAreReplies ==
    /\ MaxBlocks \in Nat /\ MaxParts \in Nat
    /\ \A r \in Replies : IsMessage(r) /\ EventsInOrder(r) /\ EventsComplete(r)
ASSUME RepliesAssumption == RepliesAreReplies

VARIABLES
    reply,      \* the message the service means to send
    streaming,  \* a streaming function was given
    cut,        \* the events that arrive
    end,        \* and then: "eof", "broken", "error" (an error event), "hang"
    cancelled,  \* the caller's context
    pos,        \* events scanned
    reader,     \* the goroutine: "not started", "scan", "func", "send",
                \* "send error", "closed"
    response,   \* the message being assembled
    streamed,   \* parts the streaming functions took (history variable)
    caller,     \* "request", "decode", "receive", "process", "returned", "replied"
    last,       \* lastResponse: received with message_stop, or Nil
    result,     \* "none", "nil" or an error
    choice,     \* the answer, or Nil
    told,       \* what the callbacks handler was told
    replayed    \* the assistant's turn of the next request

server == <<reply, streaming, cut, end>>
messagesVars == <<server, cancelled, pos, reader, response, streamed, caller,
                 last, result, choice, told, replayed>>

Nil == [nil |-> TRUE]
EmptyResponse == [blocks |-> <<>>, stop |-> ""]

MessagesInit ==
    /\ reply \in Replies /\ streaming \in BOOLEAN
    /\ cut \in 0..Len(reply.events)
    /\ end \in {"eof", "broken", "error", "hang"}
    /\ ~streaming => \A i \in DOMAIN reply.blocks : reply.blocks[i].json
    /\ cancelled = FALSE
    /\ pos = 0 /\ reader = "not started"
    /\ response = EmptyResponse /\ streamed = <<>>
    /\ caller = "request" /\ last = Nil
    /\ result = "none" /\ choice = Nil
    /\ told = <<>> /\ replayed = <<>>

------------------------------------------------------------------------------
\* The goroutine of parseStreamingMessageResponse.

\* The next event, if it is of this type.
Scan(type) ==
    /\ reader = "scan" /\ pos < cut /\ reply.events[pos + 1].type = type
    /\ pos' = pos + 1
    /\ UNCHANGED <<server, cancelled, caller, last, result, choice, told, replayed>>
Current == reply.events[pos + 1]
Opened(b) == b <= Len(response.blocks)

\* message_start sets counters, a ping and an event of an unknown type nothing;
\* so does a line that is not data.
Ignored ==
    /\ Scan("message_start") \/ Scan("ping")
    /\ UNCHANGED <<reader, response, streamed>>

\* handleContentBlockStartEvent
ContentBlockStart ==
    /\ Scan("content_block_start")
    /\ IF Current.kind = Unknown
         THEN reader' = "send error" /\ UNCHANGED response
         ELSE /\ response' = IF Opened(Current.block) THEN response ELSE
                    [response EXCEPT !.blocks = Append(@,
                        [kind |-> Current.kind, id |-> Current.block,
                         \* redacted data comes with the start of its block
                         data |-> IF Current.kind = "redacted_thinking"
                                    THEN <<<<Current.block, 1>>>> ELSE <<>>,
                         input |-> <<>>, signed |-> FALSE])]
              /\ UNCHANGED reader
    /\ UNCHANGED streamed

\* Of the deltas, text goes to StreamingFunc and thinking to
\* StreamingReasoningFunc, once added to the block.
Shown(kind) == kind \in {"text", "thinking"}
Part(e) == <<e.block, e.part>>

\* handleTextDelta, handleThinkingDelta, handleJSONDelta, handleCompactionDelta
ContentBlockDelta ==
    /\ Scan("delta")
    /\ IF Opened(Current.block) /\ response.blocks[Current.block].kind = Current.kind
         THEN /\ response' = [response EXCEPT !.blocks[Current.block].data =
                                                Append(@, Part(Current))]
              /\ reader' = IF Shown(Current.kind) THEN "func" ELSE reader
         ELSE reader' = "send error" /\ UNCHANGED response
    /\ UNCHANGED streamed

\* A delta of any other type is dropped: the signature of a thinking block is.
SignatureDelta ==
    /\ Scan("signature_delta")
    /\ reader' = IF Opened(Current.block) THEN reader ELSE "send error"
    /\ UNCHANGED <<response, streamed>>

\* Mutant: an error of the streaming function is not passed on.
StreamingFuncErrorIgnored ==
    /\ reader = "func"
    /\ \/ streamed' = Append(streamed, Part(reply.events[pos]))
       \/ UNCHANGED streamed
    /\ reader' = "scan"
    /\ UNCHANGED <<server, cancelled, pos, response, caller, last, result,
                   choice, told, replayed>>

\* The streaming function returns nil, or an error.
StreamingFunc ==
    /\ reader = "func"
    /\ \/ reader' = "scan" /\ streamed' = Append(streamed, Part(reply.events[pos]))
       \/ reader' = "send error" /\ UNCHANGED streamed
    /\ UNCHANGED <<server, cancelled, pos, response, caller, last, result,
                   choice, told, replayed>>

\* handleContentBlockStop parses the JSON gathered for a tool; none means {}.
ContentBlockStop ==
    /\ Scan("content_block_stop")
    /\ LET b == Current.block IN
       IF ~Opened(b) \/ (response.blocks[b].kind = "tool_use" /\ ~reply.blocks[b].json)
         THEN reader' = "send error" /\ UNCHANGED response
         ELSE /\ response' = IF response.blocks[b].kind = "tool_use"
                    THEN [response EXCEPT !.blocks[b].input = response.blocks[b].data]
                    ELSE response
              /\ UNCHANGED reader
    /\ UNCHANGED streamed

\* handleMessageDeltaEvent
MessageDelta ==
    /\ Scan("message_delta")
    /\ response' = [response EXCEPT !.stop = reply.stop]
    /\ UNCHANGED <<reader, streamed>>

MessageStop ==
    /\ Scan("message_stop")
    /\ reader' = "send"
    /\ UNCHANGED <<response, streamed>>

\* Mutant: what was assembled is delivered at the end of the body as well.
ScanEndsDelivering ==
    /\ reader = "scan" /\ pos = cut /\ end = "eof"
    /\ reader' = IF last = Nil THEN "send" ELSE "closed"
    /\ UNCHANGED <<server, cancelled, pos, response, streamed, caller, last,
                   result, choice, told, replayed>>

ScanEnds ==
    /\ reader = "scan" /\ pos = cut /\ end = "eof"
    /\ reader' = "closed"
    /\ UNCHANGED <<server, cancelled, pos, response, streamed, caller, last,
                   result, choice, told, replayed>>

\* An error event; a body that breaks, or is closed with the context.
ScanFails ==
    /\ reader = "scan"
    /\ (pos = cut /\ end \in {"broken", "error"}) \/ cancelled
    /\ reader' = "send error"
    /\ UNCHANGED <<server, cancelled, pos, response, streamed, caller, last,
                   result, choice, told, replayed>>

------------------------------------------------------------------------------
\* createMessage, the receiving end of parseStreamingMessageResponse, and
\* generateMessagesContent.

\* An error of the client is told, classified and returned.
Fail(err) ==
    /\ caller' = "returned" /\ result' = err
    /\ told' = Append(told, "error")

Request ==
    /\ caller = "request"
    /\ told' = <<"start">>
    /\ IF streaming THEN caller' = "receive" /\ reader' = "scan"
                    ELSE caller' = "decode" /\ UNCHANGED reader
    /\ UNCHANGED <<server, cancelled, pos, response, streamed, last, result,
                   choice, replayed>>

\* The request could not be sent, or was refused with a status.
RequestFails ==
    /\ caller = "request"
    /\ caller' = "returned" /\ result' = "request" /\ told' = <<"start", "error">>
    /\ UNCHANGED <<server, cancelled, pos, reader, response, streamed, last,
                   choice, replayed>>

\* MessageResponsePayload.UnmarshalJSON of a whole message.
Decoded ==
    [blocks |-> [i \in DOMAIN reply.blocks |->
        LET b == reply.blocks[i]
            parts == [k \in 1..b.parts |-> <<i, k>>]
        IN  [kind |-> b.kind, id |-> i,
             data |-> IF b.kind = "tool_use" THEN <<>> ELSE parts,
             input |-> IF b.kind = "tool_use" THEN parts ELSE <<>>,
             signed |-> b.signed]],
     stop |-> reply.stop]

Decode ==
    /\ caller = "decode" /\ end = "eof" /\ cut = Len(reply.events)
    /\ \A i \in DOMAIN reply.blocks : reply.blocks[i].kind # Unknown
    /\ last' = Decoded /\ caller' = "process"
    /\ UNCHANGED <<server, cancelled, pos, reader, response, streamed, result,
                   choice, told, replayed>>

\* The body is cut, breaks or is closed, or holds a block of an unknown kind.
DecodeFails ==
    /\ caller = "decode"
    /\ \/ cancelled
       \/ end # "hang" /\ (end # "eof" \/ cut < Len(reply.events))
       \/ /\ end # "hang"
          /\ \E i \in DOMAIN reply.blocks : reply.blocks[i].kind = Unknown
    /\ Fail("decode")
    /\ UNCHANGED <<server, cancelled, pos, reader, response, streamed, last,
                   choice, replayed>>

\* The rendezvous on the channel: a message, or an error that ends the call.
ReceiveMessage ==
    /\ caller = "receive" /\ reader = "send"
    /\ last' = response /\ reader' = "scan"
    /\ UNCHANGED <<server, cancelled, pos, response, streamed, caller, result,
                   choice, told, replayed>>

\* Mutant: the goroutine goes on after an error.
ReceiveErrorGoingOn ==
    /\ caller = "receive" /\ reader = "send error"
    /\ Fail("stream") /\ reader' = "scan"
    /\ UNCHANGED <<server, cancelled, pos, response, streamed, last, choice,
                   replayed>>

ReceiveError ==
    /\ caller = "receive" /\ reader = "send error"
    /\ Fail("stream") /\ reader' = "closed"
    /\ UNCHANGED <<server, cancelled, pos, response, streamed, last, choice,
                   replayed>>

ReceiveEnds ==
    /\ caller = "receive" /\ reader = "closed"
    /\ caller' = "process"
    /\ UNCHANGED <<server, cancelled, pos, reader, response, streamed, last,
                   result, choice, told, replayed>>

------------------------------------------------------------------------------
\* processAnthropicResponse and messageBuilder: the blocks in order as the
\* parts of one choice.

PartKind(kind) == CASE kind \in {"text", "compaction"} -> "text"
                    [] kind = "tool_use" -> "tool_call"
                    [] OTHER -> kind
PartOf(b) == [kind |-> PartKind(b.kind),
              says |-> IF b.kind = "tool_use" THEN b.input ELSE b.data,
              signed |-> b.signed]

Explanation == <<0, 1>>     \* of a refusal, in the service's words or a default
\* The choice's Content, and what Parts, when there are any, are replayed.
ChoiceOf(r) ==
    LET parts == [i \in DOMAIN r.blocks |-> PartOf(r.blocks[i])]
        texts == SelectSeq(parts, LAMBDA p : p.kind = "text")
    IN  [content |-> FlattenSeq([i \in DOMAIN texts |-> texts[i].says]),
         parts |-> parts, stop |-> r.stop]
\* refusalChoice
Refusal == [content |-> <<Explanation>>, parts |-> <<>>, stop |-> "refusal"]

Usable(r) == r # Nil /\ (r.blocks # <<>> \/ r.stop = "refusal")

Process ==
    /\ caller = "process" /\ Usable(last)
    /\ caller' = "returned"
    /\ choice' = IF last.blocks = <<>> THEN Refusal ELSE ChoiceOf(last)
    /\ result' = "nil" /\ told' = Append(told, "end")
    /\ UNCHANGED <<server, cancelled, pos, reader, response, streamed, last, replayed>>

\* ErrEmptyResponse, which the handler is not told of.
ProcessEmpty ==
    /\ caller = "process" /\ ~Usable(last)
    /\ caller' = "returned" /\ result' = "empty"
    /\ UNCHANGED <<server, cancelled, pos, reader, response, streamed, last,
                   choice, told, replayed>>

\* Mutant: the turn is made of the text and the tool calls.
AssistantMessageOfText(c) ==
    (IF c.content = <<>> THEN <<>>
     ELSE <<[kind |-> "text", says |-> c.content, signed |-> FALSE]>>)
    \o SelectSeq(c.parts, LAMBDA p : p.kind = "tool_call")

\* ContentResponse.AssistantMessage
AssistantMessage(c) ==
    IF c.parts # <<>> THEN c.parts
    ELSE IF c.content = <<>> THEN <<>>
    ELSE <<[kind |-> "text", says |-> c.content, signed |-> FALSE]>>

\* The members of a sequence at some of its positions, in order.
Order(I) == CHOOSE f \in [1..Cardinality(I) -> I] :
                \A i, j \in 1..Cardinality(I) : i < j => f[i] < f[j]
At(s, I) == [k \in 1..Cardinality(I) |-> s[Order(I)[k]]]

\* handleAIMessage: empty text is skipped, and a turn of nothing else replaced
\* by the default explanation.
HandleAIMessage(parts) ==
    LET kept == At(parts, {i \in DOMAIN parts : parts[i].kind # "text" \/ parts[i].says # <<>>})
    IN
    IF kept # <<>> THEN kept
    ELSE <<[kind |-> "text", says |-> <<Explanation>>, signed |-> FALSE]>>

\* The caller goes on with the conversation.
NextRequest ==
    /\ caller = "returned" /\ result = "nil"
    /\ caller' = "replied"
    /\ replayed' = HandleAIMessage(AssistantMessage(choice))
    /\ UNCHANGED <<server, cancelled, pos, reader, response, streamed, last,
                   result, choice, told>>

Cancel ==
    /\ ~cancelled /\ caller \notin {"returned", "replied"}
    /\ cancelled' = TRUE
    /\ UNCHANGED <<server, pos, reader, response, streamed, caller, last,
                   result, choice, told, replayed>>

\* The call has ended, or waits for a service that does not go on.
Ended ==
    /\ \/ caller = "replied"
       \/ caller = "returned" /\ result # "nil"
       \/ end = "hang" /\ ~cancelled
    /\ UNCHANGED messagesVars

ReaderStep ==
    \/ Ignored \/ ContentBlockStart \/ ContentBlockDelta \/ SignatureDelta
    \/ StreamingFunc \/ ContentBlockStop \/ MessageDelta \/ MessageStop
    \/ ScanEnds \/ ScanFails
CallerStep ==
    \/ Request \/ RequestFails \/ Decode \/ DecodeFails \/ ReceiveMessage
    \/ ReceiveError \/ ReceiveEnds \/ Process \/ ProcessEmpty

MessagesNext == ReaderStep \/ CallerStep \/ NextRequest \/ Cancel \/ Ended

MessagesSpec == MessagesInit /\ [][MessagesNext]_messagesVars
\* Goroutines that can move do, and streaming functions return.
FairMessagesSpec ==
    MessagesSpec /\ WF_messagesVars(ReaderStep) /\ WF_messagesVars(CallerStep)

------------------------------------------------------------------------------
\* Properties.

PartIds == (0..MaxBlocks) \X (0..MaxParts)
PartType == [kind : {"text", "tool_call", "thinking", "redacted_thinking"},
             says : Seq(PartIds), signed : BOOLEAN]
AssembledType == [kind : Kinds, id : 1..MaxBlocks, data : Seq(PartIds),
                  input : Seq(PartIds), signed : BOOLEAN]
ResponseType == [blocks : Seq(AssembledType),
                 stop : {"", "end_turn", "tool_use", "max_tokens", "refusal"}]
MessagesTypeOK ==
    /\ reply \in Replies /\ streaming \in BOOLEAN /\ cancelled \in BOOLEAN
    /\ cut \in 0..Len(reply.events) /\ pos \in 0..cut
    /\ reader \in {"not started", "scan", "func", "send", "send error", "closed"}
    /\ reader = "not started" \/ streaming
    /\ response \in ResponseType
    /\ last = Nil \/ last \in ResponseType
    /\ streamed \in Seq(PartIds)
    /\ caller \in {"request", "decode", "receive", "process", "returned", "replied"}
    /\ result \in {"none", "nil", "request", "decode", "stream", "empty"}
    /\ choice = Nil \/ choice \in [content : Seq(PartIds), parts : Seq(PartType),
                                   stop : {"end_turn", "tool_use", "max_tokens", "refusal"}]
    /\ told \in {<<>>, <<"start">>, <<"start", "end">>, <<"start", "error">>}
    /\ replayed \in Seq(PartType)

\* What the message says, from the service's side alone.
Says(i) == [k \in 1..reply.blocks[i].parts |-> <<i, k>>]
Blocks == [i \in DOMAIN reply.blocks |-> <<PartKind(reply.blocks[i].kind), Says(i)>>]
Seen(parts) == [i \in DOMAIN parts |-> <<parts[i].kind, parts[i].says>>]

\* A nil error comes with the whole message, however it was sent and wherever
\* the stream was cut: every block, each with all of its own parts, tools with
\* their own arguments, and the reason to stop.
WholeOrError ==
    result = "nil" =>
        /\ choice.stop = reply.stop
        /\ Seen(choice.parts) = Blocks
        /\ reply.blocks = <<>> => choice = Refusal

\* What the streaming functions took is the start of the message's text and
\* thinking, in order, and all of it when the answer is there: nothing shown to
\* a user is missing from the answer, nor the reverse.
Display == {x \in PartIds : /\ x[1] \in DOMAIN reply.blocks
                            /\ Shown(reply.blocks[x[1]].kind)
                            /\ x[2] \in 1..reply.blocks[x[1]].parts}
Precedes(x, y) == x[1] < y[1] \/ (x[1] = y[1] /\ x[2] < y[2])
StreamedIsAnswered ==
    /\ \A i, j \in DOMAIN streamed : i < j => Precedes(streamed[i], streamed[j])
    /\ ToSet(streamed) \subseteq Display
    /\ \A x \in Display, y \in ToSet(streamed) : Precedes(x, y) => x \in ToSet(streamed)
    /\ streaming /\ result = "nil" => ToSet(streamed) = Display

\* The next request has the assistant say what it said, every block that is not
\* an empty text in its place, and it never has it say nothing.
ReplayKeepsTheTurn ==
    caller = "replied" =>
        LET said == {i \in DOMAIN Blocks : Blocks[i][1] # "text" \/ Blocks[i][2] # <<>>} IN
        IF said # {} THEN Seen(replayed) = At(Blocks, said)
        ELSE Seen(replayed) = <<<<"text", <<Explanation>>>>>>

\* Thinking the service signed is replayed with its signature.
SignedThinkingReplayed ==
    caller = "replied" =>
        \A p \in ToSet(replayed) :
            p.kind = "thinking" => p.signed = reply.blocks[p.says[1][1]].signed

\* A call whose service goes on, or that is cancelled, returns, and leaves no
\* goroutine behind.
CallEnds ==
    (end # "hang" \/ cancelled) ~>
        /\ caller \in {"returned", "replied"}
        /\ reader \in {"not started", "closed"}
==============================================================================
