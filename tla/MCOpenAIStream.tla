--------------------------- MODULE MCOpenAIStream ---------------------------
\* Streams for OpenAIStream: a text; tool calls one after the other, some with
\* text beside them and several parts in a delta; tool calls whose arguments
\* alternate; arguments before any call; and function calls.  Each is whole,
\* cut, broken or hanging.
EXTENDS OpenAIStream

D(text, function, calls, finish) ==
    [kind |-> "delta", content |-> text, function |-> function, calls |-> calls,
     finish |-> finish]
NoDelta(kind) == [D(FALSE, FALSE, <<>>, "") EXCEPT !.kind = kind]
Skip == NoDelta("skip")
Done == NoDelta("done")
Usage == NoDelta("usage")
Text(f) == D(TRUE, FALSE, <<>>, f)
Tools(calls) == D(FALSE, FALSE, calls, "")
Finish(f) == D(FALSE, FALSE, <<>>, f)
Named(c) == [call |-> c, typed |-> TRUE, arguments |-> FALSE]
Untyped(c) == [call |-> c, typed |-> FALSE, arguments |-> FALSE]
Args(c) == [call |-> c, typed |-> FALSE, arguments |-> TRUE]
Entire(c) == [call |-> c, typed |-> TRUE, arguments |-> TRUE]

TextLines == <<Text(""), Skip, Text(""), Text("stop"), Usage, Done>>
InTurn == <<Text(""), D(TRUE, FALSE, <<Named(1), Args(1)>>, ""), Tools(<<Args(1), Untyped(2)>>),
            Skip, Tools(<<Args(2)>>), D(TRUE, FALSE, <<Args(2), Entire(3)>>, "tool_calls"), Done>>
Alternating == <<Tools(<<Named(1), Named(2)>>), Tools(<<Args(1)>>),
                 D(TRUE, FALSE, <<Args(2), Args(1)>>, "tool_calls"), Done>>
Orphaned == <<Tools(<<Args(1)>>), Usage, Tools(<<Entire(1), Args(1)>>), Text("stop")>>
FunctionLines == <<D(FALSE, TRUE, <<>>, ""), D(TRUE, TRUE, <<>>, ""),
                   D(FALSE, TRUE, <<Entire(1)>>, ""), Finish("function_call"), Done>>
FunctionStops == <<D(TRUE, TRUE, <<>>, ""), Text("stop"), Done, Text("")>>

Cut(ls, e) == {[lines |-> SubSeq(ls, 1, n), end |-> e] : n \in 0..Len(ls)}
Answers == UNION {Cut(ls, e) : ls \in {TextLines, InTurn, Alternating, Orphaned,
                                       FunctionLines, FunctionStops},
                               e \in {"eof", "broken", "hang"}}
FunctionCalls == {[lines |-> FunctionLines, end |-> "eof"]}
Interleaved == {[lines |-> Alternating, end |-> "eof"]}
Mixed == {[lines |-> InTurn, end |-> "eof"]}
============================================================================
