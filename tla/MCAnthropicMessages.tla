------------------------ MODULE MCAnthropicMessages ------------------------
\* Replies for AnthropicMessages: each kind of block, refusals and empty
\* messages, with the events the service sends for them, or one of them missing.
EXTENDS AnthropicMessages

B(kind, parts) == [kind |-> kind, parts |-> parts, signed |-> kind = "thinking",
                   json |-> TRUE]
CutTool == [B("tool_use", 1) EXCEPT !.json = FALSE]

E(type, b, k, kind) == [type |-> type, block |-> b, part |-> k, kind |-> kind]
BlockEvents(b, i) ==
    <<E("content_block_start", i, 0, b.kind)>>
    \o (IF b.kind = "redacted_thinking" THEN <<>>
        ELSE [k \in 1..b.parts |-> E("delta", i, k, b.kind)])
    \o (IF b.signed THEN <<E("signature_delta", i, 0, "")>> ELSE <<>>)
    \o <<E("content_block_stop", i, 0, "")>>
EventsOf(blocks) ==
    <<E("message_start", 0, 0, ""), E("ping", 0, 0, "")>>
    \o FlattenSeq([i \in DOMAIN blocks |-> BlockEvents(blocks[i], i)])
    \o <<E("message_delta", 0, 0, ""), E("message_stop", 0, 0, "")>>

Reply(blocks, stop) == [blocks |-> blocks, stop |-> stop, events |-> EventsOf(blocks)]
Without(r, i) == [r EXCEPT !.events = RemoveAt(@, i)]

ToolLoop == Reply(<<B("thinking", 2), B("text", 1), B("tool_use", 2),
                    B("tool_use", 1)>>, "tool_use")
Unstarted == Reply(<<B("thinking", 1), B("text", 1)>>, "end_turn")
AllReplies ==
    {ToolLoop,
     Reply(<<B("text", 2)>>, "end_turn"),
     Reply(<<B("redacted_thinking", 1), B("text", 0), B("tool_use", 0)>>, "tool_use"),
     Reply(<<B("compaction", 1), B("text", 2)>>, "end_turn"),
     Reply(<<B("text", 0)>>, "end_turn"),
     Reply(<<>>, "refusal"), Reply(<<>>, "end_turn"),
     Reply(<<B("text", 1), CutTool>>, "max_tokens"),
     Reply(<<B("text", 1), B("server_tool_use", 1)>>, "end_turn"),
     \* the start of the first block is missing, up to its signature or its end
     Without(Unstarted, 3), Without(Without(Unstarted, 3), 3),
     Without(Without(Without(Unstarted, 3), 3), 3)}
============================================================================
