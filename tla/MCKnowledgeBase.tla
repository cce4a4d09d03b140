--------------------------- MODULE MCKnowledgeBase ---------------------------
\* Two calls that both add the document "shared", which has metadata.
EXTENDS KnowledgeBase

MCDocs == {"first", "shared", "last"}
MCDocsOf == [c \in {"p", "q"} |-> IF c = "p" THEN <<"first", "shared">>
                                             ELSE <<"shared", "last">>]
==============================================================================
